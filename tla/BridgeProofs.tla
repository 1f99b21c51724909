---------------------------- MODULE BridgeProofs ----------------------------
(***************************************************************************)
(* Proofs about Bridge, for every set of sessions, every capacity and      *)
(* every number of chunks and messages, in three parts.                    *)
(*                                                                         *)
(* First CoreInv: who has the lock, on which clients the threads work, and *)
(* how far each client's connection is.  For each thread, a lemma says     *)
(* which of its actions write which variable; the others follow that.      *)
(*                                                                         *)
(* Then the life of a client, from its CONNECT to its close callback.      *)
(* What makes it safe is the order of its requests in the queue: CONNECT   *)
(* ahead of DISCONNECT, DISCONNECT at most once and only while no one else *)
(* deletes the client, a WRITE for every message ahead of DISCONNECT.      *)
(* LifecycleInv and WritesCovered say so, on top of CoreInv.               *)
(*                                                                         *)
(* Last, Bridge implements Session: every step of the two threads is a     *)
(* step of one session, or none that a browser or a backend could see.     *)
(* What SessionProofs shows for sessions then holds for the queues, the    *)
(* lock and the callbacks that make them.                                  *)
(***************************************************************************)
EXTENDS Bridge, FiniteSetTheorems, SequenceTheorems, TLAPS

USE BridgeAssumption

ServerStep == HttpRequest \/ Waiting \/ Handler
UvStep == Backend \/ LoopStep \/ TimerDue \/ Loop_onTimer \/ CloseCallback

LEMMA NextSplit == [Next]_vars => ServerStep \/ UvStep \/ UNCHANGED vars
  BY DEF Next, ServerStep, UvStep, Halted

(* What the FastCGI thread writes, and where. *)
LEMMA ServerWrites ==
    ASSUME ServerStep
    PROVE  /\ UNCHANGED <<connect_req, reading, wake, lpc, busy, handle_,
                          received, forwarded, uninit, fault, victim>>
           /\ UNCHANGED read_queue_ \/ ReadChunk \/ ReadNoMemory
           /\ UNCHANGED <<write_queue_, posted>> \/ WriteProduce
           /\ \/ UNCHANGED <<request_queue_, client_map_, created>>
              \/ \E c \in Client : Server_onConnect(c)
              \/ Execute("exec_disconnect", "DISCONNECT")
              \/ Execute("exec_write", "WRITE")
           /\ UNCHANGED got \/ got' = <<>> \/ ReadChunk
           /\ UNCHANGED delivered \/ ReadEmpty \/ ReadChunk
           /\ UNCHANGED lost \/ ReadNoMemory
           /\ UNCHANGED state_ \/ Client_disconnect \/ SetConnecting
           /\ UNCHANGED opened \/ ConnectSucceeds
  <1> USE DEF ServerStep, HttpRequest, Waiting, Handler, Server_onConnect,
         Server_onDisconnect, Server_onPost, Server_onPoll, ConnectSucceeds,
         ConnectFails, ConnectTimesOut, WaitAgain, ConnectSend,
         SetConnecting, WaitBegin, DisconnectReturns,
         Client_disconnect, Execute, AsyncSend, WriteProduce, ReadGone,
         ReadChecked, ReadEmpty, ReadChunk, ReadNoMemory
  <1>1. UNCHANGED <<connect_req, reading, wake, lpc, busy, handle_, received,
                    forwarded, uninit, fault, victim>>
    BY DEF client, uv, history
  <1>2. UNCHANGED read_queue_ \/ ReadChunk \/ ReadNoMemory
    BY DEF client
  <1>3. UNCHANGED <<write_queue_, posted>> \/ WriteProduce
    BY DEF client, history
  <1>4. \/ UNCHANGED <<request_queue_, client_map_, created>>
        \/ \E c \in Client : Server_onConnect(c)
        \/ Execute("exec_disconnect", "DISCONNECT")
        \/ Execute("exec_write", "WRITE")
    BY DEF storage, loop, history
  <1>5. UNCHANGED got \/ got' = <<>> \/ ReadChunk
    BY DEF server, Respond, Deliver
  <1>6. UNCHANGED delivered \/ ReadEmpty \/ ReadChunk
    BY DEF history
  <1>7. UNCHANGED state_ \/ Client_disconnect \/ SetConnecting
    BY DEF client
  <1>8. UNCHANGED opened \/ ConnectSucceeds
    BY DEF history
  <1>9. UNCHANGED lost \/ ReadNoMemory
    BY DEF history
  <1> QED BY <1>1, <1>2, <1>3, <1>4, <1>5, <1>6, <1>7, <1>8, <1>9

(* What the libuv thread writes, and where. *)
LEMMA UvWrites ==
    ASSUME UvStep
    PROVE  /\ UNCHANGED <<lock_, pc, cur, got, created, opened, timedout, posted,
                          delivered>>
           /\ UNCHANGED client_map_ \/ \E c \in Client : Loop_onDisconnect(c)
           /\ \/ UNCHANGED read_queue_ \/ ReadProduce
              \/ \E c \in Client : Loop_onDisconnect(c)
           /\ \/ UNCHANGED write_queue_ \/ Client__write \/ WriteUndecodable
              \/ \E c \in Client : Loop_onDisconnect(c)
           /\ \/ UNCHANGED request_queue_
              \/ request_queue_ # <<>> /\ request_queue_' = Tail(request_queue_)
           /\ UNCHANGED <<received, lost>> \/ ReadProduce
           /\ UNCHANGED forwarded \/ Client__write
           /\ \/ UNCHANGED connect_req
              \/ \E c \in Client : Client_onConnect(c) \/ OnConnectFails(c)
              \/ \E c \in Client : Client__connect(c)
           /\ \/ UNCHANGED state_ \/ Loop_onTimer
              \/ \E c \in Client : \/ Client_onConnect(c) \/ OnConnectFails(c)
                                   \/ OnReadError(c) \/ ConnectError(c)
           /\ UNCHANGED uninit \/ \E c \in Client : ConnectError(c)
           /\ \/ UNCHANGED <<fault, victim>> \/ Loop_onTimer \/ Dangling
              \/ \E c \in Client : CloseRequested(c) \/ OnReadError(c)
           /\ lpc' = "onconnect" => \E c \in Client : Client_onConnect(c)
  <1> USE DEF UvStep, Backend, LoopStep, TimerDue, Loop_onTimer, CloseCallback,
         Client_onConnect, OnConnectFails, Client_onRead, OnReadError,
         PollBegin, PollEnd, ClosingEnd, Loop_onAsync, DrainEnd, Dangling,
         Client__write, WriteUndecodable, WriteDone, ReadStart, ReadProduce,
         Client__connect, ConnectError, CloseRequested, WriteBegin,
         Loop_onDisconnect
  <1>1. UNCHANGED <<lock_, pc, cur, got, created, opened, timedout, posted, delivered>>
    BY DEF storage, server, history
  <1>2. UNCHANGED client_map_ \/ \E c \in Client : Loop_onDisconnect(c)
    BY DEF storage
  <1>3. \/ UNCHANGED read_queue_ \/ ReadProduce
        \/ \E c \in Client : Loop_onDisconnect(c)
    BY DEF client
  <1>4. \/ UNCHANGED write_queue_ \/ Client__write \/ WriteUndecodable
        \/ \E c \in Client : Loop_onDisconnect(c)
    BY DEF client
  <1>5. \/ UNCHANGED request_queue_
        \/ request_queue_ # <<>> /\ request_queue_' = Tail(request_queue_)
    BY DEF loop, Consume
  <1>6. UNCHANGED <<received, lost>> \/ ReadProduce
    BY DEF history
  <1>7. UNCHANGED forwarded \/ Client__write
    BY DEF history
  <1>8. \/ UNCHANGED connect_req
        \/ \E c \in Client : Client_onConnect(c) \/ OnConnectFails(c)
        \/ \E c \in Client : Client__connect(c)
    BY DEF uv
  <1>9. \/ UNCHANGED state_ \/ Loop_onTimer
        \/ \E c \in Client : \/ Client_onConnect(c) \/ OnConnectFails(c)
                             \/ OnReadError(c) \/ ConnectError(c)
    BY DEF client
  <1>10. UNCHANGED uninit \/ \E c \in Client : ConnectError(c)
    BY DEF history
  <1>11. \/ UNCHANGED <<fault, victim>> \/ Loop_onTimer \/ Dangling
         \/ \E c \in Client : CloseRequested(c) \/ OnReadError(c)
    OBVIOUS
  <1>12. lpc' = "onconnect" => \E c \in Client : Client_onConnect(c)
    <2>1. lpc = "onconnect" => ReadStart
      BY DEF Consume
    <2>2. lpc # "onconnect" /\ lpc' = "onconnect" => \E c \in Client : Client_onConnect(c)
      BY DEF uv, WriteEnd
    <2> QED BY <2>1, <2>2
  <1> QED BY <1>1, <1>2, <1>3, <1>4, <1>5, <1>6, <1>7, <1>8, <1>9, <1>10,
             <1>11, <1>12

(* Sequences and updated functions keep their type. *)
LEMMA SeqType ==
    ASSUME NEW S
    PROVE  /\ <<>> \in Seq(S)
           /\ \A s \in Seq(S), e \in S : Append(s, e) \in Seq(S)
           /\ \A s \in Seq(S) : s # <<>> => Head(s) \in S /\ Tail(s) \in Seq(S)
  BY EmptySeq, AppendProperties, HeadTailProperties

LEMMA UpdateType ==
    ASSUME NEW S, NEW T, NEW f \in [S -> T], NEW e \in T, NEW c \in S
    PROVE  [f EXCEPT ![c] = e] \in [S -> T]
  OBVIOUS

(* The clients the two threads work on are clients. *)
LEMMA AtWork ==
    ASSUME TypeOK, HandlerClientLive, Callbacks
    PROVE  /\ pc # "idle" => cur \in Client
           /\ lpc \in {"write", "onconnect", "onread"} => busy \in Client
  BY DEF TypeOK, StorageType, HandlerClientLive, Callbacks

-----------------------------------------------------------------------------
(* Types. *)
LEMMA TypeInit == Init => TypeOK
  <1> SUFFICES ASSUME Init PROVE TypeOK
    OBVIOUS
  <1>1. StorageType /\ ClientType
    BY DEF Init, StorageType, ClientType, States
  <1>2. QueueType
    <2>1. async_ \in BOOLEAN
      BY DEF Init
    <2>2. <<>> \in Seq(Nat) /\ <<>> \in Seq(Request)
      BY SeqType
    <2> QED BY <2>1, <2>2, Zenon DEF Init, QueueType
  <1>3. UvType
    BY DEF Init, UvType
  <1>4. ServerType
    <2>1. signalled \in BOOLEAN
      BY DEF Init
    <2>2. got \in Seq(Nat)
      BY SeqType DEF Init
    <2> QED BY <2>1, <2>2 DEF Init, ServerType
  <1>5. HistoryType
    BY DEF Init, HistoryType
  <1> QED BY <1>1, <1>2, <1>3, <1>4, <1>5 DEF TypeOK

LEMMA TypeServer ==
    ASSUME TypeOK, HandlerClientLive, Callbacks, ServerStep
    PROVE  TypeOK'
  <1>0. pc # "idle" => cur \in Client
    BY AtWork
  <1>1. StorageType'
    BY DEF TypeOK, StorageType, ServerStep, HttpRequest, Waiting, Handler, Server_onConnect,
         Server_onDisconnect, Server_onPost, Server_onPoll, ConnectSucceeds,
         ConnectFails, ConnectTimesOut, WaitAgain, ConnectSend,
         SetConnecting, WaitBegin, DisconnectReturns,
         Client_disconnect, Execute, AsyncSend, WriteProduce, ReadGone,
         ReadChecked, ReadEmpty, ReadChunk, ReadNoMemory,
         ClientStorage_create, Get, Respond, Deliver, storage
  <1>2. ClientType'
    BY <1>0 DEF TypeOK, ClientType, ServerStep, HttpRequest, Waiting, Handler, Server_onConnect,
         Server_onDisconnect, Server_onPost, Server_onPoll, ConnectSucceeds,
         ConnectFails, ConnectTimesOut, WaitAgain, ConnectSend,
         SetConnecting, WaitBegin, DisconnectReturns,
         Client_disconnect, Execute, AsyncSend, WriteProduce, ReadGone,
         ReadChecked, ReadEmpty, ReadChunk, ReadNoMemory,
         Client_connect, client, States
  <1>3. QueueType'
    <2>1. read_queue_' \in [Client -> Seq(Nat)]
      <3>1. read_queue_ \in [Client -> Seq(Nat)]
        BY DEF TypeOK, QueueType
      <3>2. CASE ReadChunk \/ ReadNoMemory
        <4>1. cur \in Client /\ read_queue_[cur] \in Seq(Nat)
          BY <1>0, <3>1, <3>2 DEF ReadChunk, ReadNoMemory
        <4> DEFINE rest == IF read_queue_[cur] = <<>> THEN <<>> ELSE Tail(read_queue_[cur])
        <4>2. read_queue_' = [read_queue_ EXCEPT ![cur] = rest]
          BY <3>2 DEF ReadChunk, ReadNoMemory
        <4>3. rest \in Seq(Nat)
          BY <4>1, SeqType
        <4> HIDE DEF rest
        <4> QED BY <3>1, <4>1, <4>2, <4>3, UpdateType
      <3> QED BY <3>1, <3>2, ServerWrites
    <2>2. write_queue_' \in [Client -> Seq(Nat)]
      <3>1. write_queue_ \in [Client -> Seq(Nat)]
        BY DEF TypeOK, QueueType
      <3>2. CASE WriteProduce
        <4>1. cur \in Client /\ write_queue_[cur] \in Seq(Nat) /\ posted[cur] + 1 \in Nat
          BY <1>0, <3>1, <3>2 DEF WriteProduce, TypeOK, HistoryType
        <4>2. Append(write_queue_[cur], posted[cur] + 1) \in Seq(Nat)
          BY <4>1, SeqType
        <4> QED BY <3>1, <3>2, <4>1, <4>2, UpdateType DEF WriteProduce
      <3> QED BY <3>1, <3>2, ServerWrites
    <2>3. request_queue_' \in Seq(Request)
      <3>1. \A t \in RequestType, c \in Client : request_t(t, c) \in Request
        BY DEF request_t, Request
      <3>2. \/ UNCHANGED request_queue_
            \/ \E r \in Request : request_queue_' = Append(request_queue_, r)
        BY <1>0, <3>1, ServerWrites DEF Server_onConnect, Client_connect, Execute, RequestType
      <3>3. request_queue_ \in Seq(Request)
        BY DEF TypeOK, QueueType
      <3> QED BY <3>2, <3>3, SeqType
    <2>4. async_' \in BOOLEAN
      BY DEF TypeOK, QueueType, ServerStep, HttpRequest, Waiting, Handler, Server_onConnect,
         Server_onDisconnect, Server_onPost, Server_onPoll, ConnectSucceeds,
         ConnectFails, ConnectTimesOut, WaitAgain, ConnectSend,
         SetConnecting, WaitBegin, DisconnectReturns,
         Client_disconnect, Execute, AsyncSend, WriteProduce, ReadGone,
         ReadChecked, ReadEmpty, ReadChunk, ReadNoMemory, Client_connect, loop
    <2> QED BY <2>1, <2>2, <2>3, <2>4 DEF QueueType
  <1>4. UvType'
    BY ServerWrites DEF TypeOK, UvType
  <1>5. ServerType'
    <2>1. got' \in Seq(Nat)
      <3>1. CASE ReadChunk
        <4>1. Head(read_queue_[cur]) \in Nat
          BY <1>0, <3>1 DEF ReadChunk, TypeOK, QueueType
        <4>2. \/ got' = <<>>
              \/ got' = Append(got, Head(read_queue_[cur]))
          BY <3>1 DEF ReadChunk, Deliver, Respond
        <4>3. got \in Seq(Nat)
          BY DEF TypeOK, ServerType
        <4> QED BY <4>1, <4>2, <4>3, SeqType
      <3>2. CASE UNCHANGED got
        BY <3>2 DEF TypeOK, ServerType
      <3>3. CASE got' = <<>>
        BY <3>3, SeqType
      <3> QED BY <3>1, <3>2, <3>3, ServerWrites
    <2> USE DEF ServerStep, HttpRequest, Waiting, Handler, Server_onConnect,
         Server_onDisconnect, Server_onPost, Server_onPoll, ConnectSucceeds,
         ConnectFails, ConnectTimesOut, WaitAgain, ConnectSend,
         SetConnecting, WaitBegin, DisconnectReturns,
         Client_disconnect, Execute, AsyncSend, WriteProduce, ReadGone,
         ReadChecked, ReadEmpty, ReadChunk, ReadNoMemory
    <2>2. pc' \in {"idle", "send_connect", "connecting", "enter_wait", "wait",
                   "disconnect", "exec_disconnect", "write", "exec_write", "send",
                   "read", "consume"}
      BY DEF TypeOK, ServerType, Client_connect, Respond, Get, Deliver, server
    <2>3. cur' \in Client \cup {NoClient}
      BY DEF TypeOK, ServerType, Client_connect, Respond, Get, Deliver, server
    <2>4. signalled' \in BOOLEAN
      BY DEF TypeOK, ServerType, Client_connect, Respond, Get, Deliver, server
    <2> QED BY <2>1, <2>2, <2>3, <2>4 DEF ServerType
  <1>6. HistoryType'
    <2>1. created' \subseteq Client
      BY <1>0, ServerWrites
         DEF TypeOK, HistoryType, Server_onConnect, ClientStorage_create, Execute, history
    <2>2. opened' \subseteq Client
      BY <1>0, ServerWrites DEF TypeOK, HistoryType, ConnectSucceeds
    <2>3. timedout' \subseteq Client
      BY <1>0 DEF TypeOK, HistoryType, ServerStep, HttpRequest, Waiting, Handler, Server_onConnect,
         Server_onDisconnect, Server_onPost, Server_onPoll, ConnectSucceeds,
         ConnectFails, ConnectTimesOut, WaitAgain, ConnectSend,
         SetConnecting, WaitBegin, DisconnectReturns,
         Client_disconnect, Execute, AsyncSend, WriteProduce, ReadGone,
         ReadChecked, ReadEmpty, ReadChunk, ReadNoMemory, history
    <2>4. posted' \in [Client -> Nat]
      <3>1. posted \in [Client -> Nat]
        BY DEF TypeOK, HistoryType
      <3>2. CASE WriteProduce
        BY <1>0, <3>1, <3>2, UpdateType DEF WriteProduce
      <3> QED BY <3>1, <3>2, ServerWrites
    <2>5. delivered' \in [Client -> Seq(Nat)]
      <3>1. CASE ReadEmpty
        BY <1>0, <3>1 DEF ReadEmpty, Deliver, TypeOK, HistoryType, ServerType
      <3>2. CASE ReadChunk
        <4>1. Append(got, Head(read_queue_[cur])) \in Seq(Nat)
          BY <1>0, <3>2 DEF ReadChunk, TypeOK, QueueType, ServerType
        <4>2. CASE UNCHANGED delivered
          BY <4>2 DEF TypeOK, HistoryType
        <4>3. CASE Deliver(Append(got, Head(read_queue_[cur])))
          <5>1. delivered[cur] \o Append(got, Head(read_queue_[cur])) \in Seq(Nat)
            BY <1>0, <3>2, <4>1, ConcatProperties DEF TypeOK, HistoryType, ReadChunk
          <5> QED BY <1>0, <3>2, <4>3, <5>1 DEF Deliver, ReadChunk, TypeOK, HistoryType
        <4> QED BY <3>2, <4>2, <4>3 DEF ReadChunk
      <3> QED BY <3>1, <3>2, ServerWrites DEF TypeOK, HistoryType
    <2>6. lost' \subseteq Client
      BY <1>0, ServerWrites DEF TypeOK, HistoryType, ReadNoMemory
    <2> QED BY <2>1, <2>2, <2>3, <2>4, <2>5, <2>6, ServerWrites DEF TypeOK, HistoryType
  <1> QED BY <1>1, <1>2, <1>3, <1>4, <1>5, <1>6 DEF TypeOK

LEMMA TypeUv ==
    ASSUME TypeOK, HandlerClientLive, Callbacks, UvStep
    PROVE  TypeOK'
  <1>0. lpc \in {"write", "onconnect", "onread"} => busy \in Client
    BY AtWork
  <1>1. StorageType'
    BY UvWrites DEF TypeOK, StorageType, Loop_onDisconnect, ClientStorage_destroy
  <1>2. ClientType'
    BY <1>0 DEF TypeOK, ClientType, UvStep, Backend, LoopStep, TimerDue, Loop_onTimer, CloseCallback,
         Client_onConnect, OnConnectFails, Client_onRead, OnReadError,
         PollBegin, PollEnd, ClosingEnd, Loop_onAsync, DrainEnd, Dangling,
         Client__write, WriteUndecodable, WriteDone, ReadStart, ReadProduce,
         Client__connect, ConnectError, CloseRequested, WriteBegin,
         Loop_onDisconnect,
         ClientStorage_onTimer, Client__disconnect, client, States
  <1>3. QueueType'
    <2>1. read_queue_' \in [Client -> Seq(Nat)]
      <3>1. read_queue_ \in [Client -> Seq(Nat)]
        BY DEF TypeOK, QueueType
      <3>2. CASE ReadProduce
        <4>1. busy \in Client /\ read_queue_[busy] \in Seq(Nat) /\ received[busy] + 1 \in Nat
          BY <1>0, <3>1, <3>2 DEF ReadProduce, TypeOK, HistoryType
        <4>2. Append(read_queue_[busy], received[busy] + 1) \in Seq(Nat)
          BY <4>1, SeqType
        <4> QED BY <3>1, <3>2, <4>1, <4>2, UpdateType, ZenonT(30) DEF ReadProduce
      <3>3. ASSUME NEW c \in Client, Loop_onDisconnect(c)
            PROVE  read_queue_' \in [Client -> Seq(Nat)]
        <4>1. <<>> \in Seq(Nat)
          BY SeqType
        <4> QED BY <3>1, <3>3, <4>1, UpdateType DEF Loop_onDisconnect, ClientStorage_destroy
      <3> QED BY <3>1, <3>2, <3>3, UvWrites
    <2>2. write_queue_' \in [Client -> Seq(Nat)]
      <3>1. write_queue_ \in [Client -> Seq(Nat)]
        BY DEF TypeOK, QueueType
      <3>2. CASE Client__write \/ WriteUndecodable
        <4>1. /\ busy \in Client /\ write_queue_[busy] \in Seq(Nat) /\ write_queue_[busy] # <<>>
              /\ write_queue_' = [write_queue_ EXCEPT ![busy] = Tail(write_queue_[busy])]
          BY <1>0, <3>1, <3>2 DEF Client__write, WriteUndecodable
        <4>2. Tail(write_queue_[busy]) \in Seq(Nat)
          BY <4>1, SeqType
        <4> QED BY <3>1, <4>1, <4>2, UpdateType
      <3>3. ASSUME NEW c \in Client, Loop_onDisconnect(c)
            PROVE  write_queue_' \in [Client -> Seq(Nat)]
        <4>1. <<>> \in Seq(Nat)
          BY SeqType
        <4> QED BY <3>1, <3>3, <4>1, UpdateType DEF Loop_onDisconnect, ClientStorage_destroy
      <3> QED BY <3>1, <3>2, <3>3, UvWrites
    <2>3. request_queue_' \in Seq(Request)
      <3>1. request_queue_ \in Seq(Request)
        BY DEF TypeOK, QueueType
      <3> QED BY <3>1, SeqType, UvWrites
    <2>4. async_' \in BOOLEAN
      BY DEF TypeOK, QueueType, UvStep, Backend, LoopStep, TimerDue, Loop_onTimer, CloseCallback,
         Client_onConnect, OnConnectFails, Client_onRead, OnReadError,
         PollBegin, PollEnd, ClosingEnd, Loop_onAsync, DrainEnd, Dangling,
         Client__write, WriteUndecodable, WriteDone, ReadStart, ReadProduce,
         Client__connect, ConnectError, CloseRequested, WriteBegin,
         Loop_onDisconnect, Consume, loop
    <2> QED BY <2>1, <2>2, <2>3, <2>4 DEF QueueType
  <1>4. UvType'
    <2> USE DEF TypeOK, UvType, UvStep, Backend, LoopStep, TimerDue, Loop_onTimer, CloseCallback,
         Client_onConnect, OnConnectFails, Client_onRead, OnReadError,
         PollBegin, PollEnd, ClosingEnd, Loop_onAsync, DrainEnd, Dangling,
         Client__write, WriteUndecodable, WriteDone, ReadStart, ReadProduce,
         Client__connect, ConnectError, CloseRequested, WriteBegin,
         Loop_onDisconnect
    <2>1. connect_req' \subseteq Client
      BY DEF uv
    <2>2. reading' \subseteq Client
      BY <1>0 DEF ClientStorage_onTimer, Client__disconnect, uv
    <2>3. wake' \in BOOLEAN
      BY DEF QueueType, uv
    <2>4. lpc' \in {"timers", "ontimer", "prepare", "poll", "drain", "write",
                    "onconnect", "onread", "closing"}
      BY DEF WriteEnd, uv
    <2>5. busy' \in Client \cup {NoClient}
      BY DEF WriteEnd, uv
    <2> QED BY <2>1, <2>2, <2>3, <2>4, <2>5 DEF UvType
  <1>5. ServerType'
    <2>1. signalled' \in BOOLEAN
      BY DEF TypeOK, ServerType, Signal, server, UvStep, Backend, LoopStep, TimerDue, Loop_onTimer, CloseCallback,
         Client_onConnect, OnConnectFails, Client_onRead, OnReadError,
         PollBegin, PollEnd, ClosingEnd, Loop_onAsync, DrainEnd, Dangling,
         Client__write, WriteUndecodable, WriteDone, ReadStart, ReadProduce,
         Client__connect, ConnectError, CloseRequested, WriteBegin,
         Loop_onDisconnect
    <2> QED BY <2>1, UvWrites DEF TypeOK, ServerType
  <1>6. HistoryType'
    <2>1. received' \in [Client -> Nat]
      <3>1. received \in [Client -> Nat]
        BY DEF TypeOK, HistoryType
      <3>2. CASE ReadProduce
        BY <1>0, <3>1, <3>2, UpdateType DEF ReadProduce
      <3> QED BY <3>1, <3>2, UvWrites
    <2>2. forwarded' \in [Client -> Seq(Nat)]
      <3>1. forwarded \in [Client -> Seq(Nat)]
        BY DEF TypeOK, HistoryType
      <3>2. CASE Client__write /\ ~UNCHANGED forwarded
        <4>1. /\ busy \in Client /\ write_queue_[busy] \in Seq(Nat) /\ write_queue_[busy] # <<>>
              /\ forwarded[busy] \in Seq(Nat)
              /\ forwarded' = [forwarded EXCEPT ![busy] =
                                  Append(forwarded[busy], Head(write_queue_[busy]))]
          BY <1>0, <3>1, <3>2 DEF Client__write, TypeOK, QueueType
        <4>2. Append(forwarded[busy], Head(write_queue_[busy])) \in Seq(Nat)
          BY <4>1, SeqType
        <4> QED BY <3>1, <4>1, <4>2, UpdateType
      <3> QED BY <3>1, <3>2, UvWrites
    <2>3. fault' \in {"none", "double_close", "bad_handle", "use_after_free"}
      BY DEF TypeOK, HistoryType, ClientStorage_onTimer, Client__disconnect,
             UvStep, Backend, LoopStep, TimerDue, Loop_onTimer, CloseCallback,
         Client_onConnect, OnConnectFails, Client_onRead, OnReadError,
         PollBegin, PollEnd, ClosingEnd, Loop_onAsync, DrainEnd, Dangling,
         Client__write, WriteUndecodable, WriteDone, ReadStart, ReadProduce,
         Client__connect, ConnectError, CloseRequested, WriteBegin,
         Loop_onDisconnect
    <2>4. lost' \subseteq Client
      BY <1>0, UvWrites DEF TypeOK, HistoryType, ReadProduce
    <2>5. uninit' \subseteq Client
      BY UvWrites DEF TypeOK, HistoryType, ConnectError
    <2>6. victim' \subseteq Client
      <3>1. victim \subseteq Client /\ client_map_ \subseteq Client
        BY DEF TypeOK, HistoryType, StorageType
      <3>2. CASE Loop_onTimer
        BY <3>1, <3>2 DEF Loop_onTimer, ClientStorage_onTimer, Client__disconnect
      <3>3. ASSUME NEW c \in Client, CloseRequested(c) \/ OnReadError(c)
            PROVE  victim' \subseteq Client
        BY <3>1, <3>3 DEF CloseRequested, OnReadError, Client__disconnect
      <3>4. CASE Dangling
        BY <3>4 DEF Dangling
      <3> QED BY <3>1, <3>2, <3>3, <3>4, UvWrites
    <2> QED BY <2>1, <2>2, <2>3, <2>4, <2>5, <2>6, UvWrites DEF TypeOK, HistoryType
  <1> QED BY <1>1, <1>2, <1>3, <1>4, <1>5, <1>6 DEF TypeOK

-----------------------------------------------------------------------------
(* The lock, and the clients it protects. *)
LEMMA LockServer ==
    ASSUME TypeOK, Locking, HandlerClientLive, ServerStep
    PROVE  Locking' /\ HandlerClientLive'
  <1>1. Locking'
    BY DEF Locking, Client_connect, ClientStorage_create, Get, Respond, Deliver,
         storage, server, ServerStep, HttpRequest, Waiting, Handler, Server_onConnect,
         Server_onDisconnect, Server_onPost, Server_onPoll, ConnectSucceeds,
         ConnectFails, ConnectTimesOut, WaitAgain, ConnectSend,
         SetConnecting, WaitBegin, DisconnectReturns,
         Client_disconnect, Execute, AsyncSend, WriteProduce, ReadGone,
         ReadChecked, ReadEmpty, ReadChunk, ReadNoMemory
  <1>2. (pc # "idle" => cur \in client_map_)'
    <2>1. CASE HttpRequest
      <3>1. ASSUME NEW c \in Client, Server_onConnect(c)
            PROVE  (cur \in client_map_)'
        BY <3>1 DEF Server_onConnect, ClientStorage_create
      <3>2. ASSUME NEW c \in Client,
                   Server_onDisconnect(c) \/ Server_onPost(c) \/ Server_onPoll(c)
            PROVE  (cur \in client_map_)'
        BY <3>2 DEF Server_onDisconnect, Server_onPost, Server_onPoll, Get
      <3> QED BY <2>1, <3>1, <3>2 DEF HttpRequest
    <2>2. CASE Waiting
      BY <2>2 DEF HandlerClientLive, Waiting, ConnectSucceeds, ConnectFails,
                  ConnectTimesOut, WaitAgain, Respond, storage
    <2>3. CASE Handler
      <3> USE DEF Handler, ConnectSend, SetConnecting, WaitBegin,
                  DisconnectReturns, Client_disconnect, Execute, AsyncSend,
                  WriteProduce, ReadGone, ReadChecked, ReadEmpty, ReadChunk, ReadNoMemory
      <3>1. pc # "idle" /\ UNCHANGED client_map_
        BY <2>3 DEF storage
      <3>2. pc' = "idle" \/ UNCHANGED cur
        BY <2>3 DEF Deliver, Respond
      <3> QED BY <3>1, <3>2 DEF HandlerClientLive
    <2> QED BY <2>1, <2>2, <2>3 DEF ServerStep
  <1>3. client_map_ \subseteq client_map_'
    BY ServerWrites DEF Server_onConnect, ClientStorage_create, Execute, storage
  <1>4. (busy # NoClient => busy \in client_map_)'
    BY <1>3, ServerWrites DEF HandlerClientLive
  <1> QED BY <1>1, <1>2, <1>4 DEF HandlerClientLive

(* destroy() has the lock, so that no handler is running; and the libuv    *)
(* thread itself is between two callbacks.                                 *)
LEMMA LockUv ==
    ASSUME TypeOK, Locking, HandlerClientLive, SocketsBounded, Callbacks, UvStep
    PROVE  Locking' /\ HandlerClientLive'
  <1>1. Locking'
    BY UvWrites DEF Locking
  <1>2. (pc # "idle" => cur \in client_map_)'
    BY UvWrites DEF Locking, HandlerClientLive, Loop_onDisconnect
  <1>3. (busy # NoClient => busy \in client_map_)'
    <2>1. CASE CloseCallback
      BY <2>1 DEF CloseCallback, Loop_onDisconnect, Callbacks, uv
    <2>2. CASE ~CloseCallback
      <3>1. UNCHANGED client_map_
        BY <2>2, UvWrites DEF CloseCallback
      <3>2. busy' \in {busy, NoClient} \cup connect_req \cup reading \cup client_map_
        BY <2>2 DEF WriteEnd, uv, UvStep, Backend, LoopStep, TimerDue, Loop_onTimer, CloseCallback,
         Client_onConnect, OnConnectFails, Client_onRead, OnReadError,
         PollBegin, PollEnd, ClosingEnd, Loop_onAsync, DrainEnd, Dangling,
         Client__write, WriteUndecodable, WriteDone, ReadStart, ReadProduce,
         Client__connect, ConnectError, CloseRequested, WriteBegin,
         Loop_onDisconnect
      <3> QED BY <3>1, <3>2 DEF HandlerClientLive, SocketsBounded
    <2> QED BY <2>1, <2>2
  <1> QED BY <1>1, <1>2, <1>3 DEF HandlerClientLive

(* create() refuses at the limit, and nothing else inserts. *)
LEMMA SocketsServer ==
    ASSUME TypeOK, SocketsBounded, ServerStep
    PROVE  SocketsBounded'
  <1>1. CASE UNCHANGED client_map_
    BY <1>1, ServerWrites DEF SocketsBounded
  <1>2. ASSUME NEW c \in Client, Server_onConnect(c)
        PROVE  SocketsBounded'
    <2>1. Cardinality(client_map_) < max_clients_ /\ client_map_' = client_map_ \cup {c}
      BY <1>2 DEF Server_onConnect, ClientStorage_create
    <2>2. IsFiniteSet(client_map_) /\ Cardinality(client_map_) \in Nat
      BY FS_Subset, FS_CardinalityType DEF TypeOK, StorageType
    <2>3. Cardinality(client_map_') <= max_clients_
      <3>1. CASE c \in client_map_
        <4>1. client_map_' = client_map_
          BY <2>1, <3>1
        <4> QED BY <2>1, <2>2, <4>1
      <3>2. CASE c \notin client_map_
        <4>1. Cardinality(client_map_ \cup {c}) = Cardinality(client_map_) + 1
          BY <2>2, <3>2, FS_AddElement
        <4> QED BY <2>1, <2>2, <4>1
      <3> QED BY <3>1, <3>2
    <2> QED BY <2>1, <2>3, ServerWrites DEF SocketsBounded
  <1> QED BY <1>1, <1>2, ServerWrites DEF Execute, storage

LEMMA SocketsUv ==
    ASSUME TypeOK, HandlerClientLive, SocketsBounded, Callbacks, UvStep
    PROVE  SocketsBounded'
  <1>1. Cardinality(client_map_') <= max_clients_
    <2>1. client_map_' \subseteq client_map_
      BY UvWrites DEF Loop_onDisconnect, ClientStorage_destroy
    <2>2. IsFiniteSet(client_map_)
      BY FS_Subset DEF TypeOK, StorageType
    <2>3. /\ Cardinality(client_map_') <= Cardinality(client_map_)
          /\ Cardinality(client_map_') \in Nat /\ Cardinality(client_map_) \in Nat
      BY <2>1, <2>2, FS_Subset, FS_CardinalityType
    <2> QED BY <2>3 DEF SocketsBounded
  <1>2. (connect_req \cup reading \cup {c \in Client : handle_[c] = "init"}
            \subseteq client_map_)'
    BY DEF TypeOK, StorageType, ClientType, UvType, HandlerClientLive,
         SocketsBounded, Callbacks, uv, client, storage, WriteEnd,
         Client__disconnect, ClientStorage_onTimer, ClientStorage_destroy,
         Consume, UvStep, Backend, LoopStep, TimerDue, Loop_onTimer, CloseCallback,
         Client_onConnect, OnConnectFails, Client_onRead, OnReadError,
         PollBegin, PollEnd, ClosingEnd, Loop_onAsync, DrainEnd, Dangling,
         Client__write, WriteUndecodable, WriteDone, ReadStart, ReadProduce,
         Client__connect, ConnectError, CloseRequested, WriteBegin,
         Loop_onDisconnect
  <1> QED BY <1>1, <1>2 DEF SocketsBounded

LEMMA CallbacksUv ==
    ASSUME TypeOK, Callbacks, UvStep
    PROVE  Callbacks'
  <1>1. (busy # NoClient <=> lpc \in {"write", "onconnect", "onread"})'
    BY DEF Callbacks, uv, WriteEnd, UvStep, Backend, LoopStep, TimerDue, Loop_onTimer, CloseCallback,
         Client_onConnect, OnConnectFails, Client_onRead, OnReadError,
         PollBegin, PollEnd, ClosingEnd, Loop_onAsync, DrainEnd, Dangling,
         Client__write, WriteUndecodable, WriteDone, ReadStart, ReadProduce,
         Client__connect, ConnectError, CloseRequested, WriteBegin,
         Loop_onDisconnect
  <1>2. (lpc = "onconnect" => handle_[busy] = "init")'
    BY UvWrites DEF Client_onConnect
  <1>3. (\A c \in reading : handle_[c] = "init")'
    BY DEF TypeOK, ClientType, UvType, Callbacks, uv, client, WriteEnd,
         Client__disconnect, ClientStorage_onTimer, UvStep, Backend, LoopStep, TimerDue, Loop_onTimer, CloseCallback,
         Client_onConnect, OnConnectFails, Client_onRead, OnReadError,
         PollBegin, PollEnd, ClosingEnd, Loop_onAsync, DrainEnd, Dangling,
         Client__write, WriteUndecodable, WriteDone, ReadStart, ReadProduce,
         Client__connect, ConnectError, CloseRequested, WriteBegin,
         Loop_onDisconnect
  <1> QED BY <1>1, <1>2, <1>3 DEF Callbacks

LEMMA CallbacksServer ==
    ASSUME Callbacks, ServerStep PROVE Callbacks'
  BY ServerWrites DEF Callbacks

-----------------------------------------------------------------------------
(* Wake-ups. *)
LEMMA WakeupServer ==
    ASSUME TypeOK, NoLostWakeup, ServerStep PROVE NoLostWakeup'
  BY DEF TypeOK, QueueType, NoLostWakeup, loop, server, uv, Client_connect,
         Respond, Deliver, Get, ServerStep, HttpRequest, Waiting, Handler, Server_onConnect,
         Server_onDisconnect, Server_onPost, Server_onPoll, ConnectSucceeds,
         ConnectFails, ConnectTimesOut, WaitAgain, ConnectSend,
         SetConnecting, WaitBegin, DisconnectReturns,
         Client_disconnect, Execute, AsyncSend, WriteProduce, ReadGone,
         ReadChecked, ReadEmpty, ReadChunk, ReadNoMemory

LEMMA WakeupUv ==
    ASSUME TypeOK, NoLostWakeup, UvStep PROVE NoLostWakeup'
  BY DEF TypeOK, QueueType, UvType, NoLostWakeup, loop, server, uv, Consume,
         WriteEnd, UvStep, Backend, LoopStep, TimerDue, Loop_onTimer, CloseCallback,
         Client_onConnect, OnConnectFails, Client_onRead, OnReadError,
         PollBegin, PollEnd, ClosingEnd, Loop_onAsync, DrainEnd, Dangling,
         Client__write, WriteUndecodable, WriteDone, ReadStart, ReadProduce,
         Client__connect, ConnectError, CloseRequested, WriteBegin,
         Loop_onDisconnect

-----------------------------------------------------------------------------
(* Each client is connected once. *)

LEMMA AppendFacts ==
    ASSUME NEW S, NEW s \in Seq(S), NEW e \in S
    PROVE  /\ DOMAIN Append(s, e) = DOMAIN s \cup {Len(s) + 1}
           /\ Len(s) + 1 \notin DOMAIN s
           /\ \A i \in DOMAIN s : Append(s, e)[i] = s[i]
           /\ Append(s, e)[Len(s) + 1] = e
  <1>1. DOMAIN s = 1..Len(s) /\ Len(s) \in Nat
    OBVIOUS
  <1>2. DOMAIN Append(s, e) = 1..(Len(s) + 1)
    OBVIOUS
  <1> QED BY <1>1, <1>2

LEMMA TailFacts ==
    ASSUME NEW S, NEW s \in Seq(S), s # <<>>
    PROVE  /\ 1 \in DOMAIN s /\ s[1] = Head(s)
           /\ \A i \in DOMAIN Tail(s) : /\ i \in Nat /\ i + 1 \in DOMAIN s /\ i + 1 # 1
                                        /\ Tail(s)[i] = s[i + 1]
  <1>1. DOMAIN s = 1..Len(s) /\ Len(s) \in Nat /\ Len(s) > 0
    OBVIOUS
  <1>2. DOMAIN Tail(s) = 1..(Len(s) - 1)
    OBVIOUS
  <1> QED BY <1>1, <1>2

(* The requests that execute() queues. *)
LEMMA QueueServer ==
    ASSUME TypeOK, HandlerClientLive, ServerStep
    PROVE  \/ UNCHANGED <<request_queue_, client_map_, created>>
           \/ \E c \in Client : /\ Server_onConnect(c)
                                /\ request_queue_' = Append(request_queue_, request_t("CONNECT", c))
                                /\ request_t("CONNECT", c) \in Request
           \/ \E t \in {"DISCONNECT", "WRITE"} :
                 /\ UNCHANGED <<client_map_, created>>
                 /\ cur \in client_map_
                 /\ request_queue_' = Append(request_queue_, request_t(t, cur))
                 /\ request_t(t, cur) \in Request
  <1>1. \A t \in RequestType, c \in Client : request_t(t, c) \in Request
    BY DEF request_t, Request
  <1>2. ASSUME NEW c \in Client, Server_onConnect(c)
        PROVE  /\ request_queue_' = Append(request_queue_, request_t("CONNECT", c))
               /\ request_t("CONNECT", c) \in Request
    BY <1>1, <1>2 DEF Server_onConnect, Client_connect, RequestType
  <1>3. ASSUME NEW from, NEW t \in {"DISCONNECT", "WRITE"}, from # "idle", Execute(from, t)
        PROVE  /\ UNCHANGED <<client_map_, created>>
               /\ cur \in client_map_
               /\ request_queue_' = Append(request_queue_, request_t(t, cur))
               /\ request_t(t, cur) \in Request
    BY <1>1, <1>3 DEF Execute, storage, history, HandlerClientLive, TypeOK,
                      StorageType, RequestType
  <1>4. CASE Execute("exec_disconnect", "DISCONNECT")
    BY <1>3, <1>4
  <1>5. CASE Execute("exec_write", "WRITE")
    BY <1>3, <1>5
  <1> QED BY <1>2, <1>4, <1>5, ServerWrites

(* The FastCGI thread connects nobody by itself. *)
LEMMA StateServer ==
    ASSUME TypeOK, HandlerClientLive, ServerStep, NEW c \in Client
    PROVE  /\ state_'[c] = "CONNECTED" => state_[c] = "CONNECTED"
           /\ state_'[c] = "FAIL_CONNECT" => state_[c] = "FAIL_CONNECT"
           /\ c \in opened' => c \in opened \/ (state_[c] = "CONNECTED" /\ c \in client_map_)
  <1>0. pc # "idle" => cur \in Client
    BY DEF HandlerClientLive, TypeOK, StorageType
  <1>1. CASE UNCHANGED state_
    <2>1. CASE UNCHANGED opened
      BY <1>1, <2>1
    <2>2. CASE ConnectSucceeds
      BY <1>1, <2>2 DEF ConnectSucceeds, HandlerClientLive
    <2> QED BY <2>1, <2>2, ServerWrites
  <1>2. CASE Client_disconnect
    BY <1>0, <1>2 DEF Client_disconnect, history, TypeOK, ClientType
  <1>3. CASE SetConnecting
    BY <1>0, <1>3 DEF SetConnecting, history, TypeOK, ClientType
  <1> QED BY <1>1, <1>2, <1>3, ServerWrites

LEMMA CreatedServer ==
    ASSUME TypeOK, HandlerClientLive, Created, ServerStep
    PROVE  Created'
  <1>0. request_queue_ \in Seq(Request)
    BY DEF TypeOK, QueueType
  <1>1. created \subseteq created' /\ (client_map_ \subseteq created)'
    BY QueueServer DEF Server_onConnect, ClientStorage_create, Created
  <1>2. (opened \subseteq created)'
    BY <1>1, StateServer, ServerWrites DEF Created, ConnectSucceeds, HandlerClientLive
  <1>3. (\A c \in Client \ created : state_[c] = "DISCONNECTED")'
    <2>1. CASE UNCHANGED state_
      BY <1>1, <2>1 DEF Created
    <2>2. CASE Client_disconnect \/ SetConnecting
      BY <1>1, <2>2 DEF Client_disconnect, SetConnecting, Created, HandlerClientLive,
                        TypeOK, ClientType
    <2> QED BY <2>1, <2>2, ServerWrites
  <1>4. (\A i \in DOMAIN request_queue_ : request_queue_[i].client \in created)'
    <2>1. CASE UNCHANGED <<request_queue_, created>>
      BY <2>1 DEF Created
    <2>2. ASSUME NEW t, NEW c \in created', request_t(t, c) \in Request,
                 request_queue_' = Append(request_queue_, request_t(t, c))
          PROVE  (\A i \in DOMAIN request_queue_ : request_queue_[i].client \in created)'
      <3>1. request_t(t, c).client = c
        BY DEF request_t
      <3> QED BY <1>0, <1>1, <2>2, <3>1, AppendFacts DEF Created
    <2>3. ASSUME NEW c \in Client, Server_onConnect(c)
          PROVE  c \in created'
      BY <2>3 DEF Server_onConnect, ClientStorage_create
    <2>4. client_map_ \subseteq created'
      BY <1>1 DEF Created
    <2> QED BY <2>1, <2>2, <2>3, <2>4, QueueServer
  <1> QED BY <1>1, <1>2, <1>3, <1>4 DEF Created

LEMMA ConnectServer ==
    ASSUME TypeOK, HandlerClientLive, SocketsBounded, Created, ConnectQueued,
           ConnectPending, ServerStep
    PROVE  ConnectQueued' /\ ConnectPending'
  <1>0. request_queue_ \in Seq(Request)
    BY DEF TypeOK, QueueType
  <1>1. connect_req' = connect_req /\ connect_req \subseteq Client
        /\ connect_req \subseteq client_map_
    BY ServerWrites DEF TypeOK, UvType, SocketsBounded
  <1>2. ConnectPending'
    <2>1. (\A c \in connect_req : c \notin opened /\ state_[c] # "CONNECTED")'
      BY <1>1, StateServer DEF ConnectPending
    <2>2. opened' \subseteq Client
      BY ServerWrites DEF TypeOK, HistoryType, StorageType, ConnectSucceeds, HandlerClientLive
    <2>3. (\A c \in opened : state_[c] # "FAIL_CONNECT")'
      BY <2>2, StateServer DEF ConnectPending
    <2> QED BY <2>1, <2>3 DEF ConnectPending
  <1>3. ConnectQueued'
    <2> DEFINE Fresh(c) == c \notin connect_req' /\ c \notin opened' /\ state_'[c] # "CONNECTED"
    <2>1. ASSUME NEW i \in DOMAIN request_queue_, request_queue_[i].type = "CONNECT"
          PROVE  Fresh(request_queue_[i].client)
      <3>1. request_queue_[i] \in Request
        BY <1>0
      <3>2. request_queue_[i].client \in Client
        BY <3>1 DEF Request
      <3> QED BY <1>1, <2>1, <3>2, StateServer DEF ConnectQueued
    <2>2. CASE UNCHANGED request_queue_
      BY <2>1, <2>2 DEF ConnectQueued
    <2>3. ASSUME NEW t \in {"DISCONNECT", "WRITE"}, NEW c, request_t(t, c) \in Request,
                 request_queue_' = Append(request_queue_, request_t(t, c))
          PROVE  ConnectQueued'
      <3>1. request_t(t, c).type # "CONNECT"
        BY DEF request_t
      <3> QED BY <1>0, <2>1, <2>3, <3>1, AppendFacts DEF ConnectQueued
    <2>4. ASSUME NEW c \in Client, Server_onConnect(c), request_t("CONNECT", c) \in Request,
                 request_queue_' = Append(request_queue_, request_t("CONNECT", c))
          PROVE  ConnectQueued'
      <3>1. c \notin created /\ state_'[c] = state_[c] /\ opened' = opened
        BY <2>4 DEF Server_onConnect, ClientStorage_create, client
      <3>2. Fresh(c)
        BY <1>1, <3>1 DEF Created
      <3>3. request_t("CONNECT", c).client = c
        BY DEF request_t
      <3>4. \A i \in DOMAIN request_queue_ : request_queue_[i] # request_t("CONNECT", c)
        BY <3>1, <3>3 DEF Created
      <3> QED BY <1>0, <2>1, <2>4, <3>2, <3>3, <3>4, AppendFacts DEF ConnectQueued
    <2> QED BY <2>2, <2>3, <2>4, QueueServer
  <1> QED BY <1>2, <1>3

(* How the libuv thread changes a client's state. *)
LEMMA StateUv ==
    ASSUME TypeOK, SocketsBounded, UvStep, NEW c \in Client
    PROVE  /\ state_'[c] = "CONNECTED" => state_[c] = "CONNECTED" \/ Client_onConnect(c)
           /\ state_'[c] = "FAIL_CONNECT" =>
                 state_[c] = "FAIL_CONNECT" \/ c \in connect_req \/ ConnectError(c)
           /\ state_'[c] # state_[c] => c \in client_map_
  <1>1. CASE UNCHANGED state_
    BY <1>1
  <1>2. CASE Loop_onTimer
    BY <1>2 DEF Loop_onTimer, ClientStorage_onTimer
  <1>3. ASSUME NEW d \in Client,
               Client_onConnect(d) \/ OnConnectFails(d) \/ OnReadError(d) \/ ConnectError(d)
        PROVE  /\ state_'[c] = "CONNECTED" => state_[c] = "CONNECTED" \/ Client_onConnect(c)
               /\ state_'[c] = "FAIL_CONNECT" =>
                     state_[c] = "FAIL_CONNECT" \/ c \in connect_req \/ ConnectError(c)
               /\ state_'[c] # state_[c] => c \in client_map_
    <2>1. CASE c # d
      <3>1. state_'[c] = state_[c]
        BY <1>3, <2>1 DEF Client_onConnect, OnConnectFails, OnReadError, ConnectError,
                          TypeOK, ClientType
      <3> QED BY <3>1
    <2>2. CASE c = d
      <3>1. c \in client_map_
        BY <1>3, <2>2 DEF Client_onConnect, OnConnectFails, OnReadError, ConnectError,
                          SocketsBounded
      <3>2. CASE Client_onConnect(c)
        BY <3>1, <3>2 DEF Client_onConnect, TypeOK, ClientType
      <3>3. CASE OnConnectFails(c)
        BY <3>1, <3>3 DEF OnConnectFails, TypeOK, ClientType
      <3>4. CASE OnReadError(c)
        BY <3>1, <3>4 DEF OnReadError, TypeOK, ClientType
      <3>5. CASE ConnectError(c)
        BY <3>1, <3>5 DEF ConnectError, TypeOK, ClientType
      <3> QED BY <1>3, <2>2, <3>2, <3>3, <3>4, <3>5
    <2> QED BY <2>1, <2>2
  <1> QED BY <1>1, <1>2, <1>3, UvWrites

LEMMA CreatedUv ==
    ASSUME TypeOK, SocketsBounded, Created, UvStep
    PROVE  Created'
  <1>0. request_queue_ \in Seq(Request)
    BY DEF TypeOK, QueueType
  <1>1. created' = created /\ opened' = opened /\ client_map_' \subseteq client_map_
    BY UvWrites DEF Loop_onDisconnect, ClientStorage_destroy
  <1>2. (\A c \in Client \ created : state_[c] = "DISCONNECTED")'
    BY <1>1, StateUv DEF Created
  <1>3. (\A i \in DOMAIN request_queue_ : request_queue_[i].client \in created)'
    <2>1. CASE UNCHANGED request_queue_
      BY <1>1, <2>1 DEF Created
    <2>2. CASE request_queue_ # <<>> /\ request_queue_' = Tail(request_queue_)
      BY <1>0, <1>1, <2>2, TailFacts DEF Created
    <2> QED BY <2>1, <2>2, UvWrites
  <1> QED BY <1>1, <1>2, <1>3 DEF Created

(* What is known of the client of a CONNECT that is consumed. *)
LEMMA ConnectConsumed ==
    ASSUME TypeOK, ConnectQueued, NEW c \in Client, Consume("CONNECT", c)
    PROVE  /\ c \notin connect_req /\ c \notin opened /\ state_[c] # "CONNECTED"
           /\ \A i \in DOMAIN request_queue_' : request_queue_'[i] # request_t("CONNECT", c)
  <1>0. request_queue_ \in Seq(Request) /\ request_queue_ # <<>>
    BY DEF TypeOK, QueueType, Consume
  <1>1. 1 \in DOMAIN request_queue_ /\ request_queue_[1] = request_t("CONNECT", c)
    BY <1>0, TailFacts DEF Consume
  <1>2. request_t("CONNECT", c).type = "CONNECT" /\ request_t("CONNECT", c).client = c
    BY DEF request_t
  <1>3. request_queue_' = Tail(request_queue_)
    BY DEF Consume
  <1>4. \A j \in DOMAIN request_queue_ : request_queue_[j] = request_queue_[1] => 1 = j
    BY <1>1, <1>2 DEF ConnectQueued
  <1>5. ASSUME NEW i \in DOMAIN Tail(request_queue_)
        PROVE  Tail(request_queue_)[i] # request_t("CONNECT", c)
    BY <1>0, <1>1, <1>4, TailFacts
  <1> QED BY <1>1, <1>2, <1>3, <1>5 DEF ConnectQueued

LEMMA ConnectUv ==
    ASSUME TypeOK, SocketsBounded, Created, ConnectQueued, ConnectPending, UvStep
    PROVE  ConnectQueued' /\ ConnectPending'
  <1>0. request_queue_ \in Seq(Request)
    BY DEF TypeOK, QueueType
  <1>1. opened' = opened /\ opened \subseteq Client /\ connect_req \subseteq Client
    BY UvWrites DEF TypeOK, HistoryType, UvType
  <1>2. \A c \in connect_req' : c \in connect_req \/ Client__connect(c)
    BY UvWrites DEF Client_onConnect, OnConnectFails, Client__connect
  <1>3. ASSUME NEW c \in connect_req'
        PROVE  c \notin opened' /\ state_'[c] # "CONNECTED"
    <2>1. CASE c \in connect_req
      <3>1. ~Client_onConnect(c)
        BY <1>3 DEF Client_onConnect
      <3> QED BY <1>1, <2>1, <3>1, StateUv DEF ConnectPending
    <2>2. CASE Client__connect(c)
      <3>1. c \in Client
        BY <2>2 DEF Client__connect, TypeOK, StorageType
      <3>2. c \notin opened /\ state_[c] # "CONNECTED" /\ state_' = state_
        BY <2>2, <3>1, ConnectConsumed DEF Client__connect
      <3> QED BY <1>1, <3>2
    <2> QED BY <1>2, <1>3, <2>1, <2>2
  <1>4. ASSUME NEW c \in opened'
        PROVE  state_'[c] # "FAIL_CONNECT"
    <2>1. c \in Client /\ c \in opened
      BY <1>1, <1>4
    <2>2. ~ConnectError(c)
      BY <2>1, ConnectConsumed DEF ConnectError
    <2> QED BY <2>1, <2>2, StateUv DEF ConnectPending
  <1>5. ConnectPending'
    BY <1>3, <1>4 DEF ConnectPending
  <1>6. ASSUME NEW i \in DOMAIN request_queue_, request_queue_[i].type = "CONNECT",
               NEW k \in DOMAIN request_queue_', request_queue_'[k] = request_queue_[i]
        PROVE  LET c == request_queue_[i].client IN
               c \notin connect_req' /\ c \notin opened' /\ state_'[c] # "CONNECTED"
    <2> DEFINE c == request_queue_[i].client
    <2>1. request_queue_[i] \in Request
      BY <1>0
    <2>2. c \in Client /\ request_queue_[i] = request_t("CONNECT", c)
      BY <1>6, <2>1 DEF Request, request_t
    <2>3. c \notin connect_req /\ c \notin opened /\ state_[c] # "CONNECTED"
      BY <1>6 DEF ConnectQueued
    <2>4. ~Client__connect(c)
      BY <1>6, <2>2, ConnectConsumed DEF Client__connect
    <2>5. ~Client_onConnect(c)
      BY <2>3 DEF Client_onConnect
    <2> QED BY <1>1, <1>2, <2>2, <2>3, <2>4, <2>5, StateUv
  <1>7. ConnectQueued'
    <2>1. CASE UNCHANGED request_queue_
      BY <1>6, <2>1 DEF ConnectQueued
    <2>2. CASE request_queue_ # <<>> /\ request_queue_' = Tail(request_queue_)
      <3> SUFFICES ASSUME NEW i \in DOMAIN Tail(request_queue_),
                          Tail(request_queue_)[i].type = "CONNECT"
                   PROVE  LET c == Tail(request_queue_)[i].client IN
                          /\ \A j \in DOMAIN Tail(request_queue_) :
                                Tail(request_queue_)[j] = Tail(request_queue_)[i] => i = j
                          /\ c \notin connect_req' /\ c \notin opened' /\ state_'[c] # "CONNECTED"
        BY <2>2 DEF ConnectQueued
      <3>1. /\ i \in Nat /\ i + 1 \in DOMAIN request_queue_
            /\ Tail(request_queue_)[i] = request_queue_[i + 1]
        BY <1>0, <2>2, TailFacts
      <3>2. \A j \in DOMAIN Tail(request_queue_) :
               Tail(request_queue_)[j] = Tail(request_queue_)[i] => i = j
        <4> SUFFICES ASSUME NEW j \in DOMAIN Tail(request_queue_),
                            Tail(request_queue_)[j] = Tail(request_queue_)[i]
                     PROVE  i = j
          OBVIOUS
        <4>1. /\ j \in Nat /\ j + 1 \in DOMAIN request_queue_
              /\ Tail(request_queue_)[j] = request_queue_[j + 1]
          BY <1>0, <2>2, TailFacts
        <4>2. i + 1 = j + 1
          BY <3>1, <4>1 DEF ConnectQueued
        <4> QED BY <3>1, <4>1, <4>2
      <3> QED BY <1>6, <2>2, <3>1, <3>2
    <2> QED BY <2>1, <2>2, UvWrites
  <1> QED BY <1>5, <1>7

-----------------------------------------------------------------------------
(* The requests of one kind for one client, as the queue grows and shrinks. *)
LEMMA QueuedAppend ==
    ASSUME TypeOK, NEW r \in Request, request_queue_' = Append(request_queue_, r),
           NEW t, NEW c
    PROVE  /\ r # request_t(t, c) => Queued(t, c)' = Queued(t, c)
           /\ r = request_t(t, c) => Queued(t, c)' = Queued(t, c) \cup {Len(request_queue_) + 1}
           /\ \A i \in Queued(t, c) : i < Len(request_queue_) + 1
           /\ Queued(t, c) \subseteq Nat
  <1>0. request_queue_ \in Seq(Request)
    BY DEF TypeOK, QueueType
  <1>1. \A i \in DOMAIN request_queue_ : i \in Nat /\ i < Len(request_queue_) + 1
    BY <1>0
  <1>2. \A i \in Queued(t, c) : i \in Nat /\ i < Len(request_queue_) + 1
    BY <1>1 DEF Queued
  <1>3. /\ DOMAIN request_queue_' = DOMAIN request_queue_ \cup {Len(request_queue_) + 1}
        /\ \A i \in DOMAIN request_queue_ : request_queue_'[i] = request_queue_[i]
        /\ request_queue_'[Len(request_queue_) + 1] = r
    BY <1>0, AppendFacts
  <1> QED BY <1>2, <1>3 DEF Queued

LEMMA QueuedTail ==
    ASSUME TypeOK, request_queue_ # <<>>, request_queue_' = Tail(request_queue_),
           NEW t, NEW c
    PROVE  /\ \A i \in Queued(t, c)' : i \in Nat /\ i + 1 \in Queued(t, c) /\ i + 1 # 1
           /\ \A i \in Queued(t, c) : i \in Nat /\ (i # 1 => i - 1 \in Queued(t, c)')
           /\ 1 \in Queued(t, c) <=> Head(request_queue_) = request_t(t, c)
  <1>0. request_queue_ \in Seq(Request)
    BY DEF TypeOK, QueueType
  <1>1. \A i \in Queued(t, c)' : i \in Nat /\ i + 1 \in Queued(t, c) /\ i + 1 # 1
    BY <1>0, TailFacts DEF Queued
  <1>2. 1 \in Queued(t, c) <=> Head(request_queue_) = request_t(t, c)
    BY <1>0, TailFacts DEF Queued
  <1>3. DOMAIN request_queue_ = 1..Len(request_queue_) /\ Len(request_queue_) \in Nat
    BY <1>0
  <1>4. /\ DOMAIN Tail(request_queue_) = 1..(Len(request_queue_) - 1)
        /\ \A i \in 1..(Len(request_queue_) - 1) : Tail(request_queue_)[i] = request_queue_[i + 1]
    BY <1>0
  <1>5. ASSUME NEW i \in Queued(t, c), i # 1
        PROVE  i - 1 \in Queued(t, c)'
    <2>1. i \in 1..Len(request_queue_) /\ request_queue_[i] = request_t(t, c)
      BY <1>3, <1>5 DEF Queued
    <2>2. i - 1 \in 1..(Len(request_queue_) - 1) /\ (i - 1) + 1 = i
      BY <1>3, <1>5, <2>1
    <2>3. Tail(request_queue_)[i - 1] = request_t(t, c)
      BY <1>4, <2>1, <2>2
    <2> QED BY <1>4, <2>2, <2>3 DEF Queued
  <1>6. \A i \in Queued(t, c) : i \in Nat
    BY <1>3 DEF Queued
  <1> QED BY <1>1, <1>2, <1>5, <1>6

(* The request that execute() adds, and for whom. *)
Added(t, c) ==
    \/ t = "CONNECT" /\ Server_onConnect(c)
    \/ t = "DISCONNECT" /\ c = cur /\ Execute("exec_disconnect", "DISCONNECT")
    \/ t = "WRITE" /\ c = cur /\ Execute("exec_write", "WRITE")

LEMMA QueuedServer ==
    ASSUME TypeOK, HandlerClientLive, ServerStep, NEW t, NEW c
    PROVE  /\ \/ Queued(t, c)' = Queued(t, c)
              \/ Added(t, c) /\ Queued(t, c)' = Queued(t, c) \cup {Len(request_queue_) + 1}
           /\ \A i \in Queued(t, c) : i \in Nat /\ i < Len(request_queue_) + 1
           /\ Len(request_queue_) + 1 \in Nat
  <1>0. request_queue_ \in Seq(Request) /\ Len(request_queue_) + 1 \in Nat
    BY DEF TypeOK, QueueType
  <1>1. \A i \in Queued(t, c) : i \in Nat /\ i < Len(request_queue_) + 1
    BY <1>0 DEF Queued
  <1> DEFINE Grows == \/ Queued(t, c)' = Queued(t, c)
                      \/ Added(t, c) /\ Queued(t, c)' = Queued(t, c) \cup {Len(request_queue_) + 1}
  <1>2. UNCHANGED request_queue_ => Grows
    BY DEF Queued
  <1>3. ASSUME NEW r \in Request, request_queue_' = Append(request_queue_, r),
               r = request_t(t, c) => Added(t, c)
        PROVE  Grows
    BY <1>3, QueuedAppend
  <1>4. ASSUME NEW d \in Client, Server_onConnect(d)
        PROVE  Grows
    <2>1. request_t("CONNECT", d) = request_t(t, c) => Added(t, c)
      BY <1>4 DEF request_t, Added
    <2>2. request_t("CONNECT", d) \in Request
      BY DEF request_t, Request, RequestType
    <2>3. request_queue_' = Append(request_queue_, request_t("CONNECT", d))
      BY <1>4 DEF Server_onConnect, Client_connect
    <2> QED BY <1>3, <2>1, <2>2, <2>3
  <1>5. CASE Execute("exec_disconnect", "DISCONNECT")
    <2>1. PICK r \in Request : r = request_t("DISCONNECT", cur)
      BY <1>5 DEF request_t, Request, RequestType, Execute, HandlerClientLive, TypeOK, StorageType
    <2>2. r = request_t(t, c) => Added(t, c)
      BY <1>5, <2>1 DEF request_t, Added
    <2>3. request_queue_' = Append(request_queue_, r)
      BY <1>5, <2>1 DEF Execute
    <2> QED BY <1>0, <1>1, <1>3, <2>2, <2>3
  <1>6. CASE Execute("exec_write", "WRITE")
    <2>1. PICK r \in Request : r = request_t("WRITE", cur)
      BY <1>6 DEF request_t, Request, RequestType, Execute, HandlerClientLive, TypeOK, StorageType
    <2>2. r = request_t(t, c) => Added(t, c)
      BY <1>6, <2>1 DEF request_t, Added
    <2>3. request_queue_' = Append(request_queue_, r)
      BY <1>6, <2>1 DEF Execute
    <2> QED BY <1>0, <1>1, <1>3, <2>2, <2>3
  <1> QED BY <1>0, <1>1, <1>2, <1>4, <1>5, <1>6, ServerWrites

LEMMA TailDiffers ==
    ASSUME NEW S, NEW s \in Seq(S), s # <<>>
    PROVE  Tail(s) # s
  <1>1. PICK n \in Nat : n = Len(s) /\ Len(Tail(s)) = n - 1
    BY HeadTailProperties, LenProperties
  <1>2. n - 1 # n
    OBVIOUS
  <1> QED BY <1>1, <1>2

(* What is left of them when the libuv thread has consumed one. *)
Consumed(t, c) == request_queue_ # <<>> /\ Head(request_queue_) = request_t(t, c)
                  /\ request_queue_' = Tail(request_queue_)

LEMMA UvConsumes ==
    ASSUME UvStep
    PROVE  \/ UNCHANGED request_queue_
           \/ Dangling
           \/ \E c \in Client : \/ Client__connect(c) \/ ConnectError(c)
                                \/ CloseRequested(c) \/ WriteBegin(c)
  BY DEF loop, UvStep, Backend, LoopStep, TimerDue, Loop_onTimer, CloseCallback,
         Client_onConnect, OnConnectFails, Client_onRead, OnReadError,
         PollBegin, PollEnd, ClosingEnd, Loop_onAsync, DrainEnd,
         Client__write, WriteUndecodable, WriteDone, ReadStart, ReadProduce,
         Loop_onDisconnect

LEMMA QueuedUv ==
    ASSUME TypeOK, UvStep
    PROVE  \E n \in {0, 1} : \A t, c :
              /\ \A i \in Queued(t, c)' : i \in Nat /\ i + n \in Queued(t, c) /\ i + n > n
              /\ \A i \in Queued(t, c) : i \in Nat /\ i > 0 /\ (i > n => i - n \in Queued(t, c)')
              /\ Consumed(t, c) <=> n = 1 /\ 1 \in Queued(t, c)
  <1>0. request_queue_ \in Seq(Request)
    BY DEF TypeOK, QueueType
  <1>1. CASE UNCHANGED request_queue_
    <2>1. request_queue_ # <<>> => request_queue_ # Tail(request_queue_)
      BY <1>0, TailDiffers
    <2>2. ASSUME NEW t, NEW c
          PROVE  /\ Queued(t, c)' = Queued(t, c)
                 /\ \A i \in Queued(t, c) : i \in Nat /\ i > 0
                 /\ ~Consumed(t, c)
      BY <1>0, <1>1, <2>1 DEF Queued, Consumed
    <2> WITNESS 0 \in {0, 1}
    <2>3. ASSUME NEW t, NEW c
          PROVE  /\ \A i \in Queued(t, c)' : i \in Nat /\ i + 0 \in Queued(t, c) /\ i + 0 > 0
                 /\ \A i \in Queued(t, c) : i \in Nat /\ i > 0 /\ (i > 0 => i - 0 \in Queued(t, c)')
                 /\ Consumed(t, c) <=> 0 = 1 /\ 1 \in Queued(t, c)
      <3>1. \A i \in Queued(t, c) : i + 0 = i /\ i - 0 = i
        BY <2>2
      <3> QED BY <2>2, <3>1
    <2> QED BY <2>3
  <1>2. CASE request_queue_ # <<>> /\ request_queue_' = Tail(request_queue_)
    <2>1. ASSUME NEW t, NEW c
          PROVE  /\ \A i \in Queued(t, c)' : i \in Nat /\ i + 1 \in Queued(t, c) /\ i + 1 > 1
                 /\ \A i \in Queued(t, c) : i \in Nat /\ i > 0 /\ (i > 1 => i - 1 \in Queued(t, c)')
                 /\ Consumed(t, c) <=> 1 = 1 /\ 1 \in Queued(t, c)
      <3>1. \A i \in Queued(t, c) : i \in Nat /\ i > 0
        BY <1>0 DEF Queued
      <3>2. \A i \in Queued(t, c)' : i \in Nat /\ i + 1 \in Queued(t, c) /\ i + 1 > 1
        BY <1>2, <3>1, QueuedTail
      <3>3. \A i \in Queued(t, c) : i > 1 => i - 1 \in Queued(t, c)'
        BY <1>2, <3>1, QueuedTail
      <3>4. Consumed(t, c) <=> 1 \in Queued(t, c)
        BY <1>2, QueuedTail DEF Consumed
      <3> QED BY <3>1, <3>2, <3>3, <3>4
    <2> QED BY <2>1
  <1> QED BY <1>1, <1>2, UvWrites

LEMMA ConsumedBy ==
    ASSUME TypeOK, UvStep, NEW c \in Client
    PROVE  /\ Consumed("CONNECT", c) => c \notin client_map_ \/ Client__connect(c) \/ ConnectError(c)
           /\ Consumed("DISCONNECT", c) => c \notin client_map_ \/ CloseRequested(c)
           /\ Consumed("WRITE", c) => c \notin client_map_ \/ WriteBegin(c)
           /\ Client__connect(c) \/ ConnectError(c) => Consumed("CONNECT", c)
           /\ CloseRequested(c) => Consumed("DISCONNECT", c)
           /\ WriteBegin(c) => Consumed("WRITE", c)
  <1>1. \A t, u, d : request_t(t, c) = request_t(u, d) => t = u /\ c = d
    BY DEF request_t
  <1>2. \A t, u, d : Consume(t, d) /\ Consumed(u, c) => t = u /\ c = d
    BY <1>1 DEF Consume, Consumed
  <1>3. \A t : Consume(t, c) => Consumed(t, c)
    BY DEF Consume, Consumed
  <1>4. CASE UNCHANGED request_queue_
    <2>1. \A t : ~Consumed(t, c)
      BY <1>4, TailDiffers DEF Consumed, TypeOK, QueueType
    <2> QED BY <1>3, <2>1 DEF Client__connect, ConnectError, CloseRequested, WriteBegin
  <1>5. CASE Dangling
    <2>1. \A t : Consumed(t, c) => c \notin client_map_
      BY <1>2, <1>5 DEF Dangling
    <2> QED BY <1>3, <2>1 DEF Client__connect, ConnectError, CloseRequested, WriteBegin
  <1>6. ASSUME NEW d \in Client, Client__connect(d) \/ ConnectError(d)
        PROVE  \A t : Consumed(t, c) => t = "CONNECT" /\ d = c
    BY <1>2, <1>6 DEF Client__connect, ConnectError
  <1>7. ASSUME NEW d \in Client, CloseRequested(d)
        PROVE  \A t : Consumed(t, c) => t = "DISCONNECT" /\ d = c
    BY <1>2, <1>7 DEF CloseRequested
  <1>8. ASSUME NEW d \in Client, WriteBegin(d)
        PROVE  \A t : Consumed(t, c) => t = "WRITE" /\ d = c
    BY <1>2, <1>8 DEF WriteBegin
  <1>9. /\ Client__connect(c) \/ ConnectError(c) => Consumed("CONNECT", c)
        /\ CloseRequested(c) => Consumed("DISCONNECT", c)
        /\ WriteBegin(c) => Consumed("WRITE", c)
    BY <1>3 DEF Client__connect, ConnectError, CloseRequested, WriteBegin
  <1> QED BY <1>4, <1>5, <1>6, <1>7, <1>8, <1>9, UvConsumes

-----------------------------------------------------------------------------
(* What one step does to the state and the handle of one client. *)
Gone == {"FAIL_CONNECT", "DISCONNECTING"}

(* onTimer closes c: its state was one of these. *)
TimerCloses(c) ==
    /\ Loop_onTimer
    /\ c \in client_map_
    /\ state_[c] \in {"CONNECTED", "CONNECTING", "FAIL_CONNECT"}
    /\ state_'[c] = "DISCONNECTING"
    /\ handle_'[c] = "closing"

LEMMA TimerOn ==
    ASSUME TypeOK, Loop_onTimer, NEW c \in Client
    PROVE  TimerCloses(c) \/ (state_'[c] = state_[c] /\ handle_'[c] = handle_[c])
  BY DEF Loop_onTimer, ClientStorage_onTimer, Client_onTimer, Client__disconnect,
         TimerCloses

LEMMA HandleUv ==
    ASSUME TypeOK, UvStep, NEW c \in Client
    PROVE  \/ handle_'[c] = handle_[c]
           \/ handle_'[c] = "init" /\ (Client__connect(c) \/ ConnectError(c))
           \/ handle_'[c] = "closing" /\ (CloseRequested(c) \/ OnReadError(c) \/ TimerCloses(c))
  <1>1. CASE UNCHANGED handle_
    BY <1>1
  <1>2. CASE Loop_onTimer
    BY <1>2, TimerOn DEF TimerCloses
  <1>3. ASSUME NEW d \in Client, Client__connect(d) \/ ConnectError(d)
        PROVE  \/ handle_'[c] = handle_[c]
               \/ handle_'[c] = "init" /\ (Client__connect(c) \/ ConnectError(c))
    BY <1>3 DEF Client__connect, ConnectError, TypeOK, ClientType
  <1>4. ASSUME NEW d \in Client, CloseRequested(d) \/ OnReadError(d)
        PROVE  \/ handle_'[c] = handle_[c]
               \/ handle_'[c] = "closing" /\ (CloseRequested(c) \/ OnReadError(c))
    BY <1>4 DEF CloseRequested, OnReadError, Client__disconnect, TypeOK, ClientType
  <1>5. \/ UNCHANGED handle_
        \/ Loop_onTimer
        \/ \E d \in Client : \/ Client__connect(d) \/ ConnectError(d)
                             \/ CloseRequested(d) \/ OnReadError(d)
    BY DEF client, UvStep, Backend, LoopStep, TimerDue, CloseCallback,
         Client_onConnect, OnConnectFails, Client_onRead,
         PollBegin, PollEnd, ClosingEnd, Loop_onAsync, DrainEnd, Dangling,
         Client__write, WriteUndecodable, WriteDone, ReadStart, ReadProduce,
         WriteBegin, Loop_onDisconnect
  <1> QED BY <1>1, <1>2, <1>3, <1>4, <1>5

LEMMA StateUvBy ==
    ASSUME TypeOK, UvStep, NEW c \in Client
    PROVE  \/ state_'[c] = state_[c]
           \/ state_'[c] = "CONNECTED" /\ Client_onConnect(c)
           \/ state_'[c] = "FAIL_CONNECT" /\ (OnConnectFails(c) \/ ConnectError(c))
           \/ state_'[c] = "DISCONNECTING" /\ (OnReadError(c) \/ TimerCloses(c))
  <1>1. CASE UNCHANGED state_
    BY <1>1
  <1>2. CASE Loop_onTimer
    BY <1>2, TimerOn DEF TimerCloses
  <1>3. ASSUME NEW d \in Client, Client_onConnect(d)
        PROVE  state_'[c] = state_[c] \/ (state_'[c] = "CONNECTED" /\ Client_onConnect(c))
    BY <1>3 DEF Client_onConnect, TypeOK, ClientType
  <1>4. ASSUME NEW d \in Client, OnConnectFails(d) \/ ConnectError(d)
        PROVE  \/ state_'[c] = state_[c]
               \/ state_'[c] = "FAIL_CONNECT" /\ (OnConnectFails(c) \/ ConnectError(c))
    BY <1>4 DEF OnConnectFails, ConnectError, TypeOK, ClientType
  <1>5. ASSUME NEW d \in Client, OnReadError(d)
        PROVE  state_'[c] = state_[c] \/ (state_'[c] = "DISCONNECTING" /\ OnReadError(c))
    BY <1>5 DEF OnReadError, TypeOK, ClientType
  <1> QED BY <1>1, <1>2, <1>3, <1>4, <1>5, UvWrites

LEMMA StateServerBy ==
    ASSUME TypeOK, HandlerClientLive, Attempt, ServerStep, NEW c \in Client
    PROVE  \/ state_'[c] = state_[c]
           \/ /\ state_'[c] = "CONNECTING" /\ SetConnecting /\ cur = c
              /\ state_[c] = "DISCONNECTED"
           \/ /\ state_'[c] = "DISCONNECTING" /\ Client_disconnect /\ cur = c
              /\ state_[c] \in {"CONNECTING", "CONNECTED"}
  <1>1. CASE UNCHANGED state_
    BY <1>1
  <1>2. CASE Client_disconnect
    BY <1>2, AtWork DEF Client_disconnect, TypeOK, ClientType, States
  <1>3. CASE SetConnecting
    BY <1>3, AtWork DEF SetConnecting, Attempt, TypeOK, ClientType
  <1> QED BY <1>1, <1>2, <1>3, ServerWrites

-----------------------------------------------------------------------------
(* connect(): until it waits nobody gets at its client, and what happens   *)
(* then is signalled.                                                      *)
LEMMA ConnectSteps ==
    ASSUME ServerStep
    PROVE  /\ pc' = "send_connect" => \E c \in Client : Server_onConnect(c)
           /\ pc' = "connecting" => ConnectSend
           /\ pc' = "enter_wait" => SetConnecting
           /\ pc' = "wait" => WaitBegin \/ WaitAgain
  BY DEF ServerStep, HttpRequest, Waiting, Handler, Server_onConnect,
         Server_onDisconnect, Server_onPost, Server_onPoll, ConnectSucceeds,
         ConnectFails, ConnectTimesOut, WaitAgain, ConnectSend,
         SetConnecting, WaitBegin, DisconnectReturns,
         Client_disconnect, Execute, AsyncSend, WriteProduce, ReadGone,
         ReadChecked, ReadEmpty, ReadChunk, ReadNoMemory,
         Client_connect, Get, Respond, Deliver, server

LEMMA AttemptServer ==
    ASSUME TypeOK, HandlerClientLive, Created, Attempt, ServerStep
    PROVE  Attempt'
  <1>1. ASSUME NEW c \in Client, Server_onConnect(c)
        PROVE  Attempt'
    <2>1. /\ cur' = c /\ pc' = "send_connect" /\ state_' = state_ /\ c \notin created
          /\ request_queue_' = Append(request_queue_, request_t("CONNECT", c))
      BY <1>1 DEF Server_onConnect, ClientStorage_create, Client_connect, client
    <2>2. request_t("CONNECT", c) \in Request
      BY DEF request_t, Request, RequestType
    <2>3. Queued("CONNECT", c)' # {}
      BY <2>1, <2>2, QueuedAppend
    <2> QED BY <2>1, <2>3 DEF Attempt, Locked, Created, Queued
  <1>2. CASE ConnectSend
    <2>1. UNCHANGED <<cur, state_, request_queue_>> /\ pc = "send_connect" /\ pc' = "connecting"
      BY <1>2 DEF ConnectSend, client
    <2> QED BY <2>1 DEF Attempt, Locked, Queued
  <1>3. CASE SetConnecting
    <2>1. /\ UNCHANGED <<cur, request_queue_>> /\ pc = "connecting" /\ pc' = "enter_wait"
          /\ state_'[cur] = "CONNECTING"
      BY <1>3 DEF SetConnecting, loop, HandlerClientLive, TypeOK, StorageType, ClientType
    <2> QED BY <2>1 DEF Attempt, Locked, Queued
  <1>4. CASE pc' \notin {"send_connect", "connecting", "enter_wait"}
    BY <1>4 DEF Attempt, Locked
  <1> QED BY <1>1, <1>2, <1>3, <1>4, ConnectSteps

LEMMA AttemptUv ==
    ASSUME TypeOK, Locking, HandlerClientLive, Attempt, UvStep
    PROVE  Attempt'
  <1>0. UNCHANGED <<pc, cur>>
    BY UvWrites
  <1> SUFFICES ASSUME pc \in {"send_connect", "connecting", "enter_wait"}
               PROVE  Queued("CONNECT", cur)' # {} /\ state_'[cur] = state_[cur]
    BY <1>0 DEF Attempt, Locked, Queued
  <1>1. cur \in client_map_ /\ cur \in Client /\ Locked(cur) /\ lock_ # "none"
    BY DEF HandlerClientLive, Locking, Locked, TypeOK, StorageType
  <1>2. ~Client__connect(cur) /\ ~ConnectError(cur)
    BY <1>1 DEF Client__connect, ConnectError
  <1>3. ~Consumed("CONNECT", cur)
    BY <1>1, <1>2, ConsumedBy
  <1>4. PICK i \in Queued("CONNECT", cur) : TRUE
    BY <1>1 DEF Attempt
  <1>5. Queued("CONNECT", cur)' # {}
    BY <1>0, <1>3, <1>4, QueuedUv
  <1>6. ~TimerCloses(cur)
    BY <1>1 DEF TimerCloses, Loop_onTimer
  <1>7. ~Client_onConnect(cur) /\ ~OnConnectFails(cur) /\ ~OnReadError(cur)
    BY <1>1 DEF Client_onConnect, OnConnectFails, OnReadError
  <1> QED BY <1>1, <1>2, <1>5, <1>6, <1>7, StateUvBy

LEMMA SignalServer ==
    ASSUME Attempt, NoLostSignal, ServerStep
    PROVE  NoLostSignal'
  <1>1. CASE WaitBegin
    <2>1. UNCHANGED <<cur, state_, request_queue_>> /\ pc = "enter_wait"
      BY <1>1 DEF WaitBegin, client, loop
    <2> QED BY <2>1 DEF Attempt, Locked, NoLostSignal, Queued
  <1>2. CASE WaitAgain
    <2>1. /\ UNCHANGED <<cur, state_, request_queue_, connect_req>> /\ pc = "wait"
          /\ state_[cur] \notin {"CONNECTED", "FAIL_CONNECT"}
      BY <1>2 DEF WaitAgain, client, loop, uv
    <2> QED BY <2>1 DEF NoLostSignal, Queued
  <1>3. CASE pc' # "wait"
    BY <1>3 DEF NoLostSignal
  <1> QED BY <1>1, <1>2, <1>3, ConnectSteps

LEMMA SignalUv ==
    ASSUME TypeOK, HandlerClientLive, NoLostSignal, UvStep
    PROVE  NoLostSignal'
  <1>0. UNCHANGED <<pc, cur>>
    BY UvWrites
  <1> SUFFICES ASSUME pc = "wait"
               PROVE  /\ state_'[cur] = "CONNECTING" =>
                            Queued("CONNECT", cur)' # {} \/ cur \in connect_req'
                      /\ state_'[cur] \in {"CONNECTED", "FAIL_CONNECT"} => signalled'
    BY <1>0 DEF NoLostSignal, Queued
  <1>1. cur \in client_map_ /\ cur \in Client
    BY DEF HandlerClientLive, TypeOK, StorageType
  <1>2. signalled => signalled'
    BY DEF TypeOK, ServerType, Signal, server, UvStep, Backend, LoopStep, TimerDue, Loop_onTimer, CloseCallback,
         Client_onConnect, OnConnectFails, Client_onRead, OnReadError,
         PollBegin, PollEnd, ClosingEnd, Loop_onAsync, DrainEnd, Dangling,
         Client__write, WriteUndecodable, WriteDone, ReadStart, ReadProduce,
         Client__connect, ConnectError, CloseRequested, WriteBegin,
         Loop_onDisconnect
  <1>3. ASSUME state_'[cur] \in {"CONNECTED", "FAIL_CONNECT"}
        PROVE  signalled'
    <2>1. CASE state_'[cur] = state_[cur]
      BY <1>2, <1>3, <2>1 DEF NoLostSignal
    <2>2. CASE Client_onConnect(cur) \/ OnConnectFails(cur) \/ ConnectError(cur)
      BY <2>2 DEF Client_onConnect, OnConnectFails, ConnectError, Signal
    <2> QED BY <1>1, <1>3, <2>1, <2>2, StateUvBy
  <1>4. ASSUME state_'[cur] = "CONNECTING"
        PROVE  Queued("CONNECT", cur)' # {} \/ cur \in connect_req'
    <2>1. state_[cur] = "CONNECTING"
      BY <1>1, <1>4, StateUvBy
    <2>2. ~ConnectError(cur) /\ ~Client_onConnect(cur) /\ ~OnConnectFails(cur)
      BY <1>1, <1>4 DEF ConnectError, Client_onConnect, OnConnectFails, TypeOK, ClientType
    <2>3. CASE cur \in connect_req
      <3>1. \A c \in Client : Client_onConnect(c) \/ OnConnectFails(c) =>
               connect_req' = connect_req \ {c}
        BY DEF Client_onConnect, OnConnectFails
      <3>2. \A c \in Client : Client__connect(c) => connect_req \subseteq connect_req'
        BY DEF Client__connect
      <3> QED BY <2>2, <2>3, <3>1, <3>2, UvWrites
    <2>4. CASE Client__connect(cur)
      BY <2>4 DEF Client__connect
    <2>5. CASE Queued("CONNECT", cur) # {} /\ ~Client__connect(cur)
      <3>1. PICK i \in Queued("CONNECT", cur) : TRUE
        BY <2>5
      <3>2. ~Consumed("CONNECT", cur)
        BY <1>1, <2>2, <2>5, ConsumedBy
      <3> QED BY <1>0, <3>1, <3>2, QueuedUv
    <2> QED BY <2>1, <2>3, <2>4, <2>5 DEF NoLostSignal
  <1> QED BY <1>3, <1>4

-----------------------------------------------------------------------------
LEMMA CoreInit == Init => CoreInv
  <1> SUFFICES ASSUME Init PROVE CoreInv
    OBVIOUS
  <1>1. TypeOK
    BY TypeInit
  <1>2. Locking /\ HandlerClientLive /\ Callbacks /\ Attempt /\ NoLostSignal
    BY DEF Init, Locking, HandlerClientLive, Callbacks, Attempt, Locked, NoLostSignal
  <1>3. SocketsBounded
    <2>1. Cardinality(client_map_) <= max_clients_
      BY FS_EmptySet DEF Init
    <2> QED BY <2>1 DEF Init, SocketsBounded
  <1>4. NoLostWakeup
    BY DEF Init, NoLostWakeup
  <1>5. DOMAIN request_queue_ = {}
    BY DEF Init
  <1>6. Created /\ ConnectQueued /\ ConnectPending
    BY <1>5 DEF Init, Created, ConnectQueued, ConnectPending
  <1> QED BY <1>1, <1>2, <1>3, <1>4, <1>6 DEF CoreInv

LEMMA CoreNext == CoreInv /\ [Next]_vars => CoreInv'
  <1> SUFFICES ASSUME CoreInv, [Next]_vars PROVE CoreInv'
    OBVIOUS
  <1>0. /\ TypeOK /\ Locking /\ HandlerClientLive /\ SocketsBounded /\ Callbacks
        /\ NoLostWakeup /\ Attempt /\ NoLostSignal /\ Created /\ ConnectQueued
        /\ ConnectPending
    BY DEF CoreInv
  <1>1. CASE ServerStep
    <2>1. TypeOK' /\ Locking' /\ HandlerClientLive' /\ SocketsBounded' /\ Callbacks'
      BY <1>0, <1>1, TypeServer, LockServer, SocketsServer, CallbacksServer
    <2>2. NoLostWakeup' /\ Attempt' /\ NoLostSignal'
      BY <1>0, <1>1, WakeupServer, AttemptServer, SignalServer
    <2>3. Created' /\ ConnectQueued' /\ ConnectPending'
      BY <1>0, <1>1, CreatedServer, ConnectServer
    <2> QED BY <2>1, <2>2, <2>3 DEF CoreInv
  <1>2. CASE UvStep
    <2>1. TypeOK' /\ Locking' /\ HandlerClientLive' /\ SocketsBounded' /\ Callbacks'
      BY <1>0, <1>2, TypeUv, LockUv, SocketsUv, CallbacksUv
    <2>2. NoLostWakeup' /\ Attempt' /\ NoLostSignal'
      BY <1>0, <1>2, WakeupUv, AttemptUv, SignalUv
    <2>3. Created' /\ ConnectQueued' /\ ConnectPending'
      BY <1>0, <1>2, CreatedUv, ConnectUv
    <2> QED BY <2>1, <2>2, <2>3 DEF CoreInv
  <1>3. CASE UNCHANGED vars
    <2> USE <1>0, <1>3 DEF vars, storage, client, loop, uv, server, history
    <2>1. StorageType' /\ ClientType'
      BY DEF TypeOK, StorageType, ClientType
    <2>2. QueueType' /\ UvType'
      BY DEF TypeOK, QueueType, UvType
    <2>3. ServerType' /\ HistoryType'
      BY DEF TypeOK, ServerType, HistoryType
    <2>4. Locking' /\ HandlerClientLive' /\ SocketsBounded' /\ Callbacks'
      BY DEF Locking, HandlerClientLive, SocketsBounded, Callbacks
    <2>5. NoLostWakeup' /\ Attempt' /\ NoLostSignal'
      BY DEF NoLostWakeup, Attempt, Locked, NoLostSignal, Queued
    <2>6. Created' /\ ConnectQueued' /\ ConnectPending'
      BY DEF Created, ConnectQueued, ConnectPending
    <2> QED BY <2>1, <2>2, <2>3, <2>4, <2>5, <2>6 DEF CoreInv, TypeOK
  <1> QED BY <1>1, <1>2, <1>3, NextSplit

(* The lock, the clients in use and the progress of each connection, in    *)
(* every reachable state.                                                  *)
THEOREM CoreInvariant == Spec => []CoreInv
  BY CoreInit, CoreNext, PTL DEF Spec

(* No variable leaves its type. *)
THEOREM TypeCorrect == Spec => []TypeOK
  <1>1. CoreInv => TypeOK
    BY DEF CoreInv
  <1> QED BY <1>1, CoreInvariant, PTL

(* Neither thread works on a Client that destroy() has deleted. *)
THEOREM HandlersSafe == Spec => []HandlerClientLive
  <1>1. CoreInv => HandlerClientLive
    BY DEF CoreInv
  <1> QED BY <1>1, CoreInvariant, PTL

(* Open, connecting and read sockets number at most max_clients_. *)
THEOREM SocketsWithinLimit == Spec => []SocketsBounded
  <1>1. CoreInv => SocketsBounded
    BY DEF CoreInv
  <1> QED BY <1>1, CoreInvariant, PTL

(* Coalesced wake-ups leave no request behind. *)
THEOREM WakeupsSuffice == Spec => []NoLostWakeup
  <1>1. CoreInv => NoLostWakeup
    BY DEF CoreInv
  <1> QED BY <1>1, CoreInvariant, PTL

(* connect() wakes the libuv thread before it sets CONNECTING and waits:   *)
(* its lock keeps the outcome back until then, so that it is neither       *)
(* overwritten nor signalled to nobody.                                    *)
THEOREM SignalsArrive == Spec => []NoLostSignal
  <1>1. CoreInv => NoLostSignal
    BY DEF CoreInv
  <1> QED BY <1>1, CoreInvariant, PTL

-----------------------------------------------------------------------------
StaysDown(c) ==
    /\ state_[c] \in {"FAIL_CONNECT", "DISCONNECTING"}
          => state_'[c] \in {"FAIL_CONNECT", "DISCONNECTING"}
    /\ c \in opened => state_'[c] # "FAIL_CONNECT"

LEMMA DownServer ==
    ASSUME CoreInv, ServerStep, NEW c \in Client
    PROVE  StaysDown(c)
  <1>0. TypeOK /\ HandlerClientLive /\ Attempt /\ ConnectPending
    BY DEF CoreInv
  <1>1. c \in opened => state_'[c] # "FAIL_CONNECT"
    BY <1>0, StateServer DEF ConnectPending
  <1>2. CASE UNCHANGED state_
    BY <1>1, <1>2 DEF StaysDown
  <1>3. CASE Client_disconnect
    <2>1. cur \in Client
      BY <1>0, <1>3 DEF Client_disconnect, HandlerClientLive, TypeOK, StorageType
    <2> QED BY <1>0, <1>1, <1>3, <2>1 DEF Client_disconnect, StaysDown, TypeOK, ClientType
  <1>4. CASE SetConnecting
    <2>1. state_[cur] = "DISCONNECTED" /\ state_' = [state_ EXCEPT ![cur] = "CONNECTING"]
      BY <1>0, <1>4 DEF SetConnecting, Attempt
    <2> QED BY <1>0, <1>1, <2>1 DEF StaysDown, TypeOK, ClientType
  <1> QED BY <1>2, <1>3, <1>4, ServerWrites

LEMMA DownUv ==
    ASSUME CoreInv, UvStep, NEW c \in Client
    PROVE  StaysDown(c)
  <1>0. TypeOK /\ SocketsBounded /\ Created /\ ConnectQueued /\ ConnectPending
    BY DEF CoreInv
  <1>1. c \in opened => state_'[c] # "FAIL_CONNECT"
    <2>1. opened' = opened /\ ConnectPending'
      BY <1>0, UvWrites, ConnectUv
    <2> QED BY <2>1 DEF ConnectPending
  <1>2. CASE UNCHANGED state_
    BY <1>1, <1>2 DEF StaysDown
  <1>3. CASE Loop_onTimer
    BY <1>1, <1>3 DEF Loop_onTimer, ClientStorage_onTimer, StaysDown
  <1>4. ASSUME NEW d \in Client,
               Client_onConnect(d) \/ OnConnectFails(d) \/ OnReadError(d) \/ ConnectError(d)
        PROVE  StaysDown(c)
    BY <1>0, <1>1, <1>4 DEF Client_onConnect, OnConnectFails, OnReadError, ConnectError,
                            StaysDown, TypeOK, ClientType
  <1> QED BY <1>2, <1>3, <1>4, UvWrites

(* A session that failed or is being closed stays so, whatever the backend *)
(* answers and however late; an established one never fails to connect.    *)
THEOREM StateOneWay == Spec => NoResurrection
  <1>1. CoreInv /\ [Next]_vars => [\A c \in Client :
            /\ state_[c] \in {"FAIL_CONNECT", "DISCONNECTING"}
                  => state_'[c] \in {"FAIL_CONNECT", "DISCONNECTING"}
            /\ c \in opened => state_'[c] # "FAIL_CONNECT"]_vars
    BY NextSplit, DownServer, DownUv DEF StaysDown
  <1> QED BY <1>1, CoreInvariant, PTL DEF Spec, NoResurrection

-----------------------------------------------------------------------------
(* The life of a client. *)

HIDE BridgeAssumption

LEMMA StepSplit ==
    [Next]_vars => \/ fault = "none" /\ ServerStep
                   \/ fault = "none" /\ UvStep
                   \/ UNCHANGED vars
  BY DEF Next, ServerStep, UvStep, Halted

-----------------------------------------------------------------------------
(* Which callbacks of the libuv thread lead where. *)
LEMMA LpcUv ==
    ASSUME UvStep
    PROVE  /\ lpc' = "onread" => \E c \in Client : Client_onRead(c)
           /\ lpc' = "ontimer" => TimerDue
           /\ lpc' = "timers" => ClosingEnd
           /\ lpc = "onconnect" => ReadStart
           /\ UNCHANGED last_access_ \/ ReadStart
  <1> USE DEF UvStep, Backend, LoopStep, TimerDue, Loop_onTimer, CloseCallback,
         Client_onConnect, OnConnectFails, Client_onRead, OnReadError,
         PollBegin, PollEnd, ClosingEnd, Loop_onAsync, DrainEnd, Dangling,
         Client__write, WriteUndecodable, WriteDone, ReadStart, ReadProduce,
         Client__connect, ConnectError, CloseRequested, WriteBegin,
         Loop_onDisconnect
  <1>1. lpc = "onconnect" => ReadStart
    BY DEF Consume
  <1>2. lpc = "onread" => ReadProduce
    BY DEF Consume
  <1>3. lpc # "onread" /\ lpc' = "onread" => \E c \in Client : Client_onRead(c)
    BY DEF uv, WriteEnd
  <1>4. lpc \in {"timers", "ontimer"} => TimerDue \/ PollBegin \/ Loop_onTimer
    BY DEF Consume
  <1>5. lpc # "ontimer" /\ lpc' = "ontimer" => TimerDue
    BY DEF uv, WriteEnd
  <1>6. lpc # "timers" /\ lpc' = "timers" => ClosingEnd
    BY DEF uv, WriteEnd
  <1>7. UNCHANGED last_access_ \/ ReadStart
    BY DEF client
  <1> QED BY <1>1, <1>2, <1>3, <1>4, <1>5, <1>6, <1>7

(* The FastCGI thread's histories only grow. *)
LEMMA ServerGrows ==
    ASSUME TypeOK, HandlerClientLive, ServerStep
    PROVE  /\ opened \subseteq opened' /\ timedout \subseteq timedout'
           /\ client_map_ \subseteq client_map_' /\ created \subseteq created'
           /\ \A c \in Client : posted'[c] >= posted[c]
           /\ async_ => async_'
           /\ last_access_ \subseteq last_access_'
  <1>1. opened \subseteq opened'
    BY ServerWrites DEF ConnectSucceeds
  <1>2. client_map_ \subseteq client_map_' /\ created \subseteq created'
    BY ServerWrites DEF Server_onConnect, ClientStorage_create, Execute, storage, history
  <1>3. \A c \in Client : posted'[c] >= posted[c]
    <2>1. \A c \in Client : posted[c] \in Nat
      BY DEF TypeOK, HistoryType
    <2>2. CASE UNCHANGED posted
      BY <2>1, <2>2
    <2>3. CASE WriteProduce
      BY <2>1, <2>3 DEF WriteProduce, TypeOK, HistoryType
    <2> QED BY <2>2, <2>3, ServerWrites
  <1> USE DEF ServerStep, HttpRequest, Waiting, Handler, Server_onConnect,
         Server_onDisconnect, Server_onPost, Server_onPoll, ConnectSucceeds,
         ConnectFails, ConnectTimesOut, WaitAgain, ConnectSend,
         SetConnecting, WaitBegin, DisconnectReturns,
         Client_disconnect, Execute, AsyncSend, WriteProduce, ReadGone,
         ReadChecked, ReadEmpty, ReadChunk, ReadNoMemory
  <1>4. timedout \subseteq timedout'
    BY DEF history
  <1>5. async_ => async_'
    BY DEF loop, Client_connect
  <1>6. last_access_ \subseteq last_access_'
    BY DEF client
  <1> QED BY <1>1, <1>2, <1>3, <1>4, <1>5, <1>6

-----------------------------------------------------------------------------
(* Serving and Progress. *)
LEMMA ServingServer ==
    ASSUME CoreInv, Serving, ServerStep
    PROVE  Serving'
  <1>0. TypeOK /\ HandlerClientLive /\ (pc # "idle" => cur \in Client)
    BY AtWork DEF CoreInv
  <1> USE DEF ServerStep, HttpRequest, Waiting, Handler, Server_onConnect,
         Server_onDisconnect, Server_onPost, Server_onPoll, ConnectSucceeds,
         ConnectFails, ConnectTimesOut, WaitAgain, ConnectSend,
         SetConnecting, WaitBegin, DisconnectReturns,
         Client_disconnect, Execute, AsyncSend, WriteProduce, ReadGone,
         ReadChecked, ReadEmpty, ReadChunk, ReadNoMemory, Client_connect,
         Get, Respond, Deliver
  <1>1. (pc \in {"write", "exec_write", "read", "consume"} => cur \in opened)'
    <2>1. pc' \in {"write", "exec_write", "read", "consume"} =>
             \/ (WriteProduce \/ ReadChecked \/ ReadChunk) /\ UNCHANGED cur
             \/ \E c \in Client : Server_onPost(c) \/ Server_onPoll(c)
      BY DEF server
    <2>2. (WriteProduce \/ ReadChecked \/ ReadChunk) /\ UNCHANGED cur => cur' \in opened'
      BY DEF Serving, history
    <2>3. \A c \in Client : Server_onPost(c) \/ Server_onPoll(c) => cur' \in opened'
      BY DEF history
    <2> QED BY <2>1, <2>2, <2>3
  <1>2. (pc \in {"disconnect", "exec_disconnect"} => cur \in opened \cup timedout)'
    <2>1. pc' \in {"disconnect", "exec_disconnect"} =>
             ConnectTimesOut \/ Client_disconnect \/ \E c \in Client : Server_onDisconnect(c)
      BY DEF server
    <2>2. ConnectTimesOut => cur' \in timedout'
      OBVIOUS
    <2>3. Client_disconnect => cur' \in opened' \cup timedout'
      BY DEF Serving, history
    <2>4. \A c \in Client : Server_onDisconnect(c) => cur' \in opened'
      BY DEF history
    <2> QED BY <2>1, <2>2, <2>3, <2>4
  <1>3. (pc \notin {"read", "consume"} => got = <<>>)'
    BY DEF Serving, server
  <1>4. (pc = "exec_write" => posted[cur] > 0)'
    <2>1. pc' = "exec_write" => WriteProduce
      BY DEF server
    <2>2. WriteProduce => posted'[cur'] > 0
      BY <1>0 DEF TypeOK, HistoryType
    <2> QED BY <2>1, <2>2
  <1> QED BY <1>1, <1>2, <1>3, <1>4 DEF Serving

LEMMA ServingUv ==
    ASSUME Serving, UvStep PROVE Serving'
  BY UvWrites DEF Serving

LEMMA ProgressServer ==
    ASSUME CoreInv, Progress, ServerStep
    PROVE  Progress'
  <1>0. /\ TypeOK /\ Locking /\ HandlerClientLive /\ Callbacks /\ Attempt
        /\ ConnectQueued /\ UNCHANGED <<handle_, lpc, busy>>
    BY ServerWrites DEF CoreInv
  <1>1. ASSUME NEW c \in Client, state_'[c] = "CONNECTING"
        PROVE  cur' = c /\ pc' \in {"enter_wait", "wait", "disconnect"} /\ c \notin opened'
    <2>1. CASE SetConnecting /\ cur = c
      <3>1. cur' = c /\ pc' = "enter_wait" /\ opened' = opened /\ Locked(c)
        BY <2>1 DEF SetConnecting, history, Locked
      <3>2. Queued("CONNECT", c) # {}
        BY <1>0, <2>1, <3>1 DEF Attempt
      <3>3. c \notin opened
        BY <1>0, <3>2 DEF Queued, ConnectQueued, request_t
      <3> QED BY <3>1, <3>3
    <2>2. CASE state_[c] = "CONNECTING"
      <3>1. cur = c /\ pc \in {"enter_wait", "wait", "disconnect"} /\ c \notin opened
        BY <2>2 DEF Progress
      <3>2. UNCHANGED opened
        BY <2>2, <3>1, ServerWrites DEF ConnectSucceeds
      <3>3. cur' = c /\ pc' \in {"enter_wait", "wait", "disconnect"}
        BY <1>0, <1>1, <2>2, <3>1 DEF TypeOK, ClientType, ServerStep, HttpRequest, Waiting,
           Handler, Server_onConnect,
           Server_onDisconnect, Server_onPost, Server_onPoll, ConnectSucceeds,
           ConnectFails, ConnectTimesOut, WaitAgain, ConnectSend,
         SetConnecting, WaitBegin, DisconnectReturns,
           Client_disconnect, Execute, AsyncSend, WriteProduce, ReadGone,
           ReadChecked, ReadEmpty, ReadChunk, ReadNoMemory, Get
      <3> QED BY <3>1, <3>2, <3>3
    <2> QED BY <1>0, <1>1, <2>1, <2>2, StateServerBy
  <1>2. ASSUME NEW c \in Client, state_'[c] = "CONNECTED"
        PROVE  /\ handle_'[c] = "init"
               /\ c \in last_access_' \/ (lpc' = "onconnect" /\ busy' = c)
    <2>1. state_[c] = "CONNECTED"
      BY <1>0, <1>2, StateServerBy
    <2> QED BY <1>0, <2>1, ServerGrows DEF Progress
  <1>3. (lpc = "onread" => state_[busy] \notin {"DISCONNECTED", "CONNECTING"})'
    <2> SUFFICES ASSUME lpc = "onread" PROVE state_'[busy] \notin {"DISCONNECTED", "CONNECTING"}
      BY <1>0
    <2>1. busy \in Client
      BY <1>0 DEF Callbacks, HandlerClientLive, TypeOK, StorageType
    <2> QED BY <1>0, <2>1, StateServerBy DEF Progress
  <1>4. ASSUME NEW c \in client_map_', state_'[c] = "DISCONNECTED"
        PROVE  cur' = c /\ pc' \in {"send_connect", "connecting"}
    <2>1. c \in client_map_ \/ (c \in Client /\ Server_onConnect(c))
      BY ServerWrites DEF Server_onConnect, ClientStorage_create, Execute, storage
    <2>2. CASE c \in Client /\ Server_onConnect(c)
      BY <2>2 DEF Server_onConnect, Client_connect
    <2>3. CASE c \in client_map_
      <3>1. c \in Client
        BY <1>0, <2>3 DEF TypeOK, StorageType
      <3>2. state_[c] = "DISCONNECTED"
        BY <1>0, <1>4, <3>1, StateServerBy
      <3>3. cur = c /\ pc \in {"send_connect", "connecting"}
        BY <2>3, <3>2 DEF Progress
      <3>4. ConnectSend \/ SetConnecting
        BY <3>3 DEF ServerStep, HttpRequest, Waiting, Handler, Server_onConnect,
           Server_onDisconnect, Server_onPost, Server_onPoll, ConnectSucceeds,
           ConnectFails, ConnectTimesOut, WaitAgain, WaitBegin, DisconnectReturns,
           Client_disconnect, Execute, AsyncSend, WriteProduce, ReadGone,
           ReadChecked, ReadEmpty, ReadChunk, ReadNoMemory, Get
      <3>5. ~SetConnecting
        BY <1>0, <1>4, <3>1, <3>3 DEF SetConnecting, TypeOK, ClientType
      <3> QED BY <3>3, <3>4, <3>5 DEF ConnectSend
    <2> QED BY <2>1, <2>2, <2>3
  <1> QED BY <1>1, <1>2, <1>3, <1>4 DEF Progress

LEMMA ProgressUv ==
    ASSUME CoreInv, Progress, DisconnectOnce, UvStep
    PROVE  Progress'
  <1>0. TypeOK /\ UNCHANGED <<cur, pc, opened>>
    BY UvWrites DEF CoreInv
  <1>1. ASSUME NEW c \in Client, state_'[c] = "CONNECTING"
        PROVE  cur' = c /\ pc' \in {"enter_wait", "wait", "disconnect"} /\ c \notin opened'
    <2>1. state_[c] = "CONNECTING"
      BY <1>0, <1>1, StateUvBy
    <2> QED BY <1>0, <2>1 DEF Progress
  <1>2. ASSUME NEW c \in Client, state_'[c] = "CONNECTED"
        PROVE  /\ handle_'[c] = "init"
               /\ c \in last_access_' \/ (lpc' = "onconnect" /\ busy' = c)
    <2>1. CASE Client_onConnect(c)
      BY <2>1 DEF Client_onConnect
    <2>2. CASE state_[c] = "CONNECTED"
      <3>1. ~CloseRequested(c)
        <4>1. Consumed("DISCONNECT", c) => Queued("DISCONNECT", c) # {}
          BY <1>0, QueuedUv
        <4> QED BY <1>0, <2>2, <4>1, ConsumedBy DEF DisconnectOnce
      <3>2. ~OnReadError(c) /\ ~TimerCloses(c)
        BY <1>0, <1>2 DEF OnReadError, TimerCloses, TypeOK, ClientType
      <3>3. handle_'[c] = "init"
        BY <1>0, <2>2, <3>1, <3>2, HandleUv DEF Progress
      <3>4. c \in last_access_'
        BY <2>2, LpcUv DEF Progress, ReadStart
      <3> QED BY <3>3, <3>4
    <2> QED BY <1>0, <1>2, <2>1, <2>2, StateUvBy
  <1>3. (lpc = "onread" => state_[busy] \notin {"DISCONNECTED", "CONNECTING"})'
    BY LpcUv DEF Client_onRead, client
  <1>4. ASSUME NEW c \in client_map_', state_'[c] = "DISCONNECTED"
        PROVE  cur' = c /\ pc' \in {"send_connect", "connecting"}
    <2>1. c \in client_map_ /\ c \in Client
      BY <1>0, UvWrites DEF Loop_onDisconnect, ClientStorage_destroy, TypeOK, StorageType
    <2>2. state_[c] = "DISCONNECTED"
      BY <1>0, <1>4, <2>1, StateUvBy
    <2> QED BY <1>0, <2>1, <2>2 DEF Progress
  <1> QED BY <1>1, <1>2, <1>3, <1>4 DEF Progress

-----------------------------------------------------------------------------
(* Handles. *)
LEMMA GoneStays ==
    ASSUME CoreInv, ServerStep \/ UvStep, NEW c \in Client, state_[c] \in Gone
    PROVE  state_'[c] \in Gone
  BY DownServer, DownUv DEF StaysDown, Gone

(* A request that is consumed was the first of the queue. *)
LEMMA FirstQueued ==
    ASSUME TypeOK, UvStep, NEW t, NEW c, Consumed(t, c)
    PROVE  1 \in Queued(t, c)
  BY QueuedUv

LEMMA HandlesServer ==
    ASSUME CoreInv, Handles, ServerStep
    PROVE  Handles'
  <1>0. /\ TypeOK /\ HandlerClientLive /\ Created
        /\ UNCHANGED <<handle_, lpc, uninit>>
    BY ServerWrites DEF CoreInv
  <1>1. (\A c \in Client \ created : handle_[c] = "none")'
    BY <1>0, ServerGrows DEF Handles
  <1>2. (\A c \in Client : handle_[c] = "closing" => state_[c] \in Gone)'
    BY <1>0, GoneStays DEF Handles, Gone
  <1>3. \A c \in client_map_' : c \in client_map_ \/ (c \in Client /\ Server_onConnect(c))
    BY ServerWrites DEF Server_onConnect, ClientStorage_create, Execute, storage
  <1>4. ASSUME NEW c \in Client, Server_onConnect(c)
        PROVE  handle_[c] # "closing"
    BY <1>0, <1>4 DEF Server_onConnect, ClientStorage_create, Handles
  <1>5. (lpc \in {"timers", "ontimer"} => \A c \in client_map_ : handle_[c] # "closing")'
    BY <1>0, <1>3, <1>4 DEF Handles
  <1>6. ASSUME NEW c \in client_map_', handle_'[c] = "none"
        PROVE  Queued("CONNECT", c)' # {} \/ c \in uninit'
    <2>1. CASE c \in client_map_
      BY <1>0, <1>6, <2>1, QueuedServer DEF Handles
    <2>2. CASE c \in Client /\ Server_onConnect(c)
      <3>1. request_queue_ \in Seq(Request) /\ request_t("CONNECT", c) \in Request
        BY <1>0, <2>2 DEF TypeOK, QueueType, request_t, Request, RequestType
      <3>2. request_queue_' = Append(request_queue_, request_t("CONNECT", c))
        BY <2>2 DEF Server_onConnect, Client_connect
      <3> QED BY <1>0, <3>1, <3>2, QueuedAppend
    <2> QED BY <1>3, <1>6, <2>1, <2>2
  <1> QED BY <1>1, <1>2, <1>5, <1>6 DEF Handles, Gone

LEMMA HandlesUv ==
    ASSUME CoreInv, Handles, DisconnectOnce, UvStep
    PROVE  Handles'
  <1>0. /\ TypeOK /\ SocketsBounded /\ Created /\ UNCHANGED created
        /\ client_map_ \subseteq Client /\ client_map_ \subseteq created
        /\ client_map_' \subseteq client_map_
    BY UvWrites DEF CoreInv, Created, TypeOK, StorageType, Loop_onDisconnect,
                    ClientStorage_destroy
  <1>1. ASSUME NEW c \in Client \ created
        PROVE  handle_'[c] = "none"
    BY <1>0, HandleUv DEF Handles, Client__connect, ConnectError, CloseRequested,
                          OnReadError, TimerCloses, SocketsBounded
  <1>2. ASSUME NEW c \in Client, handle_'[c] = "closing"
        PROVE  state_'[c] \in Gone
    <2>1. CASE handle_[c] = "closing"
      BY <2>1, GoneStays DEF Handles, Gone
    <2>2. CASE CloseRequested(c)
      <3>1. Queued("DISCONNECT", c) # {}
        BY <1>0, <2>2, ConsumedBy, FirstQueued
      <3>2. state_[c] \in Gone
        BY <3>1 DEF DisconnectOnce, Gone
      <3> QED BY <3>2, GoneStays
    <2>3. CASE OnReadError(c)
      BY <1>0, <2>3 DEF OnReadError, TypeOK, ClientType, Gone
    <2>4. CASE TimerCloses(c)
      BY <2>4 DEF TimerCloses, Gone
    <2> QED BY <1>0, <1>2, <2>1, <2>2, <2>3, <2>4, HandleUv
  <1>3. (lpc \in {"timers", "ontimer"} => \A c \in client_map_ : handle_[c] # "closing")'
    BY LpcUv DEF Handles, ClosingEnd, TimerDue, storage, client
  <1>4. ASSUME NEW c \in client_map_', handle_'[c] = "none", c \notin uninit'
        PROVE  Queued("CONNECT", c)' # {}
    <2>1. c \in client_map_ /\ c \in Client /\ handle_[c] = "none"
      BY <1>0, <1>4, HandleUv
    <2>2. ~Client__connect(c) /\ ~ConnectError(c)
      BY <1>0, <1>4, <2>1 DEF Client__connect, ConnectError, TypeOK, ClientType
    <2>3. ~Consumed("CONNECT", c)
      BY <1>0, <2>1, <2>2, ConsumedBy
    <2>4. uninit \subseteq uninit'
      BY UvWrites DEF ConnectError
    <2>5. PICK i \in Queued("CONNECT", c) : TRUE
      BY <1>4, <2>1, <2>4 DEF Handles
    <2> QED BY <1>0, <2>3, <2>5, QueuedUv
  <1> QED BY <1>0, <1>1, <1>2, <1>3, <1>4 DEF Handles, Gone

-----------------------------------------------------------------------------
(* ConnectFirst. *)
LEMMA ConnectFirstServer ==
    ASSUME CoreInv, Handles, ConnectFirst, ServerStep
    PROVE  ConnectFirst'
  <1>0. /\ TypeOK /\ HandlerClientLive /\ Created /\ Attempt
        /\ UNCHANGED handle_ /\ client_map_ \subseteq client_map_'
    BY ServerWrites, ServerGrows DEF CoreInv
  <1> SUFFICES ASSUME NEW c \in Client, NEW i \in Queued("CONNECT", c)'
               PROVE  /\ c \in client_map_'
                      /\ handle_'[c] = "none"
                      /\ state_'[c] \in {"DISCONNECTED", "CONNECTING", "DISCONNECTING"}
                      /\ \A j \in Queued("DISCONNECT", c)' : i < j
    BY DEF ConnectFirst
  <1>1. CASE i \in Queued("CONNECT", c)
    <2>1. /\ c \in client_map_ /\ handle_[c] = "none"
          /\ state_[c] \in {"DISCONNECTED", "CONNECTING", "DISCONNECTING"}
          /\ \A j \in Queued("DISCONNECT", c) : i < j
      BY <1>1 DEF ConnectFirst
    <2>2. state_'[c] \in {"DISCONNECTED", "CONNECTING", "DISCONNECTING"}
      BY <1>0, <2>1, StateServerBy
    <2>3. \A j \in Queued("DISCONNECT", c)' : i < j
      BY <1>0, <1>1, <2>1, QueuedServer
    <2> QED BY <1>0, <2>1, <2>2, <2>3
  <1>2. CASE Server_onConnect(c)
    <2>1. c \notin created /\ c \in client_map_' /\ state_'[c] = "DISCONNECTED"
      BY <1>0, <1>2 DEF Server_onConnect, ClientStorage_create, client, Created
    <2>2. handle_'[c] = "none"
      BY <1>0, <2>1 DEF Handles
    <2>3. Queued("DISCONNECT", c) = {}
      BY <2>1, <1>0 DEF Created, Queued, request_t
    <2>4. ~Added("DISCONNECT", c)
      BY <1>2 DEF Added, Server_onConnect, Execute
    <2> QED BY <1>0, <2>1, <2>2, <2>3, <2>4, QueuedServer
  <1>3. Added("CONNECT", c) => Server_onConnect(c)
    BY DEF Added
  <1>4. i \in Queued("CONNECT", c) \/ Added("CONNECT", c)
    BY <1>0, QueuedServer
  <1> QED BY <1>1, <1>2, <1>3, <1>4

LEMMA ConnectFirstUv ==
    ASSUME CoreInv, Progress, ConnectFirst, UvStep
    PROVE  ConnectFirst'
  <1>0. TypeOK /\ Locking /\ ConnectQueued
    BY DEF CoreInv
  <1> SUFFICES ASSUME NEW c \in Client, NEW i \in Queued("CONNECT", c)'
               PROVE  /\ c \in client_map_'
                      /\ handle_'[c] = "none"
                      /\ state_'[c] \in {"DISCONNECTED", "CONNECTING", "DISCONNECTING"}
                      /\ \A j \in Queued("DISCONNECT", c)' : i < j
    BY DEF ConnectFirst
  <1>1. PICK n \in {0, 1} : \A t, d :
              /\ \A k \in Queued(t, d)' : k \in Nat /\ k + n \in Queued(t, d) /\ k + n > n
              /\ \A k \in Queued(t, d) : k \in Nat /\ k > 0 /\ (k > n => k - n \in Queued(t, d)')
              /\ Consumed(t, d) <=> n = 1 /\ 1 \in Queued(t, d)
    BY <1>0, QueuedUv
  <1>2. i \in Nat /\ i + n \in Queued("CONNECT", c) /\ i + n > n
    BY <1>1
  <1>3. /\ c \in client_map_ /\ handle_[c] = "none"
        /\ state_[c] \in {"DISCONNECTED", "CONNECTING", "DISCONNECTING"}
        /\ \A j \in Queued("DISCONNECT", c) : i + n < j
    BY <1>2 DEF ConnectFirst
  <1>4. \A j \in Queued("DISCONNECT", c)' : i < j
    BY <1>1, <1>2, <1>3
  <1>5. ~Consumed("DISCONNECT", c)
    BY <1>1, <1>2, <1>3
  <1>6. i + n \in DOMAIN request_queue_ /\ request_queue_[i + n] = request_t("CONNECT", c)
    BY <1>2 DEF Queued
  <1>7. request_t("CONNECT", c).type = "CONNECT" /\ request_t("CONNECT", c).client = c
    BY DEF request_t
  <1>8. c \notin connect_req /\ \A j \in Queued("CONNECT", c) : j = i + n
    BY <1>0, <1>6, <1>7 DEF ConnectQueued, Queued
  <1>9. ~Consumed("CONNECT", c)
    BY <1>1, <1>2, <1>8
  <1>10. ~Client__connect(c) /\ ~ConnectError(c) /\ ~CloseRequested(c)
    BY <1>0, <1>5, <1>9, ConsumedBy
  <1>11. ~OnReadError(c) /\ ~TimerCloses(c)
    BY <1>0, <1>3 DEF OnReadError, TimerCloses, Loop_onTimer, Locking, Progress
  <1>12. handle_'[c] = "none"
    BY <1>0, <1>3, <1>10, <1>11, HandleUv
  <1>13. state_'[c] \in {"DISCONNECTED", "CONNECTING", "DISCONNECTING"}
    BY <1>0, <1>3, <1>8, <1>10, <1>11, StateUvBy DEF Client_onConnect, OnConnectFails
  <1>14. c \in client_map_'
    BY <1>3, UvWrites DEF Loop_onDisconnect, ClientStorage_destroy
  <1> QED BY <1>4, <1>12, <1>13, <1>14

-----------------------------------------------------------------------------
(* DisconnectOnce. *)

(* What DisconnectOnce says of c while its DISCONNECT is queued. *)
DisconnectsOnce(c) ==
    /\ c \in client_map_ /\ c \in opened \cup timedout
    /\ state_[c] \in Gone
    /\ cur = c => pc \notin {"exec_disconnect", "write", "exec_write"}
    /\ c \in opened => handle_[c] = "init"
    /\ handle_[c] = "closing" => DrainAhead \/ fault # "none"

AboutToDisconnect ==
    pc = "exec_disconnect" =>
        /\ state_[cur] \in Gone
        /\ handle_[cur] # "closing"
        /\ cur \in opened => handle_[cur] = "init"

LEMMA DisconnectSplit ==
    /\ DisconnectOnce <=>
          /\ \A c \in Client : \A i \in Queued("DISCONNECT", c) :
                DisconnectsOnce(c) /\ \A j \in Queued("DISCONNECT", c) : i = j
          /\ AboutToDisconnect
    /\ DisconnectOnce' <=>
          /\ \A c \in Client : \A i \in Queued("DISCONNECT", c)' :
                DisconnectsOnce(c)' /\ \A j \in Queued("DISCONNECT", c)' : i = j
          /\ AboutToDisconnect'
  BY DEF DisconnectOnce, DisconnectsOnce, AboutToDisconnect, Gone

LEMMA DisconnectServer ==
    ASSUME CoreInv, Serving, Progress, Handles, DisconnectOnce, ServerStep
    PROVE  DisconnectOnce'
  <1>0. /\ TypeOK /\ HandlerClientLive /\ Created /\ ConnectPending
        /\ UNCHANGED <<handle_, lpc, wake, fault>>
        /\ (pc # "idle" => cur \in Client /\ cur \in client_map_)
    BY ServerWrites, AtWork DEF CoreInv, HandlerClientLive
  <1>1. client_map_ \subseteq client_map_' /\ opened \subseteq opened'
        /\ timedout \subseteq timedout' /\ (async_ => async_')
    BY <1>0, ServerGrows
  <1>2. DrainAhead => DrainAhead'
    BY <1>0, <1>1 DEF DrainAhead
  <1>3. ASSUME NEW c \in Client, DisconnectsOnce(c)
        PROVE  DisconnectsOnce(c)'
    <2>1. c \in client_map_' /\ c \in opened' \cup timedout' /\ state_'[c] \in Gone
      BY <1>1, <1>3, GoneStays DEF DisconnectsOnce
    <2>2. c \in opened' => handle_'[c] = "init"
      BY <1>0, <1>3, StateServer DEF DisconnectsOnce, Gone
    <2>3. handle_'[c] = "closing" => DrainAhead' \/ fault' # "none"
      BY <1>0, <1>2, <1>3 DEF DisconnectsOnce
    <2>4. cur' = c => pc' \notin {"exec_disconnect", "write", "exec_write"}
      <3>1. pc' = "exec_disconnect" => Client_disconnect
        BY DEF server, ServerStep, HttpRequest, Waiting, Handler, Server_onConnect,
         Server_onDisconnect, Server_onPost, Server_onPoll, ConnectSucceeds,
         ConnectFails, ConnectTimesOut, WaitAgain, ConnectSend,
         SetConnecting, WaitBegin, DisconnectReturns,
         Execute, AsyncSend, WriteProduce, ReadGone, ReadChecked, ReadEmpty,
         ReadChunk, ReadNoMemory, Client_connect, Get, Respond, Deliver
      <3>2. pc' \in {"write", "exec_write"} =>
               WriteProduce \/ \E d \in Client : Server_onPost(d)
        BY DEF server, ServerStep, HttpRequest, Waiting, Handler, Server_onConnect,
         Server_onDisconnect, Server_onPoll, ConnectSucceeds,
         ConnectFails, ConnectTimesOut, WaitAgain, ConnectSend,
         SetConnecting, WaitBegin, DisconnectReturns,
         Client_disconnect, Execute, AsyncSend, ReadGone, ReadChecked, ReadEmpty,
         ReadChunk, ReadNoMemory, Client_connect, Get, Respond, Deliver
      <3>3. Client_disconnect => cur' # c
        BY <1>3 DEF Client_disconnect, DisconnectsOnce, Gone
      <3>4. WriteProduce => cur' # c
        BY <1>3 DEF WriteProduce, DisconnectsOnce
      <3>5. ASSUME NEW d \in Client, Server_onPost(d)
            PROVE  cur' # c
        BY <1>0, <1>3, <3>5 DEF Server_onPost, Get, DisconnectsOnce, Gone, ConnectPending
      <3> QED BY <3>1, <3>2, <3>3, <3>4, <3>5
    <2> QED BY <2>1, <2>2, <2>3, <2>4 DEF DisconnectsOnce
  <1>4. ASSUME NEW c \in Client, NEW i \in Queued("DISCONNECT", c)'
        PROVE  DisconnectsOnce(c)' /\ \A j \in Queued("DISCONNECT", c)' : i = j
    <2>1. CASE ~Added("DISCONNECT", c)
      <3>1. Queued("DISCONNECT", c)' = Queued("DISCONNECT", c)
        BY <1>0, <2>1, QueuedServer
      <3> QED BY <1>3, <1>4, <3>1, DisconnectSplit
    <2>2. CASE Added("DISCONNECT", c)
      <3>1. c = cur /\ pc = "exec_disconnect" /\ pc' = "send" /\ cur' = cur
            /\ UNCHANGED <<state_, opened, timedout, client_map_>>
        BY <2>2 DEF Added, Execute, client, history, storage
      <3>2. Queued("DISCONNECT", c) = {}
        BY <3>1, DisconnectSplit DEF DisconnectsOnce
      <3>3. \A j, k \in Queued("DISCONNECT", c)' : j = k
        BY <1>0, <3>2, QueuedServer
      <3>4. AboutToDisconnect /\ cur \in opened \cup timedout
        BY <3>1, DisconnectSplit DEF Serving
      <3>5. DisconnectsOnce(c)'
        BY <1>0, <3>1, <3>4 DEF DisconnectsOnce, AboutToDisconnect
      <3> QED BY <1>4, <3>3, <3>5
    <2> QED BY <2>1, <2>2
  <1>5. AboutToDisconnect'
    <2> SUFFICES ASSUME pc' = "exec_disconnect"
                 PROVE  /\ state_'[cur'] \in Gone
                        /\ handle_'[cur'] # "closing"
                        /\ cur' \in opened' => handle_'[cur'] = "init"
      BY DEF AboutToDisconnect
    <2>1. Client_disconnect
      BY DEF server, ServerStep, HttpRequest, Waiting, Handler, Server_onConnect,
         Server_onDisconnect, Server_onPost, Server_onPoll, ConnectSucceeds,
         ConnectFails, ConnectTimesOut, WaitAgain, ConnectSend,
         SetConnecting, WaitBegin, DisconnectReturns,
         Execute, AsyncSend, WriteProduce, ReadGone, ReadChecked, ReadEmpty,
         ReadChunk, ReadNoMemory, Client_connect, Get, Respond, Deliver
    <2>2. /\ cur' = cur /\ cur \in Client /\ state_'[cur] \in Gone /\ opened' = opened
          /\ state_[cur] \in {"CONNECTING", "CONNECTED"}
      BY <1>0, <2>1 DEF Client_disconnect, Gone, TypeOK, ClientType, States, history
    <2>3. handle_[cur] # "closing"
      BY <2>2 DEF Handles
    <2>4. cur \in opened => handle_[cur] = "init"
      BY <2>2 DEF Progress
    <2> QED BY <1>0, <2>2, <2>3, <2>4
  <1> QED BY <1>4, <1>5, DisconnectSplit

LEMMA DrainUv ==
    ASSUME UvStep, DrainAhead, request_queue_' # <<>>
    PROVE  DrainAhead'
  <1> USE DEF UvStep, Backend, LoopStep, TimerDue, Loop_onTimer, CloseCallback,
         Client_onConnect, OnConnectFails, Client_onRead, OnReadError,
         PollBegin, PollEnd, ClosingEnd, Loop_onAsync, DrainEnd, Dangling,
         Client__write, WriteUndecodable, WriteDone, ReadStart, ReadProduce,
         Client__connect, ConnectError, CloseRequested, WriteBegin,
         Loop_onDisconnect
  <1>1. CASE lpc = "prepare" /\ async_
    BY <1>1 DEF Consume, DrainAhead
  <1>2. CASE lpc \in {"poll", "onconnect", "onread"} /\ wake
    BY <1>2 DEF Consume, DrainAhead
  <1>3. CASE lpc \in {"drain", "write"}
    BY <1>3 DEF DrainAhead, uv, loop, WriteEnd
  <1> QED BY <1>1, <1>2, <1>3 DEF DrainAhead

LEMMA DisconnectUv ==
    ASSUME CoreInv, Progress, DisconnectOnce, UvStep, fault = "none"
    PROVE  DisconnectOnce'
  <1>0. /\ TypeOK /\ Locking /\ HandlerClientLive /\ ConnectPending /\ NoLostWakeup
        /\ UNCHANGED <<cur, pc, opened, timedout>>
        /\ (pc # "idle" => cur \in Client)
    BY UvWrites, AtWork DEF CoreInv
  <1>1. PICK n \in {0, 1} : \A t, d :
              /\ \A k \in Queued(t, d)' : k \in Nat /\ k + n \in Queued(t, d) /\ k + n > n
              /\ \A k \in Queued(t, d) : k \in Nat /\ k > 0 /\ (k > n => k - n \in Queued(t, d)')
              /\ Consumed(t, d) <=> n = 1 /\ 1 \in Queued(t, d)
    BY <1>0, QueuedUv
  <1>2. ASSUME NEW c \in Client, DisconnectsOnce(c), ~CloseRequested(c), request_queue_' # <<>>
        PROVE  DisconnectsOnce(c)'
    <2>1. state_'[c] \in Gone /\ state_[c] \in Gone
      BY <1>2, GoneStays DEF DisconnectsOnce
    <2>2. ~OnReadError(c)
      BY <2>1 DEF OnReadError, Gone
    <2>3. c \in client_map_'
      BY <1>2, UvWrites DEF DisconnectsOnce, Loop_onDisconnect, ClientStorage_destroy, DrainAhead
    <2>4. CASE TimerCloses(c)
      <3>1. state_[c] = "FAIL_CONNECT" /\ c \notin opened
        BY <1>0, <2>1, <2>4 DEF TimerCloses, Gone, ConnectPending
      <3>2. pc = "idle" /\ lpc = "ontimer" /\ lpc' = "prepare" /\ UNCHANGED <<request_queue_, async_>>
        BY <1>0, <2>4 DEF TimerCloses, Loop_onTimer, Locking, loop
      <3>3. DrainAhead'
        BY <1>0, <1>2, <3>2 DEF NoLostWakeup, DrainAhead
      <3> QED BY <1>0, <1>2, <2>1, <2>3, <3>1, <3>3 DEF DisconnectsOnce
    <2>5. CASE ~TimerCloses(c)
      <3>1. handle_'[c] = handle_[c] \/ handle_'[c] = "init"
        BY <1>0, <1>2, <2>2, <2>5, HandleUv
      <3>2. handle_'[c] = "closing" => DrainAhead'
        BY <1>2, <3>1, DrainUv DEF DisconnectsOnce
      <3> QED BY <1>0, <1>2, <2>1, <2>3, <3>1, <3>2 DEF DisconnectsOnce
    <2> QED BY <2>4, <2>5
  <1>3. ASSUME NEW c \in Client, NEW i \in Queued("DISCONNECT", c)'
        PROVE  DisconnectsOnce(c)' /\ \A j \in Queued("DISCONNECT", c)' : i = j
    <2>1. i \in Nat /\ i + n \in Queued("DISCONNECT", c) /\ i + n > n
      BY <1>1
    <2>2. DisconnectsOnce(c) /\ \A j \in Queued("DISCONNECT", c) : i + n = j
      BY <2>1, DisconnectSplit
    <2>3. ~CloseRequested(c)
      BY <1>0, <1>1, <2>1, <2>2, ConsumedBy
    <2>4. request_queue_' # <<>>
      BY DEF Queued
    <2>5. \A j \in Queued("DISCONNECT", c)' : i = j
      BY <1>1, <2>1, <2>2
    <2> QED BY <1>2, <2>2, <2>3, <2>4, <2>5
  <1>4. AboutToDisconnect'
    <2> SUFFICES ASSUME pc = "exec_disconnect"
                 PROVE  /\ state_'[cur] \in Gone
                        /\ handle_'[cur] # "closing"
                        /\ cur \in opened => handle_'[cur] = "init"
      BY <1>0 DEF AboutToDisconnect
    <2>1. PICK c \in Client : c = cur
      BY <1>0
    <2>2. /\ state_[c] \in Gone /\ handle_[c] # "closing"
          /\ c \in opened => handle_[c] = "init"
      BY <2>1, DisconnectSplit DEF AboutToDisconnect
    <2>3. Queued("DISCONNECT", c) = {}
      BY <2>1, DisconnectSplit DEF DisconnectsOnce
    <2>4. ~CloseRequested(c)
      BY <1>0, <1>1, <2>3, ConsumedBy
    <2>5. ~OnReadError(c) /\ ~TimerCloses(c)
      BY <1>0, <2>2 DEF OnReadError, Gone, TimerCloses, Loop_onTimer, Locking
    <2>6. handle_'[c] = handle_[c] \/ handle_'[c] = "init"
      BY <1>0, <2>4, <2>5, HandleUv
    <2>7. state_'[c] \in Gone
      BY <2>2, GoneStays
    <2> QED BY <2>1, <2>2, <2>6, <2>7
  <1> QED BY <1>3, <1>4, DisconnectSplit

-----------------------------------------------------------------------------
(* WritesPosted and DisconnectingIsClosing. *)
LEMMA WritesServer ==
    ASSUME CoreInv, Serving, WritesPosted, ServerStep
    PROVE  WritesPosted'
  <1>0. TypeOK /\ HandlerClientLive /\ opened \subseteq opened'
    BY ServerGrows DEF CoreInv
  <1> SUFFICES ASSUME NEW c \in Client, Queued("WRITE", c)' # {}
               PROVE  c \in opened' /\ posted'[c] > 0
    BY DEF WritesPosted
  <1>1. c \in opened /\ posted[c] > 0
    <2>1. CASE Queued("WRITE", c) # {}
      BY <2>1 DEF WritesPosted
    <2>2. CASE Added("WRITE", c)
      BY <2>2 DEF Added, Execute, Serving
    <2> QED BY <1>0, <2>1, <2>2, QueuedServer
  <1>2. posted'[c] >= posted[c] /\ posted[c] \in Nat /\ posted'[c] \in Nat
    <2>1. TypeOK'
      BY TypeServer DEF CoreInv
    <2> QED BY <1>0, <2>1, ServerGrows DEF TypeOK, HistoryType
  <1> QED BY <1>0, <1>1, <1>2

LEMMA WritesUv ==
    ASSUME CoreInv, WritesPosted, UvStep
    PROVE  WritesPosted'
  <1>0. TypeOK /\ UNCHANGED <<opened, posted>>
    BY UvWrites DEF CoreInv
  <1>1. \A c \in Client : Queued("WRITE", c)' # {} => Queued("WRITE", c) # {}
    BY <1>0, QueuedUv
  <1> QED BY <1>0, <1>1 DEF WritesPosted

LEMMA ClosingServer ==
    ASSUME CoreInv, DisconnectingIsClosing, ServerStep
    PROVE  DisconnectingIsClosing'
  <1>0. /\ TypeOK /\ HandlerClientLive /\ Created /\ Attempt /\ UNCHANGED handle_
        /\ (pc # "idle" => cur \in Client) /\ client_map_' \subseteq Client
    BY ServerWrites, AtWork, TypeServer DEF CoreInv, TypeOK, StorageType
  <1> SUFFICES ASSUME NEW c \in client_map_', state_'[c] = "DISCONNECTING"
               PROVE  \/ handle_'[c] = "closing"
                      \/ Queued("DISCONNECT", c)' # {}
                      \/ pc' = "exec_disconnect" /\ cur' = c
    BY DEF DisconnectingIsClosing
  <1>1. CASE Client_disconnect /\ cur = c
    BY <1>1 DEF Client_disconnect
  <1>2. CASE state_[c] = "DISCONNECTING"
    <2>1. c \in client_map_
      BY <1>0, <1>2, ServerWrites DEF Server_onConnect, ClientStorage_create, Execute,
                                      storage, Created
    <2>2. CASE handle_[c] = "closing"
      BY <1>0, <2>2
    <2>3. CASE Queued("DISCONNECT", c) # {}
      BY <1>0, <2>3, QueuedServer
    <2>4. CASE pc = "exec_disconnect" /\ cur = c
      <3>1. Execute("exec_disconnect", "DISCONNECT")
        BY <2>4 DEF ServerStep, HttpRequest, Waiting, Handler, Server_onConnect,
         Server_onDisconnect, Server_onPost, Server_onPoll, ConnectSucceeds,
         ConnectFails, ConnectTimesOut, WaitAgain, ConnectSend,
         SetConnecting, WaitBegin, DisconnectReturns, Client_disconnect,
         AsyncSend, WriteProduce, ReadGone, ReadChecked, ReadEmpty, ReadChunk,
         ReadNoMemory, Get, Execute
      <3>2. request_t("DISCONNECT", c) \in Request
        BY <1>0, <2>4 DEF request_t, Request, RequestType
      <3>3. request_queue_' = Append(request_queue_, request_t("DISCONNECT", c))
        BY <2>4, <3>1 DEF Execute
      <3> QED BY <1>0, <3>2, <3>3, QueuedAppend
    <2> QED BY <1>2, <2>1, <2>2, <2>3, <2>4 DEF DisconnectingIsClosing
  <1> QED BY <1>0, <1>1, <1>2, StateServerBy

LEMMA ClosingUv ==
    ASSUME CoreInv, ConnectFirst, DisconnectingIsClosing, UvStep
    PROVE  DisconnectingIsClosing'
  <1>0. /\ TypeOK /\ UNCHANGED <<pc, cur>>
        /\ client_map_ \subseteq Client /\ client_map_' \subseteq client_map_
    BY UvWrites DEF CoreInv, TypeOK, StorageType, Loop_onDisconnect, ClientStorage_destroy
  <1> SUFFICES ASSUME NEW c \in client_map_', state_'[c] = "DISCONNECTING"
               PROVE  \/ handle_'[c] = "closing"
                      \/ Queued("DISCONNECT", c)' # {}
                      \/ pc' = "exec_disconnect" /\ cur' = c
    BY DEF DisconnectingIsClosing
  <1>1. CASE OnReadError(c) \/ TimerCloses(c)
    BY <1>0, <1>1 DEF OnReadError, Client__disconnect, TimerCloses
  <1>2. CASE state_[c] = "DISCONNECTING"
    <2>1. CASE handle_[c] = "closing"
      <3>1. ~Client__connect(c) /\ ~ConnectError(c)
        <4>1. Queued("CONNECT", c) = {}
          BY <1>0, <2>1 DEF ConnectFirst
        <4> QED BY <1>0, <4>1, ConsumedBy, FirstQueued
      <3> QED BY <1>0, <2>1, <3>1, HandleUv
    <2>2. CASE Queued("DISCONNECT", c) # {}
      <3>1. CASE CloseRequested(c)
        BY <1>0, <3>1 DEF CloseRequested, Client__disconnect
      <3>2. CASE ~CloseRequested(c)
        <4>1. ~Consumed("DISCONNECT", c)
          BY <1>0, <3>2, ConsumedBy
        <4> QED BY <1>0, <2>2, <4>1, QueuedUv
      <3> QED BY <3>1, <3>2
    <2>3. CASE pc = "exec_disconnect" /\ cur = c
      BY <1>0, <2>3
    <2> QED BY <1>0, <1>2, <2>1, <2>2, <2>3 DEF DisconnectingIsClosing
  <1> QED BY <1>0, <1>1, <1>2, StateUvBy

-----------------------------------------------------------------------------
LEMMA LifecycleInit == Init => LifecycleInv
  <1> SUFFICES ASSUME Init PROVE LifecycleInv
    OBVIOUS
  <1>1. DOMAIN request_queue_ = {}
    BY DEF Init
  <1>2. \A t, c : Queued(t, c) = {}
    BY <1>1 DEF Queued
  <1>3. Serving /\ Progress /\ Handles
    BY DEF Init, Serving, Progress, Handles
  <1>4. ConnectFirst /\ DisconnectOnce /\ WritesPosted /\ DisconnectingIsClosing
    BY <1>2 DEF Init, ConnectFirst, DisconnectOnce, WritesPosted, DisconnectingIsClosing
  <1> QED BY <1>3, <1>4 DEF LifecycleInv

LEMMA LifecycleNext == CoreInv /\ LifecycleInv /\ [Next]_vars => LifecycleInv'
  <1> SUFFICES ASSUME CoreInv, LifecycleInv, [Next]_vars PROVE LifecycleInv'
    OBVIOUS
  <1>0. /\ Serving /\ Progress /\ Handles /\ ConnectFirst /\ DisconnectOnce
        /\ WritesPosted /\ DisconnectingIsClosing
    BY DEF LifecycleInv
  <1>1. CASE fault = "none" /\ ServerStep
    <2>1. Serving' /\ Progress' /\ Handles'
      BY <1>0, <1>1, ServingServer, ProgressServer, HandlesServer
    <2>2. ConnectFirst' /\ DisconnectOnce' /\ WritesPosted' /\ DisconnectingIsClosing'
      BY <1>0, <1>1, ConnectFirstServer, DisconnectServer, WritesServer, ClosingServer
    <2> QED BY <2>1, <2>2 DEF LifecycleInv
  <1>2. CASE fault = "none" /\ UvStep
    <2>1. Serving' /\ Progress' /\ Handles'
      BY <1>0, <1>2, ServingUv, ProgressUv, HandlesUv
    <2>2. ConnectFirst' /\ DisconnectOnce' /\ WritesPosted' /\ DisconnectingIsClosing'
      BY <1>0, <1>2, ConnectFirstUv, DisconnectUv, WritesUv, ClosingUv
    <2> QED BY <2>1, <2>2 DEF LifecycleInv
  <1>3. CASE UNCHANGED vars
    <2> USE <1>0, <1>3 DEF vars, storage, client, loop, uv, server, history
    <2>1. \A t, c : Queued(t, c)' = Queued(t, c)
      BY DEF Queued
    <2>2. Serving' /\ Progress'
      BY DEF Serving, Progress
    <2>3. Handles' /\ ConnectFirst'
      BY <2>1 DEF Handles, ConnectFirst
    <2>4. DisconnectOnce'
      BY <2>1 DEF DisconnectOnce, DrainAhead
    <2>5. WritesPosted' /\ DisconnectingIsClosing'
      BY <2>1 DEF WritesPosted, DisconnectingIsClosing
    <2> QED BY <2>2, <2>3, <2>4, <2>5 DEF LifecycleInv
  <1> QED BY <1>1, <1>2, <1>3, StepSplit

-----------------------------------------------------------------------------
(* Every message that waits is covered by a WRITE. *)
LEMMA AheadFinite ==
    ASSUME TypeOK, NEW c
    PROVE  IsFiniteSet(Ahead(c)) /\ Cardinality(Ahead(c)) \in Nat
  <1>1. request_queue_ \in Seq(Request)
    BY DEF TypeOK, QueueType
  <1>2. PICK n \in Nat : DOMAIN request_queue_ = 1..n
    BY <1>1
  <1>3. IsFiniteSet(1..n)
    BY FS_Interval
  <1>4. Ahead(c) \subseteq 1..n
    BY <1>2 DEF Ahead, Queued
  <1> QED BY <1>3, <1>4, FS_Subset, FS_CardinalityType

LEMMA AheadServer ==
    ASSUME TypeOK, HandlerClientLive, DisconnectOnce, ServerStep, NEW c \in Client
    PROVE  /\ Cardinality(Ahead(c))' >= Cardinality(Ahead(c))
           /\ c = cur /\ Execute("exec_write", "WRITE") =>
                  Cardinality(Ahead(c))' = Cardinality(Ahead(c)) + 1
  <1>0. PICK n \in Nat :
            \A t :
                /\ \/ Queued(t, c)' = Queued(t, c)
                   \/ Added(t, c) /\ Queued(t, c)' = Queued(t, c) \cup {n}
                /\ \A i \in Queued(t, c) : i \in Nat /\ i < n
    BY QueuedServer
  <1>1. IsFiniteSet(Ahead(c)) /\ Cardinality(Ahead(c)) \in Nat
    BY AheadFinite
  <1>2. CASE c = cur /\ Execute("exec_write", "WRITE")
    <2>1. Queued("DISCONNECT", c) = {} /\ Queued("DISCONNECT", c)' = {}
      BY <1>0, <1>2 DEF DisconnectOnce, Execute, Added
    <2>2. Queued("WRITE", c)' = Queued("WRITE", c) \cup {n} /\ n \notin Queued("WRITE", c)
      <3>1. Queued("WRITE", c)' # Queued("WRITE", c)
        <4>0. request_queue_ \in Seq(Request)
          BY DEF TypeOK, QueueType
        <4>1. PICK r \in Request : r = request_t("WRITE", c)
          BY DEF request_t, Request, RequestType
        <4>2. request_queue_' = Append(request_queue_, r)
          BY <1>2, <4>1 DEF Execute
        <4>3. /\ Queued("WRITE", c)' = Queued("WRITE", c) \cup {Len(request_queue_) + 1}
              /\ \A i \in Queued("WRITE", c) : i \in Nat /\ i < Len(request_queue_) + 1
          BY <4>1, <4>2, QueuedAppend
        <4>4. Len(request_queue_) + 1 \notin Queued("WRITE", c)
          BY <4>0, <4>3
        <4> QED BY <4>3, <4>4
      <3> QED BY <1>0, <3>1
    <2>3. Ahead(c)' = Ahead(c) \cup {n} /\ n \notin Ahead(c)
      BY <2>1, <2>2 DEF Ahead
    <2> QED BY <1>1, <2>3, FS_AddElement
  <1>3. CASE ~(c = cur /\ Execute("exec_write", "WRITE"))
    <2>1. Queued("WRITE", c)' = Queued("WRITE", c)
      BY <1>0, <1>3 DEF Added
    <2>2. \A i \in Queued("WRITE", c) :
              (\A j \in Queued("DISCONNECT", c) : i < j) <=> (\A j \in Queued("DISCONNECT", c)' : i < j)
      BY <1>0
    <2>3. Ahead(c)' = Ahead(c)
      BY <2>1, <2>2 DEF Ahead
    <2> QED BY <1>1, <1>3, <2>3
  <1> QED BY <1>2, <1>3

LEMMA AheadUv ==
    ASSUME TypeOK, TypeOK', UvStep, NEW c \in Client
    PROVE  Cardinality(Ahead(c))' + (IF Consumed("WRITE", c) THEN 1 ELSE 0) >= Cardinality(Ahead(c))
  <1>0. PICK n \in {0, 1} : \A t :
            /\ \A i \in Queued(t, c)' : i \in Nat /\ i + n \in Queued(t, c) /\ i + n > n
            /\ \A i \in Queued(t, c) : i \in Nat /\ i > 0 /\ (i > n => i - n \in Queued(t, c)')
            /\ Consumed(t, c) <=> n = 1 /\ 1 \in Queued(t, c)
    BY QueuedUv
  <1>1. /\ IsFiniteSet(Ahead(c)) /\ Cardinality(Ahead(c)) \in Nat
        /\ IsFiniteSet(Ahead(c)') /\ Cardinality(Ahead(c)') \in Nat
    <2>1. TypeOK => IsFiniteSet(Ahead(c)) /\ Cardinality(Ahead(c)) \in Nat
      BY AheadFinite
    <2>2. (TypeOK => IsFiniteSet(Ahead(c)) /\ Cardinality(Ahead(c)) \in Nat)'
      BY AheadFinite, PTL
    <2> QED BY <2>1, <2>2
  <1> DEFINE Left == {i \in Ahead(c) : i > n}
             f == [i \in Left |-> i - n]
  <1>2. \A i \in Ahead(c) : i \in Nat /\ i > 0 /\ i \in Queued("WRITE", c)
    BY <1>0 DEF Ahead
  <1>3. \A i \in Left : i - n \in Ahead(c)'
    <2> SUFFICES ASSUME NEW i \in Left PROVE i - n \in Ahead(c)'
      OBVIOUS
    <2>1. i - n \in Queued("WRITE", c)' /\ i \in Nat
      BY <1>0, <1>2
    <2>2. ASSUME NEW j \in Queued("DISCONNECT", c)' PROVE i - n < j
      <3>1. j \in Nat /\ j + n \in Queued("DISCONNECT", c)
        BY <1>0, <2>2
      <3>2. i < j + n
        BY <3>1 DEF Ahead
      <3> QED BY <2>1, <3>1, <3>2
    <2> QED BY <2>1, <2>2 DEF Ahead
  <1>4. f \in Injection(Left, Ahead(c)')
    <2>1. f \in [Left -> Ahead(c)']
      BY <1>3
    <2>2. \A i, j \in Left : f[i] = f[j] => i = j
      BY <1>2
    <2> HIDE DEF f
    <2> QED BY <2>1, <2>2 DEF Injection, IsInjective
  <1>5. Cardinality(Left) <= Cardinality(Ahead(c)')
    BY <1>1, <1>4, FS_Injection
  <1> HIDE DEF Left
  <1>6. CASE Consumed("WRITE", c)
    <2>1. Left = Ahead(c) \ {1}
      BY <1>0, <1>2, <1>6 DEF Left
    <2>2. Cardinality(Ahead(c) \ {1}) \in {Cardinality(Ahead(c)), Cardinality(Ahead(c)) - 1}
      BY <1>1, FS_RemoveElement
    <2>3. Cardinality(Ahead(c)') >= Cardinality(Ahead(c)) - 1
      BY <1>1, <1>5, <2>1, <2>2
    <2> QED BY <1>1, <1>6, <2>3
  <1>7. CASE ~Consumed("WRITE", c)
    <2>1. Left = Ahead(c)
      BY <1>0, <1>2, <1>7 DEF Left
    <2>3. Cardinality(Ahead(c)') >= Cardinality(Ahead(c))
      BY <1>1, <1>5, <2>1
    <2> QED BY <1>1, <1>7, <2>3
  <1> QED BY <1>6, <1>7

LEMMA CoveredServer ==
    ASSUME CoreInv, CoreInv', DisconnectOnce, WritesCovered, ServerStep
    PROVE  WritesCovered'
  <1>0. /\ TypeOK /\ TypeOK' /\ HandlerClientLive /\ client_map_ \subseteq created
        /\ client_map_ \subseteq Client /\ write_queue_ \in [Client -> Seq(Nat)]
        /\ \A c \in Client : write_queue_[c] \in Seq(Nat) /\ Cardinality(Ahead(c)) \in Nat
        /\ UNCHANGED <<lpc, busy>>
    BY AheadFinite, ServerWrites DEF CoreInv, TypeOK, StorageType, QueueType, Created
  <1>1. ASSUME NEW c \in Client \ created' PROVE write_queue_'[c] = <<>>
    <2>1. c \notin created
      BY <1>1, <1>0, ServerGrows
    <2>2. WriteProduce => c # cur
      BY <1>0, <2>1 DEF WriteProduce, HandlerClientLive
    <2> QED BY <1>0, <1>1, <2>1, <2>2, ServerWrites DEF WritesCovered, WriteProduce
  <1>2. ASSUME NEW c \in client_map_'
        PROVE  Len(write_queue_'[c]) <= Cardinality(Ahead(c))' + About("exec_write", c)' + Writing(c)'
    <2>0. c \in Client /\ Cardinality(Ahead(c))' \in Nat
      <3>1. c \in Client
        BY <1>0, <1>2 DEF TypeOK, StorageType
      <3>2. Cardinality(Ahead(c))' >= Cardinality(Ahead(c))
        BY <1>0, <3>1, AheadServer
      <3>3. (TypeOK => Cardinality(Ahead(c)) \in Nat)'
        BY AheadFinite, PTL
      <3> QED BY <1>0, <3>1, <3>3
    <2>1. CASE c \notin client_map_
      <3>1. Server_onConnect(c)
        BY <1>2, <2>1, ServerWrites DEF Server_onConnect, ClientStorage_create, Execute, storage
      <3>2. write_queue_'[c] = <<>>
        BY <2>0, <3>1 DEF Server_onConnect, ClientStorage_create, client, WritesCovered
      <3> QED BY <2>0, <3>2 DEF About, Writing
    <2>2. CASE c \in client_map_
      <3>0. /\ Len(write_queue_[c]) <= Cardinality(Ahead(c)) + About("exec_write", c) + Writing(c)
            /\ Writing(c)' = Writing(c) /\ Writing(c) \in {0, 1} /\ Len(write_queue_[c]) \in Nat
        BY <1>0, <2>0, <2>2 DEF WritesCovered, Writing
      <3>1. CASE Execute("exec_write", "WRITE")
        <4>1. UNCHANGED write_queue_ /\ pc = "exec_write" /\ pc' = "send" /\ UNCHANGED cur
          BY <3>1 DEF Execute, client
        <4>2. About("exec_write", c)' = 0 /\ About("exec_write", c) = IF c = cur THEN 1 ELSE 0
          BY <4>1 DEF About
        <4>3. /\ Cardinality(Ahead(c))' >= Cardinality(Ahead(c))
              /\ c = cur => Cardinality(Ahead(c))' = Cardinality(Ahead(c)) + 1
          BY <1>0, <2>0, <3>1, AheadServer
        <4> QED BY <1>0, <2>0, <3>0, <4>1, <4>2, <4>3
      <3>2. CASE ~Execute("exec_write", "WRITE")
        <4>1. About("exec_write", c) = 0
          BY <3>2 DEF About, ServerStep, HttpRequest, Waiting, Handler, Server_onConnect,
               Server_onDisconnect, Server_onPost, Server_onPoll, Get, ConnectSucceeds,
               ConnectFails, ConnectTimesOut, WaitAgain, ConnectSend,
         SetConnecting, WaitBegin, DisconnectReturns,
               Client_disconnect, Execute, AsyncSend, WriteProduce, ReadGone,
               ReadChecked, ReadEmpty, ReadChunk, ReadNoMemory
        <4>2. Cardinality(Ahead(c))' >= Cardinality(Ahead(c)) /\ About("exec_write", c)' \in {0, 1}
          BY <1>0, <2>0, AheadServer DEF About
        <4>3. CASE WriteProduce /\ cur = c
          <5>1. Len(write_queue_'[c]) = Len(write_queue_[c]) + 1 /\ About("exec_write", c)' = 1
            BY <1>0, <2>0, <4>3 DEF WriteProduce, About, TypeOK, HistoryType
          <5> QED BY <1>0, <2>0, <3>0, <4>1, <4>2, <5>1
        <4>4. CASE ~(WriteProduce /\ cur = c)
          <5>1. write_queue_'[c] = write_queue_[c]
            BY <1>0, <2>0, <4>4, ServerWrites DEF WriteProduce
          <5> QED BY <1>0, <2>0, <3>0, <4>1, <4>2, <5>1
        <4> QED BY <4>3, <4>4
      <3> QED BY <3>1, <3>2
    <2> QED BY <2>1, <2>2
  <1> QED BY <1>1, <1>2 DEF WritesCovered

LEMMA CoveredUv ==
    ASSUME CoreInv, CoreInv', WritesCovered, UvStep
    PROVE  WritesCovered'
  <1>0. /\ TypeOK /\ TypeOK' /\ client_map_ \subseteq created /\ client_map_ \subseteq Client
        /\ write_queue_ \in [Client -> Seq(Nat)] /\ write_queue_' \in [Client -> Seq(Nat)]
        /\ UNCHANGED <<pc, cur, created>> /\ client_map_' \subseteq client_map_
        /\ busy # NoClient => busy \in client_map_
        /\ busy # NoClient <=> lpc \in {"write", "onconnect", "onread"}
    BY UvWrites DEF CoreInv, TypeOK, StorageType, QueueType, Created, Loop_onDisconnect,
                    ClientStorage_destroy, HandlerClientLive, Callbacks
  <1>1. ASSUME NEW c \in Client \ created' PROVE write_queue_'[c] = <<>>
    <2>1. Client__write \/ WriteUndecodable => c # busy
      BY <1>0, <1>1 DEF Client__write, WriteUndecodable
    <2> QED BY <1>0, <1>1, <2>1, UvWrites DEF WritesCovered, Client__write, WriteUndecodable,
               Loop_onDisconnect, ClientStorage_destroy
  <1>2. ASSUME NEW c \in client_map_'
        PROVE  Len(write_queue_'[c]) <= Cardinality(Ahead(c))' + About("exec_write", c)' + Writing(c)'
    <2>0. /\ c \in Client /\ c \in client_map_
          /\ About("exec_write", c)' = About("exec_write", c) /\ About("exec_write", c) \in {0, 1}
          /\ Writing(c) \in {0, 1} /\ Writing(c)' \in {0, 1}
          /\ Len(write_queue_[c]) \in Nat
          /\ Len(write_queue_[c]) <= Cardinality(Ahead(c)) + About("exec_write", c) + Writing(c)
      BY <1>0, <1>2 DEF About, Writing, WritesCovered
    <2>1. Cardinality(Ahead(c)) \in Nat /\ Cardinality(Ahead(c))' \in Nat
      <3>1. (TypeOK => Cardinality(Ahead(c)) \in Nat)'
        BY AheadFinite, PTL
      <3> QED BY <1>0, <3>1, AheadFinite
    <2>2. CASE Consumed("WRITE", c)
      <3>1. WriteBegin(c)
        BY <1>0, <2>0, <2>2, ConsumedBy
      <3>2. UNCHANGED write_queue_ /\ Writing(c) = 0 /\ Writing(c)' = 1
        BY <3>1 DEF WriteBegin, Consume, Writing, client
      <3>3. Cardinality(Ahead(c))' + 1 >= Cardinality(Ahead(c))
        BY <1>0, <2>0, <2>2, AheadUv
      <3> QED BY <2>0, <2>1, <3>2, <3>3
    <2>3. CASE ~Consumed("WRITE", c)
      <3>1. Cardinality(Ahead(c))' >= Cardinality(Ahead(c))
        <4>1. Cardinality(Ahead(c))' + 0 >= Cardinality(Ahead(c))
          BY <1>0, <2>0, <2>3, AheadUv
        <4> QED BY <2>1, <4>1
      <3>2. CASE (Client__write \/ WriteUndecodable) /\ busy = c
        <4>1. Len(write_queue_'[c]) = Len(write_queue_[c]) - 1 /\ Writing(c) = 1
          BY <1>0, <2>0, <3>2 DEF Client__write, WriteUndecodable, Writing, uv
        <4> QED BY <2>0, <2>1, <3>1, <4>1
      <3>3. CASE WriteDone /\ busy = c
        <4>1. Len(write_queue_'[c]) = 0
          BY <3>3 DEF WriteDone, client
        <4> QED BY <2>0, <2>1, <4>1
      <3>4. CASE ~((Client__write \/ WriteUndecodable \/ WriteDone) /\ busy = c)
        <4>1. write_queue_'[c] = write_queue_[c]
          BY <1>0, <1>2, <2>0, <3>4, UvWrites
             DEF Client__write, WriteUndecodable, Loop_onDisconnect, ClientStorage_destroy
        <4>2. lpc = "write" => Client__write \/ WriteUndecodable \/ WriteDone
          BY DEF UvStep, Backend, LoopStep, TimerDue, Loop_onTimer, CloseCallback,
             Client_onConnect, OnConnectFails, Client_onRead, OnReadError,
             PollBegin, PollEnd, ClosingEnd, Loop_onAsync, DrainEnd, Dangling,
             ReadStart, ReadProduce, Client__connect, ConnectError, CloseRequested, WriteBegin,
             Consume, Loop_onDisconnect
        <4>3. Writing(c) = 0
          BY <3>4, <4>2 DEF Writing
        <4> QED BY <2>0, <2>1, <3>1, <4>1, <4>3
      <3> QED BY <3>2, <3>3, <3>4
    <2> QED BY <2>2, <2>3
  <1> QED BY <1>1, <1>2 DEF WritesCovered

LEMMA CoveredNext ==
    ASSUME CoreInv, CoreInv', DisconnectOnce, WritesCovered, [Next]_vars
    PROVE  WritesCovered'
  <1>1. CASE UNCHANGED vars
    <2>1. \A c : Ahead(c)' = Ahead(c)
      BY <1>1 DEF vars, loop, Ahead, Queued
    <2> QED BY <1>1, <2>1 DEF vars, storage, client, uv, server, history, WritesCovered,
                              About, Writing
  <1> QED BY <1>1, NextSplit, CoveredServer, CoveredUv

(* How requests, state and handle of each client fit together, in every    *)
(* reachable state.                                                        *)
THEOREM BridgeInvariant == Spec => []BridgeInv
  <1>1. Init => BridgeInv
    <2>1. Init => WritesCovered
      BY DEF Init, WritesCovered
    <2> QED BY <2>1, CoreInit, LifecycleInit DEF BridgeInv
  <1>2. BridgeInv /\ [Next]_vars => BridgeInv'
    <2> SUFFICES ASSUME BridgeInv, [Next]_vars PROVE BridgeInv'
      OBVIOUS
    <2>1. CoreInv /\ LifecycleInv /\ WritesCovered /\ DisconnectOnce
      BY DEF BridgeInv, LifecycleInv
    <2>2. CoreInv' /\ LifecycleInv'
      BY <2>1, CoreNext, LifecycleNext
    <2> QED BY <2>1, <2>2, CoveredNext DEF BridgeInv
  <1> QED BY <1>1, <1>2, PTL DEF Spec

(* A message that Client::write accepted is not forgotten when _write      *)
(* returns early: a WRITE of its own is on the way, ahead of the request   *)
(* that closes the handle.                                                 *)
THEOREM WritesFollow == Spec => []NoStrandedWrite
  <1>1. BridgeInv => NoStrandedWrite
    <2> SUFFICES ASSUME BridgeInv, NEW c \in client_map_, ~(lpc = "write" /\ busy = c)
        PROVE  Len(write_queue_[c]) <= Cardinality(Ahead(c)) + About("exec_write", c)
      BY DEF NoStrandedWrite
    <2>1. /\ Len(write_queue_[c]) <= Cardinality(Ahead(c)) + About("exec_write", c) + Writing(c)
          /\ Writing(c) = 0 /\ About("exec_write", c) \in {0, 1} /\ Cardinality(Ahead(c)) \in Nat
      BY AheadFinite DEF BridgeInv, CoreInv, WritesCovered, Writing, About
    <2> QED BY <2>1
  <1> QED BY <1>1, BridgeInvariant, PTL

(* request_t's bare pointer is good for every CONNECT and DISCONNECT. *)
THEOREM LifecycleSafe == Spec => []LifecycleRequestsLive
  <1>1. BridgeInv => LifecycleRequestsLive
    <2> SUFFICES ASSUME BridgeInv, NEW i \in DOMAIN request_queue_,
                        request_queue_[i].type # "WRITE"
                 PROVE  request_queue_[i].client \in client_map_
      BY DEF LifecycleRequestsLive
    <2>1. request_queue_ \in Seq(Request)
      BY DEF BridgeInv, CoreInv, TypeOK, QueueType
    <2>2. PICK t \in {"CONNECT", "DISCONNECT"}, c \in Client : request_queue_[i] = request_t(t, c)
      <3>1. request_queue_[i] \in Request
        BY <2>1
      <3>2. PICK t \in RequestType, c \in Client : request_queue_[i] = request_t(t, c)
        BY <3>1 DEF Request, request_t
      <3>3. t # "WRITE"
        BY <3>2 DEF request_t
      <3> QED BY <3>2, <3>3 DEF RequestType
    <2>3. i \in Queued(t, c)
      BY <2>2 DEF Queued
    <2>4. c \in client_map_
      BY <2>3 DEF BridgeInv, LifecycleInv, ConnectFirst, DisconnectOnce
    <2> QED BY <2>2, <2>4 DEF request_t
  <1> QED BY <1>1, BridgeInvariant, PTL

(* A client that is DISCONNECTING is being closed, or will be. *)
THEOREM ClosingFollows == Spec => []DisconnectingIsClosing
  <1>1. BridgeInv => DisconnectingIsClosing
    BY DEF BridgeInv, LifecycleInv
  <1> QED BY <1>1, BridgeInvariant, PTL

(* One DISCONNECT per established session, and only for an open handle. *)
THEOREM ClosedOnce == Spec => []EstablishedClosedOnce
  <1>1. BridgeInv => EstablishedClosedOnce
    <2> SUFFICES ASSUME BridgeInv, NEW c \in opened
                 PROVE  LET n == Cardinality(Queued("DISCONNECT", c)) + About("exec_disconnect", c)
                        IN  n <= 1 /\ (n = 1 => handle_[c] = "init")
      BY DEF EstablishedClosedOnce
    <2>0. c \in Client /\ DisconnectOnce
      BY DEF BridgeInv, CoreInv, TypeOK, HistoryType, LifecycleInv
    <2>1. CASE Queued("DISCONNECT", c) = {}
      <3>1. Cardinality(Queued("DISCONNECT", c)) = 0
        BY <2>1, FS_EmptySet
      <3>2. About("exec_disconnect", c) \in {0, 1}
        BY DEF About
      <3>3. About("exec_disconnect", c) = 1 => handle_[c] = "init"
        BY <2>0 DEF About, DisconnectOnce
      <3> QED BY <3>1, <3>2, <3>3
    <2>2. CASE Queued("DISCONNECT", c) # {}
      <3>1. PICK i \in Queued("DISCONNECT", c) : TRUE
        BY <2>2
      <3>2. Queued("DISCONNECT", c) = {i}
        BY <2>0, <3>1 DEF DisconnectOnce
      <3>3. Cardinality(Queued("DISCONNECT", c)) = 1
        BY <3>2, FS_Singleton
      <3>4. About("exec_disconnect", c) = 0 /\ handle_[c] = "init"
        BY <2>0, <3>1 DEF About, DisconnectOnce
      <3> QED BY <3>3, <3>4
    <2> QED BY <2>1, <2>2
  <1> QED BY <1>1, BridgeInvariant, PTL

(* When onTimer has the storage lock no client in the map is CONNECTING,   *)
(* and every CONNECTED one has an access time: it closes none as idle by a *)
(* last_access_ that was not set.  (It computes the idle time of the       *)
(* others too, and does not use it.)                                       *)
THEOREM ClockInitialised == Spec => []ClockReadInitialised
  <1>1. BridgeInv => ClockReadInitialised
    <2> SUFFICES ASSUME BridgeInv, lpc = "ontimer", lock_ = "none", NEW c \in client_map_
                 PROVE  /\ state_[c] # "CONNECTING"
                        /\ state_[c] = "CONNECTED" => c \in last_access_
      BY DEF ClockReadInitialised
    <2>1. Locking /\ Progress /\ c \in Client
      BY DEF BridgeInv, CoreInv, LifecycleInv, TypeOK, StorageType
    <2> QED BY <2>1 DEF Locking, Progress
  <1> QED BY <1>1, BridgeInvariant, PTL

-----------------------------------------------------------------------------
(* The faults. *)
LEMMA FaultUv ==
    ASSUME BridgeInv, UvStep, fault = "none"
    PROVE  FaultCauses'
  <1>0. /\ TypeOK /\ Locking /\ Created /\ SocketsBounded /\ Callbacks
        /\ Progress /\ Handles /\ ConnectFirst /\ DisconnectOnce /\ WritesPosted
        /\ UNCHANGED <<timedout, opened, posted>>
    BY UvWrites DEF BridgeInv, CoreInv, LifecycleInv
  <1>1. CASE UNCHANGED fault
    BY <1>1 DEF FaultCauses
  <1>2. CASE Dangling
    <2>1. PICK t \in RequestType, c \in Client :
             /\ Consume(t, c) /\ c \notin client_map_
             /\ fault' = "use_after_free" /\ victim' = {c} /\ client_map_' = client_map_
      BY <1>2 DEF Dangling, storage
    <2>2. Consumed(t, c)
      BY <2>1 DEF Consume, Consumed
    <2>3. 1 \in Queued(t, c)
      BY <1>0, <2>2, FirstQueued
    <2>4. t = "WRITE"
      BY <1>0, <2>1, <2>3 DEF RequestType, ConnectFirst, DisconnectOnce
    <2>5. c \in opened /\ posted[c] > 0
      BY <1>0, <2>3, <2>4 DEF WritesPosted
    <2> QED BY <1>0, <2>1, <2>5 DEF FaultCauses
  <1>3. ASSUME NEW c \in Client, CloseRequested(c)
        PROVE  FaultCauses'
    <2>1. 1 \in Queued("DISCONNECT", c)
      BY <1>0, <1>3, ConsumedBy, FirstQueued
    <2>2. handle_[c] = "closing" => c \in timedout \ opened
      BY <1>0, <2>1 DEF DisconnectOnce
    <2>3. handle_[c] = "none" => c \in uninit
      <3> SUFFICES ASSUME handle_[c] = "none", c \notin uninit PROVE FALSE
        OBVIOUS
      <3>1. c \in client_map_
        BY <1>3 DEF CloseRequested
      <3>2. PICK i \in Queued("CONNECT", c) : TRUE
        BY <1>0, <3>1 DEF Handles
      <3>3. i \in Nat /\ i > 0
        BY <1>0, QueuedUv
      <3>4. i < 1
        BY <1>0, <2>1 DEF ConnectFirst
      <3> QED BY <3>3, <3>4
    <2>4. /\ fault' = "double_close" => victim' = {c} /\ handle_[c] = "closing"
          /\ fault' = "bad_handle" => victim' = {c} /\ handle_[c] = "none"
          /\ fault' # "use_after_free"
      BY <1>3 DEF CloseRequested, Client__disconnect
    <2>5. uninit' = uninit
      BY <1>3 DEF CloseRequested, history
    <2> QED BY <1>0, <2>2, <2>3, <2>4, <2>5 DEF FaultCauses
  <1>4. ASSUME NEW c \in Client, OnReadError(c)
        PROVE  FaultCauses'
    <2>1. handle_[c] = "init"
      BY <1>0, <1>4 DEF OnReadError, Callbacks
    <2>2. fault' = "none"
      BY <1>4, <2>1 DEF OnReadError, Client__disconnect
    <2> QED BY <2>2 DEF FaultCauses
  <1>5. CASE Loop_onTimer
    <2>1. PICK late \in SUBSET client_map_ : ClientStorage_onTimer(late)
      BY <1>5 DEF Loop_onTimer
    <2> DEFINE closed == {c \in client_map_ : Client_onTimer(c, late)}
    <2>2. Client__disconnect(closed)
      BY <2>1 DEF ClientStorage_onTimer
    <2>3. \A c \in closed : handle_[c] # "closing"
      BY <1>0, <1>5 DEF Loop_onTimer, Handles
    <2>4. ASSUME NEW c \in closed, handle_[c] = "none" PROVE c \in uninit
      <3>1. c \in client_map_ /\ c \in Client
            /\ state_[c] \in {"CONNECTED", "CONNECTING", "FAIL_CONNECT"}
        BY <1>0 DEF Client_onTimer, TypeOK, StorageType
      <3>2. state_[c] # "CONNECTING"
        BY <1>0, <1>5, <3>1 DEF Loop_onTimer, Locking, Progress
      <3>3. Queued("CONNECT", c) = {}
        BY <1>0, <3>1, <3>2 DEF ConnectFirst
      <3> QED BY <1>0, <2>4, <3>1, <3>3 DEF Handles
    <2> HIDE DEF closed
    <2>5. fault' # "double_close" /\ fault' # "use_after_free"
      BY <2>2, <2>3 DEF Client__disconnect
    <2>6. fault' = "bad_handle" => victim' = {c \in closed : handle_[c] = "none"}
      BY <2>2 DEF Client__disconnect
    <2>7. uninit' = uninit
      BY <1>5 DEF Loop_onTimer, history
    <2> QED BY <2>4, <2>5, <2>6, <2>7 DEF FaultCauses
  <1> QED BY <1>1, <1>2, <1>3, <1>4, <1>5, UvWrites

(* What the code leaves undefined happens to a client only for a reason of *)
(* its own: its handle is closed twice only if its own connect() timed out *)
(* and its browser was never told of it, closed uninitialised only if its  *)
(* own uv_tcp_init failed; and it is used after destroy() only for a       *)
(* message posted to it.                                                   *)
THEOREM FaultsExplained == Spec => []FaultCauses
  <1>1. Init => FaultCauses
    BY DEF Init, FaultCauses
  <1>2. BridgeInv /\ FaultCauses /\ [Next]_vars => FaultCauses'
    <2> SUFFICES ASSUME BridgeInv, FaultCauses, [Next]_vars PROVE FaultCauses'
      OBVIOUS
    <2>1. CASE fault = "none" /\ ServerStep
      BY <2>1, ServerWrites DEF FaultCauses
    <2>2. CASE fault = "none" /\ UvStep
      BY <2>2, FaultUv
    <2>3. CASE UNCHANGED vars
      BY <2>3 DEF FaultCauses, vars, storage, history
    <2> QED BY <2>1, <2>2, <2>3, StepSplit
  <1> QED BY <1>1, <1>2, BridgeInvariant, PTL DEF Spec

-----------------------------------------------------------------------------
(* The refinement of Session. *)

(* Sessions of Bridge, with the theorems about them. *)
Abstract == INSTANCE SessionProofs WITH
        Sid <- Client, Capacity <- max_clients_,
        phase <- [c \in Client |-> Phase(c)], told <- opened,
        arrived <- received, inbox <- [c \in Client |-> Inbox(c)],
        polled <- delivered, lost <- lost, posted <- posted,
        outbox <- write_queue_, written <- forwarded

-----------------------------------------------------------------------------
(* What has been taken from the front of a queue, and what is left. *)
LEMMA Taken ==
    \A a, b \in Seq(Nat) :
        /\ SubSeq(a \o b, 1, Len(a)) = a
        /\ Sessions!Drop(a \o b, Len(a)) = b
        /\ Len(a) \in 0..Len(a \o b)
  <1> SUFFICES ASSUME NEW a \in Seq(Nat), NEW b \in Seq(Nat)
      PROVE  /\ SubSeq(a \o b, 1, Len(a)) = a
             /\ SubSeq(a \o b, Len(a) + 1, Len(a \o b)) = b
             /\ Len(a) \in 0..Len(a \o b)
    BY DEF Sessions!Drop
  <1>a. a \o b \in Seq(Nat) /\ Len(a \o b) = Len(a) + Len(b)
    BY ConcatProperties
  <1>0. PICK l \in Seq(Nat) : l = a \o b /\ Len(l) = Len(a) + Len(b)
    BY <1>a
  <1>b. PICK m \in Nat, n \in Nat : m = Len(a) /\ n = Len(b)
    OBVIOUS
  <1>1. \A i \in 1..m : l[i] = a[i]
    BY <1>0, <1>b
  <1>2. \A i \in 1..n : l[m + i] = b[i]
    BY <1>0, <1>b
  <1>3. SubSeq(l, 1, m) = a
    <2>1. SubSeq(l, 1, m) \in Seq(Nat) /\ Len(SubSeq(l, 1, m)) = m
      BY <1>0, <1>b
    <2>2. \A i \in 1..m : SubSeq(l, 1, m)[i] = a[i]
      BY <1>0, <1>b, <1>1
    <2> QED BY <1>0, <1>b, <2>1, <2>2, SeqEqual
  <1>4. SubSeq(l, m + 1, m + n) = b
    <2>1. PICK r \in Seq(Nat) : r = SubSeq(l, m + 1, m + n) /\ Len(r) = n
      BY <1>0, <1>b, SMTT(30)
    <2>2. \A i \in 1..n : r[i] = b[i]
      BY <1>0, <1>b, <1>2, <2>1
    <2>3. r = b
      BY <1>0, <1>b, <2>1, <2>2, SeqEqual
    <2> QED BY <2>1, <2>3
  <1>5. SubSeq(l, 1, Len(a)) = a
    BY <1>b, <1>3, Zenon
  <1>6. SubSeq(l, Len(a) + 1, Len(l)) = b
    BY <1>0, <1>b, <1>4, Zenon
  <1>7. Len(a) \in 0..Len(a \o b)
    BY <1>a, <1>b
  <1> QED BY <1>0, <1>5, <1>6, <1>7, Zenon

LEMMA Shifted ==
    \A a, b \in Seq(Nat) :
        /\ <<>> \o b = b /\ a \o <<>> = a
        /\ \A e \in Nat : a \o Append(b, e) = Append(a \o b, e)
        /\ b # <<>> => Append(a, Head(b)) \o Tail(b) = a \o b
  BY Abstract!Moves, ConcatEmptySeq

LEMMA Counted == \A S : Sessions!Cardinality(S) = Cardinality(S)
  BY DEF Cardinality, Sessions!Cardinality

-----------------------------------------------------------------------------
(* What browsers and backends see, before and after a step. *)
LEMMA PhaseIs ==
    ASSUME Created, Created'
    PROVE  \A c \in Client :
        /\ Phase(c) = IF c \notin created THEN "new"
                      ELSE IF c \notin client_map_ THEN "over"
                      ELSE IF state_[c] \in {"DISCONNECTED", "CONNECTING"} THEN "connecting"
                      ELSE IF state_[c] = "CONNECTED" THEN "up" ELSE "down"
        /\ Phase(c)' = IF c \notin created' THEN "new"
                       ELSE IF c \notin client_map_' THEN "over"
                       ELSE IF state_'[c] \in {"DISCONNECTED", "CONNECTING"} THEN "connecting"
                       ELSE IF state_'[c] = "CONNECTED" THEN "up" ELSE "down"
  BY DEF Phase, Created

LEMMA PhaseSame ==
    ASSUME UNCHANGED <<created, client_map_, state_>>
    PROVE  UNCHANGED [c \in Client |-> Phase(c)]
  BY DEF Phase

LEMMA InboxIs ==
    ASSUME TypeOK, TypeOK'
    PROVE  \A c \in Client :
        /\ Inbox(c) = IF cur = c THEN got \o read_queue_[c] ELSE read_queue_[c]
        /\ Inbox(c)' = IF cur' = c THEN got' \o read_queue_'[c] ELSE read_queue_'[c]
        /\ got = <<>> => Inbox(c) = read_queue_[c]
        /\ got' = <<>> => Inbox(c)' = read_queue_'[c]
  <1>1. \A c \in Client : read_queue_[c] \in Seq(Nat) /\ read_queue_'[c] \in Seq(Nat)
    BY DEF TypeOK, QueueType
  <1>2. \A c \in Client : <<>> \o read_queue_[c] = read_queue_[c]
                          /\ <<>> \o read_queue_'[c] = read_queue_'[c]
    BY <1>1, Shifted
  <1> QED BY <1>2 DEF Inbox

LEMMA InboxSame ==
    ASSUME UNCHANGED <<cur, got, read_queue_>>
    PROVE  UNCHANGED [c \in Client |-> Inbox(c)]
  BY DEF Inbox

LEMMA InboxIdle ==
    ASSUME TypeOK, TypeOK', UNCHANGED read_queue_, got = <<>>, got' = <<>>
    PROVE  UNCHANGED [c \in Client |-> Inbox(c)]
  BY InboxIs

-----------------------------------------------------------------------------
(* A session is given up by whoever finds it connecting or up.  Closing it *)
(* once more changes nothing that can be seen.                             *)
LEMMA Loses ==
    ASSUME CoreInv, CoreInv',
           UNCHANGED <<created, client_map_, cur, got, read_queue_, opened, received,
                       delivered, lost, posted, write_queue_, forwarded>>,
           \A c \in Client :
               \/ state_'[c] = state_[c]
               \/ c \in client_map_ /\ state_'[c] \in {"FAIL_CONNECT", "DISCONNECTING"}
    PROVE  \E S \in SUBSET Client : Sessions!Lose(S)
  <1> DEFINE S == {c \in client_map_ : /\ state_'[c] # state_[c]
                                       /\ state_[c] \in {"DISCONNECTED", "CONNECTING", "CONNECTED"}}
  <1>0. Created /\ Created' /\ TypeOK /\ TypeOK' /\ S \in SUBSET Client /\ client_map_ \subseteq created
    BY DEF CoreInv, TypeOK, StorageType, Created
  <1>1. \A c \in Client :
            /\ c \in S => Phase(c) \in {"connecting", "up"}
            /\ Phase(c)' = IF c \in S THEN "down" ELSE Phase(c)
    BY <1>0, PhaseIs
  <1>2. UNCHANGED [c \in Client |-> Inbox(c)]
    BY InboxSame
  <1> HIDE DEF S
  <1>3. Sessions!Lose(S)
    BY <1>0, <1>1, <1>2 DEF Sessions!Lose, Sessions!downward, Sessions!upward
  <1> QED BY <1>0, <1>3

(* The libuv thread. *)
LEMMA SessionUv ==
    ASSUME BridgeInv, BridgeInv', UvStep
    PROVE  [Sessions!Next]_Sessions!vars
  <1>0. /\ CoreInv /\ CoreInv' /\ TypeOK /\ TypeOK' /\ Created /\ Created'
        /\ client_map_ \subseteq created /\ client_map_ \subseteq Client
    BY DEF BridgeInv, CoreInv, TypeOK, StorageType, Created
  <1>w. UNCHANGED <<lock_, pc, cur, got, created, opened, timedout, posted, delivered>>
    BY UvWrites
  <1>s. ASSUME NEW c \in Client,
               \/ Sessions!Establish(c) \/ Sessions!Reclaim(c)
               \/ Sessions!Arrive(c) \/ Sessions!Write(c)
        PROVE  Sessions!Next
    BY <1>s DEF Sessions!Next
  <1>1. ASSUME NEW c \in Client, Client_onConnect(c) PROVE Sessions!Establish(c)
    <2>1. /\ c \in client_map_ /\ state_[c] = "CONNECTING"
          /\ state_' = [state_ EXCEPT ![c] = "CONNECTED"]
          /\ UNCHANGED <<created, client_map_, cur, got, read_queue_, opened, received,
                         delivered, lost, posted, write_queue_, forwarded>>
      BY <1>0, <1>1 DEF Client_onConnect, CoreInv, SocketsBounded, storage, history
    <2>2. \A d \in Client :
              /\ d = c => Phase(d) = "connecting"
              /\ Phase(d)' = IF d = c THEN "up" ELSE Phase(d)
      BY <1>0, <2>1, PhaseIs DEF TypeOK, ClientType
    <2>3. UNCHANGED [d \in Client |-> Inbox(d)]
      BY <2>1, InboxSame
    <2> QED BY <2>1, <2>2, <2>3 DEF Sessions!Establish, Sessions!downward, Sessions!upward
  <1>2. ASSUME \/ Loop_onTimer
               \/ \E c \in Client : OnConnectFails(c) \/ OnReadError(c) \/ ConnectError(c)
        PROVE  Sessions!Next
    <2>1. UNCHANGED <<created, client_map_, cur, got, read_queue_, opened, received,
                      delivered, lost, posted, write_queue_, forwarded>>
      BY <1>2 DEF Loop_onTimer, OnConnectFails, OnReadError, ConnectError, Consume,
                  storage, server, history
    <2>2. \A c \in Client :
              \/ state_'[c] = state_[c]
              \/ c \in client_map_ /\ state_'[c] \in {"FAIL_CONNECT", "DISCONNECTING"}
      <3>1. CASE Loop_onTimer
        BY <3>1 DEF Loop_onTimer, ClientStorage_onTimer
      <3>2. ASSUME NEW c \in Client, OnConnectFails(c) \/ OnReadError(c) \/ ConnectError(c)
            PROVE  c \in client_map_ /\ \E x \in {"FAIL_CONNECT", "DISCONNECTING"} :
                                           state_' = [state_ EXCEPT ![c] = x]
        BY <1>0, <3>2 DEF OnConnectFails, OnReadError, ConnectError, CoreInv, SocketsBounded
      <3> QED BY <1>0, <1>2, <3>1, <3>2 DEF TypeOK, ClientType
    <2> QED BY <1>0, <2>1, <2>2, Loses DEF Sessions!Next
  <1>3. ASSUME NEW c \in Client, Loop_onDisconnect(c) PROVE Sessions!Reclaim(c)
    <2>1. /\ c \in client_map_ /\ state_[c] \in {"FAIL_CONNECT", "DISCONNECTING"}
          /\ got = <<>> /\ got' = <<>>
          /\ client_map_' = client_map_ \ {c}
          /\ read_queue_' = [read_queue_ EXCEPT ![c] = <<>>]
          /\ write_queue_' = [write_queue_ EXCEPT ![c] = <<>>]
          /\ UNCHANGED <<created, state_, opened, received, delivered, lost, posted, forwarded>>
      BY <1>0, <1>3 DEF Loop_onDisconnect, ClientStorage_destroy, BridgeInv, CoreInv,
                        Locking, LifecycleInv, Serving, Handles, server, history
    <2>2. \A d \in Client :
              /\ d = c => Phase(d) = "down"
              /\ Phase(d)' = IF d = c THEN "over" ELSE Phase(d)
      BY <1>0, <2>1, PhaseIs
    <2>3. \A d \in Client : Inbox(d)' = IF d = c THEN <<>> ELSE Inbox(d)
      <3>1. \A d \in Client : Inbox(d) = read_queue_[d] /\ Inbox(d)' = read_queue_'[d]
        BY <1>0, <2>1, InboxIs
      <3> QED BY <1>0, <2>1, <3>1 DEF TypeOK, QueueType
    <2> QED BY <2>1, <2>2, <2>3 DEF Sessions!Reclaim
  <1>4. ASSUME ReadProduce PROVE busy \in Client /\ Sessions!Arrive(busy)
    <2>1. /\ lpc = "onread" /\ busy \in Client /\ busy \in client_map_
          /\ state_[busy] \notin {"DISCONNECTED", "CONNECTING"}
      BY <1>0, <1>4 DEF ReadProduce, BridgeInv, CoreInv, Callbacks, HandlerClientLive,
                        LifecycleInv, Progress
    <2>2. Phase(busy) \in {"up", "down"}
      BY <1>0, <2>1, PhaseIs
    <2>3. UNCHANGED [d \in Client |-> Phase(d)]
      BY <1>4, PhaseSame DEF ReadProduce, storage
    <2>4. UNCHANGED read_queue_ => UNCHANGED [d \in Client |-> Inbox(d)]
      BY <1>4, InboxSame DEF ReadProduce, server
    <2>5. read_queue_' = [read_queue_ EXCEPT ![busy] = Append(@, received[busy] + 1)] =>
              \A d \in Client :
                  Inbox(d)' = IF d = busy THEN Append(Inbox(busy), received[busy] + 1) ELSE Inbox(d)
      <3>1. PICK q \in Seq(Nat), n \in Nat : q = read_queue_[busy] /\ n = received[busy] + 1
        BY <1>0, <2>1 DEF TypeOK, QueueType, HistoryType
      <3>2. got \o Append(q, n) = Append(got \o q, n)
        BY <1>0, Shifted, SMTT(30) DEF TypeOK, ServerType
      <3> QED BY <1>0, <1>w, <2>1, <3>1, <3>2 DEF Inbox, TypeOK, QueueType
    <2> QED BY <1>4, <2>1, <2>2, <2>3, <2>4, <2>5 DEF ReadProduce, Sessions!Arrive, Sessions!upward
  <1>5. ASSUME Client__write \/ WriteUndecodable PROVE busy \in Client /\ Sessions!Write(busy)
    <2>1. lpc = "write" /\ busy \in Client
      BY <1>0, <1>5 DEF Client__write, WriteUndecodable, CoreInv, Callbacks, HandlerClientLive
    <2>2. UNCHANGED [d \in Client |-> Phase(d)]
      BY <1>5, PhaseSame DEF Client__write, WriteUndecodable, storage, history
    <2>3. UNCHANGED [d \in Client |-> Inbox(d)]
      BY <1>5, InboxSame DEF Client__write, WriteUndecodable, server
    <2> QED BY <1>5, <2>1, <2>2, <2>3
            DEF Client__write, WriteUndecodable, history, Sessions!Write, Sessions!downward
  <1>6. ASSUME UNCHANGED <<client_map_, state_, read_queue_, write_queue_, received, lost,
                           forwarded>>
        PROVE  UNCHANGED Sessions!vars
    <2>1. UNCHANGED [d \in Client |-> Phase(d)]
      BY <1>6, <1>w, PhaseSame
    <2>2. UNCHANGED [d \in Client |-> Inbox(d)]
      BY <1>6, <1>w, InboxSame
    <2> QED BY <1>6, <1>w, <2>1, <2>2 DEF Sessions!vars, Sessions!downward, Sessions!upward
  <1>7. \/ UNCHANGED <<client_map_, state_, read_queue_, write_queue_, received, lost, forwarded>>
        \/ \E c \in Client : Client_onConnect(c) \/ Loop_onDisconnect(c)
        \/ Loop_onTimer
        \/ \E c \in Client : OnConnectFails(c) \/ OnReadError(c) \/ ConnectError(c)
        \/ ReadProduce \/ Client__write \/ WriteUndecodable
    BY UvWrites
  <1> QED BY <1>s, <1>1, <1>2, <1>3, <1>4, <1>5, <1>6, <1>7

-----------------------------------------------------------------------------
(* A poll is answered with what it took from the queue, or it fails. *)
LEMMA Polls ==
    ASSUME BridgeInv, BridgeInv', pc = "consume" \/ pc = "read",
           NEW a \in Seq(Nat), NEW b \in Seq(Nat), a \o b = got \o read_queue_[cur],
           read_queue_' = [read_queue_ EXCEPT ![cur] = b], got' = <<>>,
           UNCHANGED <<created, client_map_, state_, opened, received, posted,
                       write_queue_, forwarded>>,
           \/ UNCHANGED lost /\ delivered' = [delivered EXCEPT ![cur] = @ \o a]
           \/ lost' = lost \cup {cur} /\ UNCHANGED delivered
           \/ /\ UNCHANGED <<lost, delivered>>
              /\ state_[cur] \notin {"CONNECTING", "CONNECTED"}
    PROVE  Sessions!Next
  <1>0. /\ TypeOK /\ TypeOK' /\ Created /\ Created' /\ cur \in Client /\ cur \in client_map_
        /\ cur \in opened /\ read_queue_ \in [Client -> Seq(Nat)] /\ cur \in created
    BY DEF BridgeInv, CoreInv, HandlerClientLive, TypeOK, StorageType, QueueType, Created,
           LifecycleInv, Serving
  <1>p. state_[cur] # "DISCONNECTED"
    BY <1>0 DEF BridgeInv, LifecycleInv, Progress
  <1>1. UNCHANGED [c \in Client |-> Phase(c)]
    BY PhaseSame
  <1>2. PICK n : n = Len(a)
    OBVIOUS
  <1>3. Inbox(cur) = a \o b
    BY DEF Inbox
  <1>4. /\ n \in 0..Len(Inbox(cur)) /\ SubSeq(Inbox(cur), 1, n) = a
        /\ Sessions!Drop(Inbox(cur), n) = b
    BY <1>2, <1>3, Taken
  <1>5. \A c \in Client : Inbox(c)' = IF c = cur THEN Sessions!Drop(Inbox(cur), n) ELSE Inbox(c)
    <2>1. \A c \in Client : Inbox(c)' = read_queue_'[c]
      BY <1>0, InboxIs
    <2>2. \A c \in Client : c # cur => Inbox(c) = read_queue_[c]
      BY DEF Inbox
    <2> QED BY <1>0, <1>4, <2>1, <2>2
  <1>6. state_[cur] \notin {"CONNECTING", "CONNECTED"} => Phase(cur) = "down"
    BY <1>0, <1>p, PhaseIs
  <1>7. Sessions!Poll(cur, n) \/ Sessions!PollFails(cur, n)
    <2>1. /\ [c \in Client |-> Inbox(c)][cur] = Inbox(cur)
          /\ [c \in Client |-> Inbox(c)]' =
                [[c \in Client |-> Inbox(c)] EXCEPT ![cur] = Sessions!Drop(@, n)]
      BY <1>0, <1>5
    <2>2. CASE UNCHANGED lost /\ delivered' = [delivered EXCEPT ![cur] = @ \o a]
      BY <1>0, <1>1, <1>4, <2>1, <2>2 DEF Sessions!Poll, Sessions!upward
    <2>3. CASE lost' = lost \cup {cur} /\ UNCHANGED delivered
      BY <1>0, <1>1, <2>1, <2>3 DEF Sessions!PollFails, Sessions!upward
    <2>4. CASE /\ UNCHANGED <<lost, delivered>>
               /\ state_[cur] \notin {"CONNECTING", "CONNECTED"}
      BY <1>0, <1>1, <1>6, <2>1, <2>4 DEF Sessions!PollFails, Sessions!upward
    <2> QED BY <2>2, <2>3, <2>4
  <1> QED BY <1>0, <1>4, <1>7 DEF Sessions!Next

(* The FastCGI thread. *)
LEMMA SessionServer ==
    ASSUME BridgeInv, BridgeInv', ServerStep
    PROVE  [Sessions!Next]_Sessions!vars
  <1>0. /\ CoreInv /\ CoreInv' /\ TypeOK /\ TypeOK' /\ Created /\ Created'
        /\ client_map_ \subseteq created /\ client_map_ \subseteq Client
        /\ pc # "idle" => cur \in client_map_ /\ cur \in Client
        /\ pc \notin {"read", "consume"} => got = <<>>
    BY DEF BridgeInv, CoreInv, TypeOK, StorageType, Created, HandlerClientLive,
           LifecycleInv, Serving
  <1>s. ASSUME NEW c \in Client,
               Sessions!Connect(c) \/ Sessions!Tell(c) \/ Sessions!Post(c)
        PROVE  Sessions!Next
    BY <1>s DEF Sessions!Next
  <1>1. ASSUME NEW c \in Client, Server_onConnect(c) PROVE Sessions!Connect(c)
    <2>1. /\ pc = "idle" /\ got = <<>> /\ got' = <<>> /\ c \notin created
          /\ Cardinality(client_map_) < max_clients_
          /\ created' = created \cup {c} /\ client_map_' = client_map_ \cup {c}
          /\ state_[c] = "DISCONNECTED"
          /\ UNCHANGED <<state_, read_queue_, opened, received, delivered, lost, posted, write_queue_,
                         forwarded>>
      BY <1>0, <1>1 DEF Server_onConnect, ClientStorage_create, client, Created
    <2>2. \A d \in Client :
              /\ d = c => Phase(d) = "new"
              /\ Phase(d)' = IF d = c THEN "connecting" ELSE Phase(d)
      BY <1>0, <2>1, PhaseIs DEF TypeOK, ClientType
    <2>3. UNCHANGED [d \in Client |-> Inbox(d)]
      BY <1>0, <2>1, InboxIdle
    <2>4. Sessions!InUse = client_map_
      BY <1>0, PhaseIs DEF Sessions!InUse
    <2>5. Sessions!Cardinality(Sessions!InUse) < max_clients_
      BY <2>1, <2>4, Counted
    <2> QED BY <2>1, <2>2, <2>3, <2>5 DEF Sessions!Connect, Sessions!downward, Sessions!upward
  <1>2. ASSUME ConnectSucceeds PROVE cur \in Client /\ Sessions!Tell(cur)
    <2>1. /\ cur \in client_map_ /\ cur \in Client /\ state_[cur] = "CONNECTED"
          /\ got = <<>> /\ got' = <<>> /\ opened' = opened \cup {cur}
          /\ UNCHANGED <<created, client_map_, state_, read_queue_, received, delivered,
                         lost, posted, write_queue_, forwarded>>
      BY <1>0, <1>2 DEF ConnectSucceeds, Respond, client
    <2>2. Phase(cur) = "up" /\ UNCHANGED [d \in Client |-> Phase(d)]
      BY <1>0, <2>1, PhaseIs, PhaseSame
    <2>3. UNCHANGED [d \in Client |-> Inbox(d)]
      BY <1>0, <2>1, InboxIdle
    <2> QED BY <2>1, <2>2, <2>3 DEF Sessions!Tell, Sessions!downward, Sessions!upward
  <1>3. ASSUME Client_disconnect PROVE Sessions!Next
    <2>1. UNCHANGED <<created, client_map_, cur, got, read_queue_, opened, received,
                      delivered, lost, posted, write_queue_, forwarded>>
      BY <1>3 DEF Client_disconnect, storage, history
    <2>2. \A c \in Client :
              \/ state_'[c] = state_[c]
              \/ c \in client_map_ /\ state_'[c] \in {"FAIL_CONNECT", "DISCONNECTING"}
      BY <1>0, <1>3 DEF Client_disconnect, TypeOK, ClientType
    <2> QED BY <1>0, <2>1, <2>2, Loses DEF Sessions!Next
  <1>4. ASSUME WriteProduce PROVE cur \in Client /\ Sessions!Post(cur)
    <2>1. /\ cur \in client_map_ /\ cur \in Client /\ cur \in opened
          /\ state_[cur] \notin {"DISCONNECTED", "CONNECTING"} /\ got = <<>>
      BY <1>0, <1>4 DEF WriteProduce, BridgeInv, LifecycleInv, Serving, Progress
    <2>2. Phase(cur) \in {"up", "down"}
      BY <1>0, <2>1, PhaseIs
    <2>3. UNCHANGED [d \in Client |-> Phase(d)]
      BY <1>4, PhaseSame DEF WriteProduce, storage
    <2>4. UNCHANGED [d \in Client |-> Inbox(d)]
      BY <1>4, InboxSame DEF WriteProduce
    <2> QED BY <1>4, <2>1, <2>2, <2>3, <2>4
            DEF WriteProduce, Sessions!Post, Sessions!downward
  <1>q. /\ got \in Seq(Nat) /\ read_queue_ \in [Client -> Seq(Nat)]
        /\ pc # "idle" => read_queue_[cur] \in Seq(Nat)
    BY <1>0 DEF TypeOK, QueueType, ServerType
  <1>c. ASSUME pc # "idle", read_queue_[cur] # <<>>
        PROVE  /\ Append(got, Head(read_queue_[cur])) \in Seq(Nat)
               /\ Tail(read_queue_[cur]) \in Seq(Nat)
               /\ Append(got, Head(read_queue_[cur])) \o Tail(read_queue_[cur])
                      = got \o read_queue_[cur]
    <2>1. PICK q \in Seq(Nat) : q = read_queue_[cur]
      BY <1>c, <1>q
    <2>2. Append(got, Head(q)) \in Seq(Nat) /\ Tail(q) \in Seq(Nat)
      BY <1>c, <1>q, <2>1, HeadTailProperties, AppendProperties
    <2>3. Append(got, Head(q)) \o Tail(q) = got \o q
      BY <1>c, <1>q, <2>1, Shifted
    <2> QED BY <2>1, <2>2, <2>3
  <1>5. ASSUME ReadEmpty PROVE Sessions!Next
    <2>1. /\ pc = "consume" /\ cur \in Client /\ read_queue_[cur] = <<>>
          /\ got' = <<>> /\ delivered' = [delivered EXCEPT ![cur] = @ \o got]
          /\ UNCHANGED <<created, client_map_, state_, read_queue_, opened, received, lost,
                         posted, write_queue_, forwarded>>
      BY <1>0, <1>5 DEF ReadEmpty, Deliver, Respond
    <2>2. read_queue_' = [read_queue_ EXCEPT ![cur] = <<>>]
      BY <1>q, <2>1
    <2>3. got \o <<>> = got \o read_queue_[cur] /\ <<>> \in Seq(Nat)
      BY <2>1
    <2> QED BY <1>q, <2>1, <2>2, <2>3, Polls
  <1>6. ASSUME ReadChunk PROVE Sessions!Next \/ UNCHANGED Sessions!vars
    <2> DEFINE data == Append(got, Head(read_queue_[cur]))
    <2>1. /\ pc = "consume" /\ cur \in Client /\ read_queue_[cur] # <<>>
          /\ read_queue_' = [read_queue_ EXCEPT ![cur] = Tail(read_queue_[cur])]
          /\ UNCHANGED <<created, client_map_, state_, opened, received, lost,
                         posted, write_queue_, forwarded>>
          /\ \/ got' = data /\ UNCHANGED <<cur, delivered>>
             \/ got' = <<>> /\ delivered' = [delivered EXCEPT ![cur] = @ \o data]
      BY <1>0, <1>6 DEF ReadChunk, Deliver, Respond
    <2>2. /\ data \in Seq(Nat) /\ Tail(read_queue_[cur]) \in Seq(Nat)
          /\ data \o Tail(read_queue_[cur]) = got \o read_queue_[cur]
      BY <1>c, <2>1
    <2> HIDE DEF data
    <2>3. CASE got' = data /\ UNCHANGED <<cur, delivered>>
      <3>1. UNCHANGED [d \in Client |-> Phase(d)]
        BY <2>1, PhaseSame
      <3>2. \A c \in Client : Inbox(c)' = Inbox(c)
        BY <1>q, <2>1, <2>2, <2>3 DEF Inbox
      <3> QED BY <2>1, <2>3, <3>1, <3>2 DEF Sessions!vars, Sessions!downward, Sessions!upward
    <2>4. CASE got' = <<>> /\ delivered' = [delivered EXCEPT ![cur] = @ \o data]
      BY <2>1, <2>2, <2>4, Polls
    <2> QED BY <2>1, <2>3, <2>4
  <1>7. ASSUME ReadGone PROVE Sessions!Next
    <2>1. /\ pc = "read" /\ cur \in Client
          /\ state_[cur] \notin {"CONNECTING", "CONNECTED"} /\ got' = <<>>
          /\ UNCHANGED <<created, client_map_, state_, read_queue_, opened, received, lost,
                         delivered, posted, write_queue_, forwarded>>
      BY <1>0, <1>7 DEF ReadGone, Respond, client, history
    <2>2. read_queue_' = [read_queue_ EXCEPT ![cur] = read_queue_[cur]]
      BY <1>q, <2>1
    <2> QED BY <1>q, <2>1, <2>2, Polls
  <1>8. ASSUME ReadNoMemory PROVE Sessions!Next
    <2>1. /\ pc = "consume" /\ cur \in Client /\ got' = <<>> /\ lost' = lost \cup {cur}
          /\ read_queue_' = [read_queue_ EXCEPT ![cur] =
                                IF read_queue_[cur] = <<>> THEN <<>> ELSE Tail(read_queue_[cur])]
          /\ UNCHANGED <<created, client_map_, state_, opened, received, delivered,
                         posted, write_queue_, forwarded>>
      BY <1>0, <1>8 DEF ReadNoMemory, Respond
    <2>2. CASE read_queue_[cur] = <<>>
      <3>1. read_queue_' = [read_queue_ EXCEPT ![cur] = <<>>]
        BY <2>1, <2>2
      <3>2. got \o <<>> = got \o read_queue_[cur] /\ <<>> \in Seq(Nat)
        BY <2>2
      <3> QED BY <1>q, <2>1, <3>1, <3>2, Polls
    <2>3. CASE read_queue_[cur] # <<>>
      <3>1. read_queue_' = [read_queue_ EXCEPT ![cur] = Tail(read_queue_[cur])]
        BY <2>1, <2>3
      <3>2. PICK a \in Seq(Nat), b \in Seq(Nat) :
                b = Tail(read_queue_[cur]) /\ a \o b = got \o read_queue_[cur]
        BY <1>c, <2>1, <2>3
      <3> QED BY <2>1, <3>1, <3>2, Polls
    <2> QED BY <2>2, <2>3
  <1>9. ASSUME UNCHANGED <<created, client_map_, state_, read_queue_, opened, received,
                           delivered, lost, posted, write_queue_, forwarded>>,
               UNCHANGED <<cur, got>> \/ (got = <<>> /\ got' = <<>>)
        PROVE  UNCHANGED Sessions!vars
    <2>1. UNCHANGED [d \in Client |-> Phase(d)]
      BY <1>9, PhaseSame
    <2>2. UNCHANGED [d \in Client |-> Inbox(d)]
      BY <1>0, <1>9, InboxIdle, InboxSame
    <2> QED BY <1>9, <2>1, <2>2 DEF Sessions!vars, Sessions!downward, Sessions!upward
  <1>10. ASSUME \/ \E c \in Client : Server_onDisconnect(c) \/ Server_onPost(c) \/ Server_onPoll(c)
                \/ ConnectFails \/ ConnectTimesOut \/ WaitAgain \/ ConnectSend \/ WaitBegin
                \/ DisconnectReturns
                \/ Execute("exec_disconnect", "DISCONNECT") \/ Execute("exec_write", "WRITE")
                \/ AsyncSend \/ ReadChecked
         PROVE  UNCHANGED Sessions!vars
    <2>1. UNCHANGED <<created, client_map_, state_, read_queue_, opened, received,
                      delivered, lost, posted, write_queue_, forwarded>>
      BY <1>10 DEF Server_onDisconnect, Server_onPost, Server_onPoll, ConnectFails,
             ConnectTimesOut, WaitAgain, ConnectSend, WaitBegin, DisconnectReturns, Execute,
             AsyncSend, ReadChecked,
             storage, client, history
    <2>2. UNCHANGED <<cur, got>> \/ (got = <<>> /\ got' = <<>>)
      BY <1>0, <1>10 DEF Server_onDisconnect, Server_onPost, Server_onPoll, Get, ConnectFails,
             ConnectTimesOut, WaitAgain, ConnectSend, WaitBegin, DisconnectReturns, Execute,
             AsyncSend, ReadChecked,
             Respond
    <2> QED BY <1>9, <2>1, <2>2
  <1>11. ASSUME SetConnecting PROVE UNCHANGED Sessions!vars
    <2>1. /\ UNCHANGED <<created, client_map_, cur, got, read_queue_, opened, received,
                         delivered, lost, posted, write_queue_, forwarded>>
          /\ state_[cur] = "DISCONNECTED" /\ state_' = [state_ EXCEPT ![cur] = "CONNECTING"]
      BY <1>0, <1>11 DEF SetConnecting, CoreInv, Attempt, storage, history
    <2>2. \A d \in Client : Phase(d)' = Phase(d)
      BY <1>0, <2>1, PhaseIs DEF TypeOK, ClientType
    <2>3. UNCHANGED [d \in Client |-> Inbox(d)]
      BY <2>1, InboxSame
    <2> QED BY <2>1, <2>2, <2>3 DEF Sessions!vars, Sessions!downward, Sessions!upward
  <1> QED BY <1>s, <1>1, <1>2, <1>3, <1>4, <1>5, <1>6, <1>7, <1>8, <1>10, <1>11
          DEF ServerStep, HttpRequest, Waiting, Handler

LEMMA SessionInit == Init => Sessions!Init
  BY DEF Init, Sessions!Init, Phase, Inbox

LEMMA SessionNext ==
    BridgeInv /\ BridgeInv' /\ [Next]_vars => [Sessions!Next]_Sessions!vars
  <1> SUFFICES ASSUME BridgeInv, BridgeInv', [Next]_vars
      PROVE  [Sessions!Next]_Sessions!vars
    OBVIOUS
  <1>1. CASE UNCHANGED vars
    <2>1. UNCHANGED [d \in Client |-> Phase(d)]
      BY <1>1, PhaseSame DEF vars, storage, client, history
    <2>2. UNCHANGED [d \in Client |-> Inbox(d)]
      BY <1>1, InboxSame DEF vars, client, server
    <2> QED BY <1>1, <2>1, <2>2
            DEF vars, client, history, Sessions!vars, Sessions!downward, Sessions!upward
  <1> QED BY <1>1, NextSplit, SessionServer, SessionUv

(* The two threads implement the sessions of Session: every step of        *)
(* FastCGI and libuv handlers, early return, failed allocation and time-out *)
(* is one step of what a session promises, or none.                        *)
THEOREM RefinesSession == Spec => SessionSpec
  <1> QED BY BridgeInvariant, SessionInit, SessionNext, PTL DEF Spec, SessionSpec, Sessions!Spec

-----------------------------------------------------------------------------
(* What SessionProofs proves of any session holds of Bridge's. *)
LEMMA SessionsHold == SessionSpec => []Abstract!SessionInv
  <1>1. Sessions!Init => Abstract!Init
    BY DEF Sessions!Init, Abstract!Init
  <1>2. [Sessions!Next]_Sessions!vars => [Abstract!Next]_Abstract!vars
    <2> USE DEF Sessions!downward, Abstract!downward, Sessions!upward, Abstract!upward
    <2>1. ASSUME NEW s \in Client PROVE Sessions!Connect(s) <=> Abstract!Connect(s)
      <3>1. Sessions!InUse = Abstract!InUse
        BY DEF Sessions!InUse, Abstract!InUse
      <3>2. \A S : Sessions!Cardinality(S) = Abstract!Cardinality(S)
        BY DEF Sessions!Cardinality, Abstract!Cardinality
      <3> QED BY <3>1, <3>2 DEF Sessions!Connect, Abstract!Connect
    <2>2. ASSUME NEW s \in Client PROVE Sessions!Establish(s) <=> Abstract!Establish(s)
      BY DEF Sessions!Establish, Abstract!Establish
    <2>3. ASSUME NEW s \in Client PROVE Sessions!Tell(s) <=> Abstract!Tell(s)
      BY DEF Sessions!Tell, Abstract!Tell
    <2>4. ASSUME NEW s \in Client PROVE Sessions!Reclaim(s) <=> Abstract!Reclaim(s)
      BY DEF Sessions!Reclaim, Abstract!Reclaim
    <2>5. ASSUME NEW s \in Client PROVE Sessions!Arrive(s) <=> Abstract!Arrive(s)
      BY DEF Sessions!Arrive, Abstract!Arrive
    <2>6. ASSUME NEW s \in Client PROVE Sessions!Post(s) <=> Abstract!Post(s)
      BY DEF Sessions!Post, Abstract!Post
    <2>7. ASSUME NEW s \in Client PROVE Sessions!Write(s) <=> Abstract!Write(s)
      BY DEF Sessions!Write, Abstract!Write
    <2>8. ASSUME NEW s \in Client, NEW n PROVE Sessions!Poll(s, n) <=> Abstract!Poll(s, n)
      BY DEF Sessions!Poll, Abstract!Poll, Sessions!Drop, Abstract!Drop
    <2>9. ASSUME NEW s \in Client, NEW n PROVE Sessions!PollFails(s, n) <=> Abstract!PollFails(s, n)
      BY DEF Sessions!PollFails, Abstract!PollFails, Sessions!Drop, Abstract!Drop
    <2>10. ASSUME NEW S \in SUBSET Client PROVE Sessions!Lose(S) <=> Abstract!Lose(S)
      BY DEF Sessions!Lose, Abstract!Lose
    <2>11. Sessions!vars = Abstract!vars /\ Sessions!vars' = Abstract!vars'
      BY DEF Sessions!vars, Abstract!vars
    <2> QED BY <2>1, <2>2, <2>3, <2>4, <2>5, <2>6, <2>7, <2>8, <2>9, <2>10, <2>11
            DEF Sessions!Next, Abstract!Next
  <1> QED BY <1>1, <1>2, Abstract!SessionInvariant, PTL
          DEF SessionSpec, Sessions!Spec, Abstract!Spec

(* Whatever fails, no browser is sent a chunk twice or out of order, and   *)
(* no backend a message: client_storage_'s lock, the two queues of each    *)
(* Client and _write's early return keep the order of read() and write().  *)
THEOREM DataInOrder == Spec => []InOrder
  <1>1. TypeOK /\ Abstract!SessionInv => InOrder
    <2> SUFFICES ASSUME TypeOK, Abstract!SessionInv, NEW c \in Client
        PROVE  Increasing(delivered[c]) /\ Increasing(forwarded[c])
      BY DEF InOrder
    <2>1. /\ delivered[c] \in Seq(Nat) /\ Inbox(c) \in Seq(Nat)
          /\ forwarded[c] \in Seq(Nat) /\ write_queue_[c] \in Seq(Nat)
      BY DEF TypeOK, HistoryType, QueueType, Abstract!SessionInv, Abstract!Types
    <2>2. /\ Abstract!Ordered(delivered[c] \o Inbox(c), received[c])
          /\ Abstract!Ordered(forwarded[c] \o write_queue_[c], posted[c])
      BY DEF Abstract!SessionInv, Abstract!InOrder
    <2>3. ASSUME NEW a \in Seq(Nat), NEW b \in Seq(Nat), NEW n, Abstract!Ordered(a \o b, n)
          PROVE  Increasing(a)
      <3>1. /\ DOMAIN a \subseteq DOMAIN (a \o b)
            /\ \A i \in DOMAIN a : (a \o b)[i] = a[i]
        OBVIOUS
      <3> QED BY <2>3, <3>1 DEF Abstract!Ordered, Increasing
    <2> QED BY <2>1, <2>2, <2>3
  <1> QED BY <1>1, TypeCorrect, RefinesSession, SessionsHold, PTL

(* While a session is up, no chunk is lost between onRead's copy and the   *)
(* response of a poll, unless an allocation failed for one of its own.     *)
THEOREM NothingLost == Spec => []PollsLoseNothing
  <1>1. BridgeInv /\ Abstract!SessionInv => PollsLoseNothing
    <2> SUFFICES ASSUME BridgeInv, Abstract!SessionInv,
                        NEW c \in client_map_ \ lost, state_[c] = "CONNECTED"
        PROVE  delivered[c] \o (IF cur = c THEN got ELSE <<>>) \o read_queue_[c]
                   = [i \in 1..received[c] |-> i]
      BY DEF PollsLoseNothing
    <2>0. /\ c \in Client /\ c \in created
          /\ delivered[c] \in Seq(Nat) /\ got \in Seq(Nat) /\ read_queue_[c] \in Seq(Nat)
      BY DEF BridgeInv, CoreInv, TypeOK, StorageType, HistoryType, QueueType, ServerType, Created
    <2>1. Phase(c) = "up"
      BY <2>0 DEF Phase
    <2>2. delivered[c] \o Inbox(c) = [i \in 1..received[c] |-> i]
      BY <2>0, <2>1 DEF Abstract!SessionInv, Abstract!Complete
    <2>3. CASE cur = c
      <3>1. PICK a \in Seq(Nat), b \in Seq(Nat) : a = delivered[c] /\ b = read_queue_[c]
        BY <2>0
      <3>2. PICK g \in Seq(Nat) : g = got
        BY <2>0
      <3>3. (a \o g) \o b = a \o (g \o b)
        BY ConcatAssociative, SMTT(30)
      <3> QED BY <2>2, <2>3, <3>1, <3>2, <3>3 DEF Inbox
    <2>4. CASE cur # c
      <3>1. delivered[c] \o <<>> = delivered[c]
        BY <2>0, Shifted
      <3> QED BY <2>2, <2>4, <3>1 DEF Inbox
    <2> QED BY <2>3, <2>4
  <1> QED BY <1>1, BridgeInvariant, RefinesSession, SessionsHold, PTL

=============================================================================
