# A TLA+ verification of linear-fcgi

linear-fcgi is a FastCGI program that lets browsers talk to TCP servers over
HTTP. A browser connects to a *channel*, gets a session id, posts messages,
polls for answers and disconnects; the program holds one backend socket per
session. All of it runs in two threads. This directory holds TLA+
specifications of the program, the TLC models that check them on small
instances, and TLAPS proofs of the facts that matter most for every size.

Paths below are relative to the repository, so `src/linear_fcgi_client.cc` is
listed as `src/src/linear_fcgi_client.cc` in `PROJECT.json`.

## 1. Inventory

### Components

| Component | State | Operations | Code |
|---|---|---|---|
| `Queue` | linked list: `first`, `divider`, `last` | `produce`, `consume`, `empty`, `size`, destructor | `linear_fcgi_queue.h` |
| `Client` | `state_`, `last_access_`, `read_queue_`, `write_queue_`, a `uv_tcp_t`, a mutex and a condition variable | `connect`, `disconnect`, `read`, `write` for the FastCGI thread; `_connect`, `_disconnect`, `_write`, `onConnect`, `onRead`, `onTimer` for the libuv thread | `linear_fcgi_client.cc` |
| `ClientStorage` | `client_map_`, `max_clients_`, a mutex | `create`, `get`, `destroy`, `onTimer`, `lock`, `unlock` | `linear_fcgi_client_storage.cc` |
| `Loop` | `request_queue_`, an async handle, a timer | `run`, `execute`, `onAsync`, `onConnect`, `onRead`, `onDisconnect`, `onTimer` | `linear_fcgi_loop.cc` |
| `Server` | the configuration | `run`, `onConnect`, `onDisconnect`, `onPoll`, `onPost`, `getBackend`, `isAllowOrigin` | `linear_fcgi_server.cc` |
| `Request` | a static string; `errno` of the thread | `create`, `getMethod`, `getQueryString`, `sendResponse` | `linear_fcgi_request.cc` |
| `Queries` | a map of strings, per request | `parse`, `split`, getters | `linear_fcgi_queries.cc` |
| `uuid` | the clock sequence (static) | `generate`, `clear`, `is_null`, `parse`, `unparse`, `pack`, `unpack`, `compare`, `copy` | `uuid/*.c` |
| `urlendecode` | none | `url_encode`, `url_decode` | `urlendecode.c` |
| `Log` | `fp_`, a level, a mutex | `SetLevel`, `Enable`, `Disable`, `Print`, `Write` | `linear_fcgi_log.cc` |
| the program | the order in which statics live and die | `setup_log`, `main`, exit | `app/linear_fcgi.cc` |
| `Response`, `http`, `Env` | none | formatting, look-up | the rest |

### How they interact

The **FastCGI thread** (`Server::run`) accepts one request after the other. A
handler takes the storage lock, finds or creates a `Client`, calls one of its
four public methods and releases the lock. It never touches a socket: it puts a
`request_t` (a type and a bare `Client*`) into the `request_queue_` and calls
`uv_async_send`. `connect` then waits, with the storage lock held, on the
client's condition variable, for a bounded time.

The **libuv thread** (`uv_run`) goes round its timers, its events and the
handles being closed. `onAsync` consumes requests until there are none;
`onConnect` changes the state and signals; `onRead` puts chunks into the
`read_queue_`; a timer of one second closes sessions that failed or have been
idle for too long, under the storage lock; the close callback deletes the
`Client`, under the storage lock too.

So a `Client` is shared under two mutexes and three lock-free queues, and its
`state_` is written by both threads:

    DISCONNECTED -> CONNECTING -> CONNECTED -> DISCONNECTING -> deleted
                         |                          ^
                         +------> FAIL_CONNECT -----+   (the timer)

### What is hard in it

* The queue has no lock: the producer deletes what the consumer has passed, and
  addresses are reused.
* `connect` times out while the connection is still being made; the answer
  comes late, and finds a client that is on its way out.
* The timer needs the lock that `connect` holds while it waits for the thread
  the timer runs on.
* `uv_async_send` coalesces; a wake-up serves any number of requests, or must.
* State is checked under the client's lock and used after `unlock()`, in
  `disconnect`, `read`, `write`, `onConnect` and `onRead`.
* Four paths lead to `uv_close`, which may be called once.
* `request_t` may outlive its client.
* `getQueryString` keeps the body of a POST in a static string and looks at an
  `errno` it never clears.
* Ids made within one tick of the clock differ by a 14-bit counter only.
* A poll gathers chunks in a block; each path out of the handler has to free it.
* Only polls keep a session alive, and the timer compares times in whole seconds.
* Nothing stops or joins the libuv thread when the process exits.

`PROJECT.json` lists these and the others as hazards, each at its line and with
the properties that cover it.

### What makes each component correct

* `Queue`: values come out once and in order; no access to a deleted node; no
  leak; `produce` returns.
* `Client`, `ClientStorage`, `Loop`, and the handlers: no access to a deleted
  client; the number of sockets is bounded; a session that failed or is closing
  stays so and gives its slot back; every connect is answered; data is neither
  lost, nor doubled, nor reordered; no wake-up and no signal is lost.
* `Request`, `Queries`, routing: a request is served from its own data; a
  session goes to the backend the configuration names for it.
* `uuid`: an id comes back only after a full round of the sequence; its text
  names it; it is null exactly when none could be had.
* `onPoll`: every byte is accounted for, every block is freed once, bodies are
  bounded.
* The idle timeout: a session that is polled stays, one that is abandoned goes.
* `urlendecode`: decoding undoes encoding, and stays inside the string.
* `Log` and the program: lines are whole, and nothing that is gone is used.

## 2. Modules

    Fifo <--refines-- SpscQueue <-- SpscQueueProofs
                          \-- MCSpscQueue

    BridgeState <-- ServerThread --+
         ^                         +-- Bridge <-- BridgeProofs
         +--------- LoopThread ----+      \-- MCBridge    \--instantiates--> SessionProofs
                                          \--refines--> Session <-- SessionProofs

    UuidClock <-- Uuid <-- MCUuid, UuidProofs
    FrontEnd <-- MCFrontEnd, FrontEndProofs
    UrlCodec <-- MCFrontEnd, FrontEndProofs
    PollBody <-- PollBodyProofs
    IdleTimer <-- IdleTimerProofs
    Process <-- ProcessProofs

The arrows are `EXTENDS`, except where they say otherwise.

### SpscQueue, Fifo

`SpscQueue` has one step per load or store that the other thread can see.
`heap` is the set of allocated addresses, `value` and `next` are the nodes'
fields. `ProduceLink`, `ProducePublish`, `TrimTest` and `TrimDelete` are
`produce`; `ConsumeTest`, `ConsumeCopy` and `ConsumeAdvance` are `consume`;
`Destroy*` is the destructor, which runs when no call is in progress. `new`
takes any address that is free, so deleted ones come back. Memory is taken to
be sequentially consistent: the compiler barriers and
`__sync_lock_test_and_set` give that on x86, for which the code is written.

`Fifo` is what a queue promises: a sequence, appended to and taken from. The
refinement maps the values between `divider` and `last` to it. Bridge uses the
queues as sequences on the strength of that refinement.

### BridgeState, ServerThread, LoopThread, Bridge

`BridgeState` declares what the threads share, under the names of the code;
`ServerThread` and `LoopThread` have one action per step of each, and `Bridge`
composes them, adds browsers and backends, and states the properties.

* `pc` and `cur` say where the FastCGI thread is and for which client; `lpc`
  and `busy` the same for the libuv thread. A step ends where the other thread
  can see something: at the end of a section under the client's lock, at a
  queue operation, at a wake-up, at the wait. `lock_` is the storage lock; the libuv thread
  takes and releases it within one step, because what it does under the lock is
  seen by nobody who does not hold it, but for the states of clients.
* `connect` is four steps: it queues the request (`Client_connect`), wakes the
  libuv thread (`ConnectSend`), sets `CONNECTING` (`SetConnecting`) and waits
  (`WaitBegin`). It holds the client's lock all the while, and only the wait
  gives it back: `Locked`, which is the one section under that lock of more than
  one step. `_connect` and `onConnect`, which take the lock, have `~Locked` as a
  guard; without it the outcome could be there before `CONNECTING`, be overwritten
  by it, or be signalled before anyone waits (`Mut_Unlocked`, the mutant of
  `NoLostSignal`). `Signal` is lost unless `connect` is waiting, as
  `pthread_cond_signal` is.
* `lpc` follows `uv_run`: timers, poll, closing. `PollBegin` takes note of
  whether the async handle is pending; an `uv_async_send` after that is seen in
  the next round. A callback of a handle that is closing is not called, except
  that an outstanding connect request is cancelled in the closing phase, before
  the close callback. These three actions and `Signal` are marked external:
  they are libuv and pthreads as this code uses them.
* Of `last_access_` the model keeps whether it was assigned; *whether* a client
  has been idle for too long is then a free choice of the timer. `timeout`s of
  the wait are a free choice likewise.
* Chunks and messages are numbered in the order of their arrival. The poll
  threshold counts chunks.
* A request that is refused before it changes anything is no step; FrontEnd has
  those.
* `fault` records what C++ or libuv leaves undefined: `double_close`,
  `bad_handle` (closing a handle never initialised) and `use_after_free`, and
  `victim` the clients it happened to. The model stops there. `timedout` and
  `uninit` are the clients whose `connect` gave up and whose `uv_tcp_init` failed,
  so that `FaultCauses` can name a cause for each victim.
* With `ResourceFaults`, `malloc`, `uv_tcp_init` and `uv_write` may fail and the
  base64 of a body too; `lost` notes the clients that lost a chunk by it.

### Session

What a browser and a backend see of the sessions, with no threads in it: a
session goes `new`, `connecting`, `up`, `down`, `over`, occupies one of
`max_clients_` places in between, is told to its browser only while it is up,
and carries data both ways in order. Data is lost only in a session that is
down, or for want of memory, which `lost` tells. `Bridge!Sessions` maps `client_map_` and
`state_` to the phase (`Phase`), the chunks of the `read_queue_` and those a
poll has in hand to the inbox (`Inbox`), and the `write_queue_` to the outbox.
Requests, wake-ups, locks, timeouts of the wait and `uv_close` are stutters;
one walk of the timer may take several sessions down (`Lose`). `FAIL_CONNECT`
after `DISCONNECTING`, which the late callback brings about, is one phase, so
that what is a fault for libuv is still no resurrection.

### PollBody

`onPoll` with sizes in bytes: `data` is the size of the block, `blocks` counts
what is allocated, and there is one action for each way a round of the loop can
end (gone, nothing, a chunk, no memory) and for each end of the handler. When
memory runs out there is a block to free after `realloc`, and none after the
first `malloc` (`ReadNoMemory`). A failing `malloc` in `onRead` and in the copies of
`tcp_buffer_t` is left out here. The check of the state and the look into the
queue are one step: in between, a session that goes leaves its queue alone.

### IdleTimer

One session that is up, with time. `age` is `time(NULL) - last_access_` in
whole seconds, `idle` the real time since a poll last got the storage lock, in
ticks. Time passes while locks are held and between any two steps of the
timer's callback. Both are capped one second beyond the timeout, where nothing
changes any more. The clock is not set.

### UrlCodec

`url_encode` and `url_decode`, a round of their loops per step, over bytes. `top`
is the highest index that was read, so that a look beyond the zero is seen. The
run encodes and decodes every text, and decodes every text as it is.
A `char` is signed (`Signed`), so that `>> 4` gives a negative number for a byte
above 127, of which `& 15` makes a digit again. `from_hex` of what is not a digit
is kept as the code has it; `ByteOr` is the
code's `|`, bit by bit. The specification is `CodecSpec`.

### Process

Start-up, the log and the exit. `entry` says where each thread is in
`log::Print`; a line is three calls of `fprintf`. The main thread goes through
the `stage`s of `main`, of `Server::run` and of `exit()`, which destroys the
statics in the reverse order of their construction; the libuv thread logs, and
takes the storage lock for `onTimer` and `onDisconnect`. What it does with memory
that a destructor has freed is a `fault`, and so is a lock that was destroyed.
The levels of the run are none, one between and all.

### FrontEnd

One step serves one HTTP request, from `FCGI_Accept` to the response. A query
string is a sequence of words, `Find` is what `Queries` makes of it. `ReadBody`
is `getQueryString` for a POST: the body arrives whole, or is not read, or has
a `Content-Length` that `strtol` rejects with `ERANGE`; `data` and `errno` outlive
the request. A POST without a body is among the requests: `FCGI_fread` of 0 bytes
returns 0, which the code takes for a failure, so that the static string is
served again (`Read`). The handlers answer with their status. What the bridge does with a
session is reduced to its ending; a regular expression of the configuration to
the set of what it matches. Only session ids that browsers were told are sent.
POSTs with data carry different messages (`MessagesDiffer`), so that a message
tells which POST it came from.

### UuidClock, Uuid

`UuidClock` generates ids from a clock that may stand still or be set back, a
node and the sequence, whose seed may be negative (`buf[0] << 8` of a signed
`char`). Widths are kept in digits (`BYTE`, `WORD` and `LONG` are the integers of
`_uuid_t`); the base `HEX` is 4 in the models, not 16, so that the 14-bit sequence
has 64 values and wraps. `Uuid` adds the byte and the text forms, as operators:
`InBase` shifts digits out of a number one by one, `Number` shifts them in. The node is that of the first
interface that is not a loopback, among those that one `ioctl` lists; with none
the generator fails, and the id is null.

## 3. Runs

| Run | Instance | What it shows |
|---|---|---|
| `queue` | 4 addresses, 2 values, 4 calls of `produce` | memory safety, exact pointer tests, no leak, the inductive invariant, refinement of `Fifo`, `produce` returns |
| `bridge_lifecycle` | 3 sessions, 2 slots, 1 message each, handles that cannot be initialised | every order of connects, timeouts, late answers, disconnects and idle timeouts: no deleted client in use, sockets bounded, closing is certain and happens once, no session comes back; undefined behaviour happens to a client only for a cause of its own |
| `bridge_data` | 1 session, 3 chunks, threshold 2, 3 messages, failing allocations and writes | while the session is up no chunk is lost but for want of memory, and none is doubled; order is kept, no message or wake-up is forgotten, no outcome of `connect` is overwritten or signalled to nobody |
| `bridge_liveness` | 2 sessions, fair | connects are answered, slots come back, messages leave the queue |
| `frontend` | 14 requests, 2 sessions, 1 slot, 4 entries of configuration, two of which share a channel | the backend suits the request; as long as every POST has a body that arrives whole, messages are accepted exactly once |
| `uuid` | 64 values of the sequence, 66 ids, times around the carries, interfaces with 2 nodes or none | an id comes back after whole rounds only; text and bytes name the id; an id is null exactly when the generator failed |
| `frontend`, the codec | texts of up to 4 of 10 bytes | decoding undoes encoding; no string takes `url_decode` out of bounds |
| `poll_body` | threshold 4, 4 chunks of 1, 3 or 6 bytes | bytes and blocks are accounted for on every path; the bound of a body that the code keeps |
| `idle_timer` | timeout 2 s, 3 ticks a second, fair | a poll keeps a session for at least `timeout_` less a second; an abandoned one is closed |
| `process` | 3 log lines, 3 levels | lines of two threads do not mix; nothing is used that is not there until the exit begins |
| `frontend_post`, `poll_max`, `process_exit` | as `frontend`, `poll_body`, `process` | findings, see section 6 |

`bridge_lifecycle` and `bridge_data` also check `SessionSpec`, the refinement of
Session. `queue` and `bridge_lifecycle` check their inductive invariants,
`QueueInv` and `BridgeInv`; the type invariants are conjuncts of them. The inductive
invariants of the other modules (`TimerInv`, `PollInv`, `ProcessInv`,
`FrontEndInv`, `CodecInv`, `ClockInv`, `NullInv`, `TextInv`) hold in the same instances, and are proved.

Every property of a passing run has a mutant in `PROJECT.json`: a plausible
mistake in the code, written beside the operation it changes, under which TLC
finds the property violated.

### Why the bounds are enough

* *queue*: four calls of `produce` link five nodes with the dummy, so that four
  addresses force reuse; the consumer can lag, catch up, and pass nodes while
  the trimming loop runs. The proofs remove the bound.
* *lifecycle*: three sessions in two slots have one session in the middle of its
  end while another is connecting and a third is refused and let in later. The
  connection of each is independent of the others but for the slots and the
  request queue. With a second and a third client, a cause of one is not taken
  for that of another (`FaultCauses`). Sessions are interchangeable, hence the symmetry; it is not
  used where liveness is checked.
* *data*: sessions do not share data, so one is enough; the chunks
  exceed the threshold, so that polls end by it and by an empty queue.
* *liveness*: `MaxChunks = 0`, since chunks do not matter to what is checked.
* *frontend*, the codec: requests and texts share nothing, so one run explores both,
  the requests after the empty text and not after each (`MCNext`). An escape is three bytes, so four hold a truncated one, one after
  another byte, and one that is followed by something; the bytes are one or two
  of each kind the code tells apart (letters, both sorts of digits, `%`, `+`, a
  space, an unreserved mark, a byte above 127).
* *poll_body*: chunks below, at and above the threshold; one chunk of 6 bytes is
  more than the threshold, two of 3 pass it, 1 and 3 meet it exactly.
* *idle_timer*: with three ticks the phases of the second, the poll and the
  timer differ; a longer timeout adds nothing that the age does not have.
* *process*: both threads are in the middle of a line with one line before.
* *frontend*: messages differ in their text, and each POST is sent once, so that
  a message accepted twice is the program's doing. One of them is empty.

### Fairness

`FairSpec` of Bridge assumes that both threads are scheduled: weak fairness of
what the FastCGI thread does while waiting (the wait is timed, so it returns),
of its handlers and of the libuv thread's steps. The timer is due once a second,
however busy the loop is: strong fairness of `TimerDue`. `Loop_onTimer` and the
close callback need the storage lock, which is free between any two requests:
strong fairness, since a mutex that is released again and again is obtained
some time. (POSIX does not promise it in so many words; but the FastCGI thread
writes a response and waits in `FCGI_Accept` between releasing the lock and
taking it again.) Nothing is assumed of browsers and backends: they may stop
at any time. `FairSpec` of SpscQueue assumes that a thread inside a call is
scheduled. `FairSpec` of IdleTimer assumes that time passes, that a poll stops
reading (the threshold ends its loop: `Client_read(TRUE)`) and unlocks, that the
timer is due again and again, and, as above, that the libuv thread gets the
storage lock in the end (strong fairness of `Loop_onTimer`). The browser and the
other requests are not fair: they may hammer on the lock or never come.

Liveness of Bridge holds up to a fault: the properties say "or `fault # "none"`".

## 4. Proofs

All theorems are checked by TLAPS to the last leaf. No size is fixed: they hold
for every value of the constants that satisfies the named assumptions, which TLC
evaluates in the runs:

* `QueueAssumption`: the null pointer is not an address.
* `BridgeAssumption`: clients are finite in number, `NoClient` is none, the
  threshold is positive.
* `PollAssumption`: chunks have at least one byte, and there is a largest size,
  that of the buffer `onAlloc` gets.
* `TimerAssumption`: the timeout is at least a second, and a second a tick.
* `FrontEndAssumption`, `MessagesDiffer`: the shapes of requests and resources;
  no session id is empty; no two POSTs carry the same data.
* `CodecAssumption`: bytes of a string are from 1 to 255.
* `UuidAssumption`, `InterfaceAssumption`: a digit has an even number of values,
  and a hardware address six bytes or cannot be had.
* `ProcessAssumption`: levels are integers.

The bounds of the models are natural numbers, any ones.

**SpscQueueProofs.** `QueueInv` is inductive. None of the properties is: that
`divider` is allocated when the consumer reads through it depends on where
`first` is in relation to it, which pointers to reused addresses do not say.
The invariant therefore places the three pointers in the history `chain` of
nodes ever linked (`Places`), says that exactly the nodes from `first` on are
allocated, distinct, and linked in order (`Links`), what they hold (`Values`)
and what the reader knows between its steps (`Reader`). From it follow
`MemorySafe`, `PointerTestsExact` (no ABA: addresses are distinct within the
live part of the chain, so equal pointers are equal places), `NothingLeaks`,
`SizeIsClose` and `RefinesFifo`: only `ProducePublish` and `ConsumeAdvance`
change what the map sees, every other step is a stutter. For `SizeIsClose`,
`CountIsLength` shows that the walk of `size` has one length, that of `chain`
from `divider` on.

**BridgeProofs**, first part. `CoreInv` is inductive: the types, the lock
discipline (`Locking`), that the clients both threads work on are in the map
(`HandlerClientLive`), that sockets belong to clients in the map
(`SocketsBounded`), that callbacks run for open handles (`Callbacks`), the
wake-up protocol (`NoLostWakeup`), that nobody gets at the request or the state
while `connect` holds the client's lock (`Attempt`), that therefore its outcome
meets it waiting (`NoLostSignal`), and that a client's connection is attempted once (`Created`, `ConnectQueued`,
`ConnectPending`). The last group is what the theorem on states needs: a
`CONNECT` or a connect request is outstanding only for a client that is not yet
connected, so that a late failure cannot hit an established session. `Next` is
split into the steps of the two threads; for each a lemma says which variables
it leaves alone, and each conjunct is then shown for the actions that can
disturb it. Theorems: `CoreInvariant`, `TypeCorrect`, `HandlersSafe`,
`SocketsWithinLimit`, `WakeupsSuffice`, `SignalsArrive`, `StateOneWay`.

Second part, the life of a client. `request_t` holds a bare pointer, so it has
to be shown that no request but a `WRITE` outlives its client. `LifecycleInv`
does it by the order of requests in the queue: a `CONNECT` is ahead of the
client's `DISCONNECT` and finds its handle untouched (`ConnectFirst`); a
`DISCONNECT` is queued at most once and, if something else is closing the
handle, is consumed before the close callback (`DisconnectOnce`, where
`DrainAhead` says that the drain is due before the closing phase). With it go
what the FastCGI thread is about (`Serving`), that a client is `DISCONNECTED` or
`CONNECTING` only during its own `connect`, and the order of a callback's
assignments (`Progress`), when handles are closing (`Handles`) and that only
posted messages are written (`WritesPosted`). `WritesCovered` counts the `WRITE`s
ahead of the `DISCONNECT`, the one about to be queued and the one `_write` is
serving against the messages in the `write_queue_`. `BridgeInv` is `CoreInv`,
`LifecycleInv` and `WritesCovered`. Theorems: `BridgeInvariant`, `LifecycleSafe`,
`ClosingFollows`, `ClosedOnce`, `ClockInitialised`, `WritesFollow` and
`FaultsExplained`, which says of each victim of a fault that the cause named in
`FaultCauses` is its own. `ClockInitialised` is about the clients whose idle time
decides: `onTimer` also computes it for clients that failed to connect, from a
`last_access_` that may never have been assigned, and does not use it.

Third part, `RefinesSession`: Bridge implements Session. For each action the map
(`Phase`, `Inbox`) is computed before and after, and the step of the session it
stands for, or the stutter, is named. The data then comes from the abstract
side: SessionProofs shows `SessionInv` of Session (what was delivered followed by
what waits is in order, and complete while nothing was lost), and instantiated
with the map it gives `DataInOrder` and `NothingLost` without another look at
the threads.

**IdleTimerProofs.** That only idle sessions are closed is about two clocks that
are read at different times. `TimerInv` relates them: an age of n seconds means
more than n - 1 whole ones in ticks (`Behind`), both for the age as it is and for
what `onTimer` has read of it, unless a poll has the lock and is about to store
the time; and `LockHeld` excludes that while `onTimer` decides. Theorems:
`TimerInvariant`, `IdleClosed`.

**PollBodyProofs.** `PollInv`: the block holds what the reads gave (`BlockHeld`),
and a poll that reads on is below the threshold (`Gathered`), so that one that
has stopped is at most a chunk beyond it. Theorems: `PollInvariant`,
`BlocksFreed`, `BodiesBounded`, and `BytesFollow`, for which the lemmas
`BytesAppend` and `BytesTail` say what the fold of a queue becomes.

**ProcessProofs.** `ProcessInv`: who has the log's mutex is writing a line and
continues the last one begun (`OneWriter`), and what is destroyed is destroyed by
the exit, while a thread that found the log open finds it open until then
(`DestroyedAtExit`). Theorems: `ProcessInvariant`, `LinesAreWhole`,
`ServingIsSafe`.

**FrontEndProofs.** `FrontEndInv` adds to the two properties that a session that
is up has a backend and that `errno` is `ERANGE` only after a POST whose body
was not read: without it the static string of an earlier POST could be served in
place of one that arrived. Theorems: `FrontEndInvariant`, `BackendsSuit`,
`ExactlyOnce`.

The codec, in the same module. `CodecInv` has two parts. `Fits` bounds what is
written by the place in the argument: three bytes for each one read by
`url_encode`, one by `url_decode`; with it `InBounds` holds for any string.
`Follows` is for a text that was encoded: `Spells` says that the output is, byte
by byte, the encoding of what was read, where the encoding of the k-th byte
begins at its `Offset`, k - 1 and twice the number of escapes before it. While
decoding, what was written is the beginning of the text and `pos` is the `Offset`
of the byte that comes next, so that the decoder never stands inside an escape,
and takes each of the three forms for what it is (`EncodedForm`, `OrOfDigits`).
Theorems: `CodecInvariant`, `DecodeUndoes`, `CodecInBounds`.

**UuidProofs.** `ClockInv`: the sequence has advanced once for every id since the
watched one. If the two are equal, their low 8 bits and the 6 above agree, and a
number of ids that leaves both alone is a multiple of 2^14 (`RoundsApart`, for any
base). `NullInv` says in addition that an id carries the bits of its variant, or
is the cleared one of a call that failed. `TextInv` says that the fields of an id
are in their widths (`Fields`): the version and the variant, which are added above
the 12 bits of `time_hi` and the 6 of `clock_seq_hi`, do not overflow them. Ids
outside `Fields` would lose digits; for those inside, `HoldsDigits` shows that two,
four and eight digits exhaust a number of that width, whatever the base, and
`ReadBack` that a number which is exhausted is read back from its digits. The
rest is where the digits are: `Laid` collects the parts of a concatenation with
their offsets, of the 16 bytes for `PackUnpack` and of the 36 characters for
`ParseUnparse`, which also shows that there is a dash at the four places and
nowhere else, and that the four digits of the clock sequence, printed as two
bytes and read as one number, come apart again (`HighLow`). Theorems:
`ClockInvariant`, `IdsRepeatLate`, `NullTells`, `TextNames`.

The library's theorems on induction take a predicate as a parameter, which the
installed provers cannot instantiate. Where induction is needed (the walk of
`size`, folds, digits) it is done with a set: the least element of the set of
counterexamples, which the well-foundedness of the naturals gives (`LeastNat`).

**Only model-checked.** Liveness (`ProduceReturns`, `ConnectAnswered`,
`SlotReclaimed`, `PostDrained`, `AbandonedClosed`), which is out of the prover's
reach. Every invariant and every action property that a passing run checks, and
both refinements, are proved.

## 5. What is not modelled

* The text of responses (JSON, the callback), base64 beyond its size, and
  msgpack, which the program passes on unread. The README of the repository
  (lines 56-57) shows a poll's body as `{sid, data}`; the code sends the bare
  base64.
* `Response`, `http`, `Env`: formatting of headers and look-up of environment
  variables, without state. FrontEnd has the status codes and what of the
  environment decides anything.
* `uuid_compare` and `uuid_copy`, which nothing in the program calls, and the
  branches of `uuid` for macOS.
* The numbers `main` reads from the environment are the constants
  `max_clients_` and `timeout_`; values that `strtol` makes no sense of are not.
* A clock that is set while a session is idle; how long `getaddrinfo` takes; the
  address that `uv_ip4_addr` makes of a host name.
* `malloc` in the copies of `tcp_buffer_t`, which is not checked and ends the
  process when it fails; that copies own their memory is taken for granted.
* `onAlloc` and `onWrite` of Loop allocate and free a buffer, no more.
* Weak memory models, and the races on `last_access_`, a `time_t` that both
  threads write: any value written is a recent time.

The hazards of `PROJECT.json` that no property covers are among these, each with
the reason in its note.

## 6. Findings

* `frontend_post` (`WholePostAccepted`): `getQueryString` compares `errno` with
  `ERANGE` without clearing it before `strtol`. Once a `Content-Length` was out
  of range, and until some other call sets `errno`, no body is read: POSTs are
  served from the static string, and their messages are lost. The README of the
  repository (lines 46-50) gives a POST as the way to send a message.
* `process_exit` (`StorageLockHolds`): `ClientStorage::lock` asserts that the
  lock can be taken. After `FCGI_Accept` failed, `exit()` destroys the lock
  while the libuv thread runs on, and its next timer fails the assertion.
* `poll_max` (`BodyWithinMax`): the comment at `DATA_THRESHOLD`
  (`linear_fcgi_server.cc`, line 185) calls it the maximum size of a response
  body. The size is tested after a chunk was appended, and before base64, so
  bodies are longer. `BodyBounded` is the bound that holds.

Where the code does not do what a comment or a test suggests, without harm to
the program: the unit test of `Request` (lines 253-254) expects no session id for a method that is
neither GET nor POST, which holds only until a POST was read (`getQueryString`
returns its static string), but `Server::run` answers 405 and uses nothing of it.

A POST without a body is served from the static string like one that is not
read: the message of the POST before it can be accepted twice. No line of the
repository says what such a POST is for; `ExactlyOnceIfWhole` excludes it by name.

`LeaksOnlyWhenGone` names the one path on which `onPoll` leaks its block: a
session that goes after the poll has read something (`linear_fcgi_server.cc`,
line 195).

The causes named in `FaultCauses` are reachable, though no line of the
repository speaks of them: after a `connect` that gave up waiting, the late
callback sets `FAIL_CONNECT` over `DISCONNECTING`, and the timer closes a handle
that is closing or about to be; after `uv_tcp_init` failed, the timer closes a
handle that was never initialised; and a `WRITE` request queued before the
backend hung up may be consumed after the client was deleted. A connect request
with a `sid` looks up an empty id and is answered 410 (`linear_fcgi_server.cc`,
line 126).

## 7. Plan

Done: the queue with its refinement and proofs, the bridge with its invariant,
its refinement of the sessions and their proofs, the front end, the codec, polls
in bytes, the idle timeout, the ids and the process, each with its inductive
invariant proved. What code is left formats text or declares; nothing of it
changes state. Of the properties that the passing runs check, liveness alone is
left to TLC.

Next: the hazards that no property covers, where the model can be extended to
meet them.
