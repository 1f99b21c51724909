------------------------------ MODULE IdleTimer ------------------------------
(***************************************************************************)
(* The idle timeout with real time, which Bridge leaves open: which        *)
(* sessions onTimer finds too long idle.  One session that is up, its      *)
(* browser, and other requests that hold the storage lock for as long as   *)
(* they like.  Time passes in ticks, and goes on while a lock is held;     *)
(* time(NULL) counts whole seconds.  The clock is not set meanwhile.       *)
(***************************************************************************)
EXTENDS Naturals

CONSTANTS timeout_,  \* in seconds
          SECOND     \* ticks per second

ASSUME TimerAssumption ==
    /\ timeout_ \in Nat \ {0}
    /\ SECOND \in Nat \ {0}

(* Beyond these ages nothing changes any more. *)
MaxSeconds == timeout_ + 1
MaxTicks == SECOND * MaxSeconds

VARIABLES
    tick,    \* of the current second
    age,     \* time(NULL) - last_access_, up to MaxSeconds
    idle,    \* ticks since a poll last got the storage lock, up to MaxTicks
    lock_,   \* who holds the storage lock: none, main, loop
    pc,      \* the FastCGI thread: idle, poll, read, other
    lpc,     \* the libuv thread: idle, due, locked, decide
    past,    \* onTimer's local variable
    state_,  \* CONNECTED or DISCONNECTING
    left     \* the browser has gone for good

vars == <<tick, age, idle, lock_, pc, lpc, past, state_, left>>

CapAt(m, n) == IF n > m THEN m ELSE n

-----------------------------------------------------------------------------
(* Mutated forms of the operations below. *)

(* last_access_ is set only when the queue held something. *)
Mut_OnlyWithData(empty) == IF empty THEN age ELSE 0

(* The operands are swapped: no age is ever positive. *)
Mut_Swapped == 0

-----------------------------------------------------------------------------
(* Time passes; a second is over when its ticks are. *)
Tick ==
    /\ tick' = (tick + 1) % SECOND
    /\ age' = CapAt(MaxSeconds, age + (IF tick' = 0 THEN 1 ELSE 0))
    /\ idle' = CapAt(MaxTicks, idle + 1)
    /\ UNCHANGED <<lock_, pc, lpc, past, state_, left>>

(* The browser polls: client_storage_.lock(). *)
Server_onPoll ==
    /\ ~left
    /\ pc = "idle"
    /\ lock_ = "none"
    /\ lock_' = "main"
    /\ pc' = "poll"
    /\ idle' = 0
    /\ UNCHANGED <<tick, age, lpc, past, state_, left>>

(* Client::read stores the time, whether it finds a chunk or not. *)
Accessed(empty) == 0

Client_read(empty) ==
    /\ pc = "poll"
    /\ age' = IF state_ = "CONNECTED" THEN Accessed(empty) ELSE age
    /\ pc' = IF state_ = "CONNECTED" /\ ~empty THEN "poll" ELSE "read"
    /\ UNCHANGED <<tick, idle, lock_, lpc, past, state_, left>>

(* client_storage_.unlock(); and any other request. *)
Unlock ==
    /\ pc \in {"read", "other"}
    /\ lock_' = "none"
    /\ pc' = "idle"
    /\ UNCHANGED <<tick, age, idle, lpc, past, state_, left>>

OtherRequest ==
    /\ pc = "idle"
    /\ lock_ = "none"
    /\ lock_' = "main"
    /\ pc' = "other"
    /\ UNCHANGED <<tick, age, idle, lpc, past, state_, left>>

BrowserLeaves ==
    /\ left' = TRUE
    /\ UNCHANGED <<tick, age, idle, lock_, pc, lpc, past, state_>>

-----------------------------------------------------------------------------
(* uv_timer_start(..., 1000, 1000), at any moment of a second. *)
TimerDue ==
    /\ lpc = "idle"
    /\ lpc' = "due"
    /\ UNCHANGED <<tick, age, idle, lock_, pc, past, state_, left>>

(* Loop::onTimer: client_storage.lock() ... *)
Loop_onTimer ==
    /\ lpc = "due"
    /\ lock_ = "none"
    /\ lock_' = "loop"
    /\ lpc' = "locked"
    /\ UNCHANGED <<tick, age, idle, pc, past, state_, left>>

(* ... time_t past = time(NULL) - last_access_, before the client's lock ... *)
Past == age

ReadPast ==
    /\ lpc = "locked"
    /\ past' = Past
    /\ lpc' = "decide"
    /\ UNCHANGED <<tick, age, idle, lock_, pc, state_, left>>

(* ... and the decision under it. *)
Client_onTimer ==
    /\ lpc = "decide"
    /\ state_' = IF past >= timeout_ THEN "DISCONNECTING" ELSE state_
    /\ lock_' = "none"
    /\ lpc' = "idle"
    /\ UNCHANGED <<tick, age, idle, pc, past, left>>

Init ==
    /\ tick \in 0..(SECOND - 1)
    /\ age = 0 /\ idle = 0
    /\ lock_ = "none" /\ pc = "idle" /\ lpc = "idle"
    /\ past = 0
    /\ state_ = "CONNECTED"
    /\ left = FALSE

Browser == Server_onPoll \/ OtherRequest
Handler == Unlock \/ \E empty \in BOOLEAN : Client_read(empty)
LoopStep == ReadPast \/ Client_onTimer

Next ==
    \/ Tick
    \/ Browser
    \/ Handler
    \/ BrowserLeaves
    \/ TimerDue
    \/ Loop_onTimer
    \/ LoopStep

(* Both threads run, time passes, the timer is due again and again and the *)
(* libuv thread gets the lock in the end.  A poll stops reading, at        *)
(* DATA_THRESHOLD if not before.                                           *)
Fairness ==
    /\ WF_vars(Tick)
    /\ WF_vars(Client_read(TRUE))
    /\ WF_vars(Unlock)
    /\ WF_vars(TimerDue)
    /\ SF_vars(Loop_onTimer)
    /\ WF_vars(LoopStep)

Spec == Init /\ [][Next]_vars
FairSpec == Spec /\ Fairness
-----------------------------------------------------------------------------
(* A browser that polls keeps its session: the timer closes one only if no *)
(* poll got the lock for more than timeout_ seconds less one, the second   *)
(* that counting in whole seconds may cost.  The access time is read       *)
(* without the client's lock, and a poll may be answered at any moment.    *)
OnlyIdleClosed ==
    [][state_ = "CONNECTED" /\ state_' = "DISCONNECTING"
          => idle > (timeout_ - 1) * SECOND]_vars

TypeOK ==
    /\ tick \in 0..(SECOND - 1)
    /\ age \in 0..MaxSeconds
    /\ idle \in 0..MaxTicks
    /\ lock_ \in {"none", "main", "loop"}
    /\ pc \in {"idle", "poll", "read", "other"}
    /\ lpc \in {"idle", "due", "locked", "decide"}
    /\ past \in 0..MaxSeconds
    /\ state_ \in {"CONNECTED", "DISCONNECTING"}
    /\ left \in BOOLEAN

(* Each thread holds the storage lock where it says so: while onTimer      *)
(* decides, no poll is under way.                                          *)
LockHeld ==
    /\ lock_ = "main" <=> pc # "idle"
    /\ lock_ = "loop" <=> lpc \in {"locked", "decide"}

(* The age never runs ahead of the ticks: n seconds that have begun since  *)
(* the access are more than n - 1 whole ones.                              *)
Whole(seconds) == (seconds - 1) * SECOND
Behind(seconds, ticks) == seconds > 0 => idle >= Whole(seconds) + ticks + 1

(* The inductive invariant: unless a poll has the lock and has yet to      *)
(* store the time, the age and what onTimer has read of it are behind the  *)
(* ticks since the last poll.                                              *)
TimerInv ==
    /\ TypeOK
    /\ LockHeld
    /\ state_ = "CONNECTED" /\ pc # "poll" => Behind(age, tick)
    /\ state_ = "CONNECTED" /\ lpc = "decide" => Behind(past, 0)

(* A session whose browser has gone without a disconnect is closed, however *)
(* often other requests take the storage lock.                              *)
AbandonedClosed == left ~> state_ = "DISCONNECTING"
=============================================================================
