------------------------------- MODULE Process -------------------------------
(***************************************************************************)
(* The process around the sessions: start-up in main(), the log that both  *)
(* threads write, and the exit, which destroys Loop, ClientStorage and Log *)
(* one after the other while the libuv thread is still running: nothing    *)
(* stops or joins it.                                                      *)
(***************************************************************************)
EXTENDS Integers, Sequences

CONSTANTS
    Levels,   \* what LINEAR_FCGI_LOG_LEVEL may be; LOG_ERR is 1, LOG_DEBUG 4
    MaxLines  \* bound: log lines

ASSUME ProcessAssumption == Levels \subseteq Int /\ MaxLines \in Nat

VARIABLES
    stage,     \* where the main thread is
    lpc,       \* where the libuv thread is: none, idle, lock, timer
    g_level,
    fp_,       \* null or open
    mutex_,    \* the log's mutex: free, main, loop, destroyed
    entry,     \* where each thread is in log::Print
    file,      \* what was written: parts of lines, with the thread
    lock_,     \* the storage lock: free, main, loop, destroyed
    freed,     \* what the destructors have freed: queue, map
    fault      \* none, or how the process died

vars == <<stage, lpc, g_level, fp_, mutex_, entry, file, lock_, freed, fault>>
log == <<g_level, fp_, mutex_, file>>

Thread == {"main", "loop"}
LOG_ERR == 1
LOG_DEBUG == 4
Parts == <<"date", "level", "message">>

(* The stages after Server::run has returned, or main has. *)
Exit == {"~Loop", "~ClientStorage", "~Log", "mutex_destroy", "gone"}

-----------------------------------------------------------------------------
(* Mutated forms of the operations below. *)

(* Log::Write does not lock. *)
Mut_NoMutex(t) ==
    /\ entry[t] = "lock"
    /\ entry' = [entry EXCEPT ![t] = "date"]
    /\ UNCHANGED <<stage, lpc, log, lock_, freed, fault>>

(* Log::Write does not look at fp_. *)
Mut_Unchecked == "lock"

-----------------------------------------------------------------------------
(* log::Print: a line above the level is dropped. *)
log_Print(t, level) ==
    entry' = [entry EXCEPT ![t] = IF g_level < level THEN "none" ELSE "check"]

(* Log::Write looks at fp_ before it locks ... *)
Checked == IF fp_ = "null" THEN "none" ELSE "lock"

WriteCheck(t) ==
    /\ entry[t] = "check"
    /\ entry' = [entry EXCEPT ![t] = Checked]
    /\ UNCHANGED <<stage, lpc, log, lock_, freed, fault>>

WriteLock(t) ==
    /\ entry[t] = "lock"
    /\ mutex_ = "free"
    /\ mutex_' = t
    /\ entry' = [entry EXCEPT ![t] = "date"]
    /\ UNCHANGED <<stage, lpc, g_level, fp_, file, lock_, freed, fault>>

(* ... and writes three parts, the last followed by fflush and unlock. *)
WritePart(t, i) ==
    /\ entry[t] = Parts[i]
    /\ fp_ = "open"
    /\ file' = Append(file, <<t, Parts[i]>>)
    /\ entry' = [entry EXCEPT ![t] = IF i = 3 THEN "none" ELSE Parts[i + 1]]
    /\ mutex_' = IF i = 3 THEN "free" ELSE mutex_
    /\ UNCHANGED <<stage, lpc, g_level, fp_, lock_, freed, fault>>

(* fprintf with NULL, or uv_mutex_lock, which aborts, on what was destroyed. *)
WriteFaults(t) ==
    /\ \/ entry[t] \in {"date", "level", "message"} /\ fp_ = "null" /\ fault' = "null_file"
       \/ entry[t] = "lock" /\ mutex_ = "destroyed" /\ fault' = "log_mutex"
    /\ UNCHANGED <<stage, lpc, log, entry, lock_, freed>>

-----------------------------------------------------------------------------
(* A step of main, from one stage to the next, outside log::Print. *)
Main(from, to) ==
    /\ stage = from
    /\ entry["main"] = "none"
    /\ stage' = to

(* setup_log: with a file name, the level is set and the file opened; if   *)
(* that fails, or without a name, fp_ is NULL.                             *)
SetupLog ==
    /\ Main("setup_log", "config")
    /\ \/ UNCHANGED <<g_level, fp_>>
       \/ g_level' \in Levels /\ fp_' \in {"null", "open"}
    /\ UNCHANGED <<lpc, mutex_, entry, file, lock_, freed, fault>>

(* main: without a configuration it logs that and returns ... *)
Configure ==
    /\ \/ Main("config", "~Log")
       \/ Main("config", "server")
    /\ log_Print("main", LOG_ERR)
    /\ UNCHANGED <<lpc, log, lock_, freed, fault>>

(* ... and with one that cannot be parsed the assertion fails. *)
NewServer ==
    /\ Main("server", "run")
    /\ lock_' = "free"
    /\ fault' \in {"none", "config"}
    /\ UNCHANGED <<lpc, log, entry, freed>>

(* Server::run: Loop::run starts the libuv thread; if it cannot, the       *)
(* return value that says so is ignored.                                   *)
LoopRun ==
    /\ Main("run", "serve")
    /\ lpc' \in {"none", "idle"}
    /\ UNCHANGED <<log, entry, lock_, freed, fault>>

(* A request is served under the storage lock, and may log. *)
Serve ==
    /\ Main("serve", "handler")
    /\ lock_ = "free"
    /\ lock_' = "main"
    /\ UNCHANGED <<lpc, log, entry, freed, fault>>

HandlerLogs ==
    /\ Main("handler", "handler")
    /\ Len(file) < 3 * MaxLines
    /\ \E level \in LOG_ERR..LOG_DEBUG : log_Print("main", level)
    /\ UNCHANGED <<lpc, log, lock_, freed, fault>>

Served ==
    /\ Main("handler", "serve")
    /\ lock_' = "free"
    /\ UNCHANGED <<lpc, log, entry, freed, fault>>

(* FCGI_Accept() < 0: run returns, ~Server frees the configuration. *)
AcceptFails ==
    /\ Main("serve", "~Loop")
    /\ UNCHANGED <<lpc, log, entry, lock_, freed, fault>>

(* exit() destroys the statics, the youngest first: Loop with its queue,   *)
(* ClientStorage with its map and its lock, unless that is held ...        *)
DestroyLoop ==
    /\ Main("~Loop", "~ClientStorage")
    /\ freed' = freed \cup {"queue"}
    /\ UNCHANGED <<lpc, log, entry, lock_, fault>>

DestroyClientStorage ==
    /\ Main("~ClientStorage", "~Log")
    /\ lock_' = IF lock_ = "free" THEN "destroyed" ELSE lock_
    /\ freed' = freed \cup {"map"}
    /\ UNCHANGED <<lpc, log, entry, fault>>

(* ... and Log: Disable(), and uv_mutex_destroy, which aborts when the     *)
(* mutex is held.                                                          *)
LogDisable ==
    /\ Main("~Log", "mutex_destroy")
    /\ mutex_ = "free"
    /\ fp_' = "null"
    /\ UNCHANGED <<lpc, g_level, mutex_, entry, file, lock_, freed, fault>>

DestroyMutex ==
    /\ Main("mutex_destroy", "gone")
    /\ fault' = IF mutex_ = "free" THEN "none" ELSE "log_mutex"
    /\ mutex_' = "destroyed"
    /\ UNCHANGED <<lpc, g_level, fp_, entry, file, lock_, freed>>

-----------------------------------------------------------------------------
(* A step of the libuv thread, outside log::Print. *)
Loop(from, to) ==
    /\ lpc = from
    /\ entry["loop"] = "none"
    /\ lpc' = to
    /\ UNCHANGED <<stage, log, freed>>

(* Any callback logs, under the storage lock or not. *)
CallbackLogs ==
    /\ \E at \in {"idle", "timer"} : Loop(at, at)
    /\ Len(file) < 3 * MaxLines
    /\ \E level \in LOG_ERR..LOG_DEBUG : log_Print("loop", level)
    /\ UNCHANGED <<lock_, fault>>

(* onTimer and onDisconnect: client_storage.lock() ... *)
WantsLock ==
    /\ Loop("idle", "lock")
    /\ UNCHANGED <<entry, lock_, fault>>

(* ... assert(pthread_mutex_lock(&lock_) == 0): a destroyed mutex gives    *)
(* EINVAL ...                                                              *)
StorageLock ==
    /\ Loop("lock", "timer")
    /\ \/ lock_ = "free" /\ lock_' = "loop" /\ UNCHANGED fault
       \/ lock_ = "destroyed" /\ fault' = "storage_lock" /\ UNCHANGED lock_
    /\ UNCHANGED entry

(* ... and the map is walked. *)
StorageUnlock ==
    /\ Loop("timer", "idle")
    /\ lock_' = "free"
    /\ fault' = IF "map" \in freed THEN "map_freed" ELSE "none"
    /\ UNCHANGED entry

(* onAsync reads the nodes of a queue that was freed. *)
AsyncFaults ==
    /\ Loop("idle", "idle")
    /\ "queue" \in freed
    /\ fault' = "queue_freed"
    /\ UNCHANGED <<entry, lock_>>

Init ==
    /\ stage = "setup_log"
    /\ lpc = "none"
    /\ g_level = 0
    /\ fp_ = "null"
    /\ mutex_ = "free"
    /\ entry = [t \in Thread |-> "none"]
    /\ file = <<>>
    /\ lock_ = "free"
    /\ freed = {}
    /\ fault = "none"

Next ==
    \/ /\ fault = "none" /\ stage # "gone"
       /\ \/ SetupLog \/ Configure \/ NewServer \/ LoopRun
          \/ Serve \/ HandlerLogs \/ Served
          \/ AcceptFails \/ DestroyLoop \/ DestroyClientStorage
          \/ LogDisable \/ DestroyMutex
          \/ CallbackLogs \/ WantsLock \/ StorageLock \/ StorageUnlock \/ AsyncFaults
          \/ \E t \in Thread :
                \/ WriteCheck(t)
                \/ WriteLock(t)
                \/ \E i \in 1..3 : WritePart(t, i)
                \/ WriteFaults(t)
    \/ (fault # "none" \/ stage = "gone") /\ UNCHANGED vars

Spec == Init /\ [][Next]_vars
-----------------------------------------------------------------------------
(* Log lines of the two threads are not mixed: each date is followed by a  *)
(* level and a message of the same thread, however late a thread is.       *)
LinesWhole ==
    \A i \in DOMAIN file :
        /\ file[i][2] = Parts[((i - 1) % 3) + 1]
        /\ file[i][2] # "date" => file[i][1] = file[i - 1][1]

(* While requests are served, neither thread uses what is not there: a log *)
(* file that could not be opened, a lock, the map or a queue that was      *)
(* destroyed.  Only the exit can do that.                                  *)
FaultsOnlyAtExit == fault \in {"none", "config"} \/ stage \in Exit

Writing == {"date", "level", "message"}

TypeOK ==
    /\ stage \in {"setup_log", "config", "server", "run", "serve", "handler"} \cup Exit
    /\ lpc \in {"none", "idle", "lock", "timer"}
    /\ g_level \in Int
    /\ fp_ \in {"null", "open"}
    /\ mutex_ \in {"free", "destroyed"} \cup Thread
    /\ entry \in [Thread -> {"none", "check", "lock"} \cup Writing]
    /\ file \in Seq(Thread \X Writing)
    /\ lock_ \in {"free", "destroyed"} \cup Thread
    /\ freed \subseteq {"queue", "map"}
    /\ fault \in {"none", "config", "null_file", "log_mutex", "storage_lock",
                  "map_freed", "queue_freed"}

(* Until the mutex is destroyed, who has it is writing a line, and         *)
(* continues the last one that was begun.                                  *)
OneWriter ==
    stage # "gone" =>
        /\ mutex_ # "destroyed"
        /\ \A t \in Thread : mutex_ = t <=> entry[t] \in Writing
        /\ mutex_ = "free" => Len(file) % 3 = 0
        /\ \A t \in Thread :
              entry[t] \in Writing =>
                  /\ entry[t] = Parts[(Len(file) % 3) + 1]
                  /\ entry[t] # "date" => file[Len(file)][1] = t

(* The libuv thread starts after the log is set up; a thread that has      *)
(* found fp_ open finds it open until ~Log; and what is destroyed is       *)
(* destroyed by the exit.                                                  *)
DestroyedAtExit ==
    /\ stage \in {"setup_log", "config", "server", "run"} => lpc = "none"
    /\ lpc = "none" => entry["loop"] = "none"
    /\ stage = "setup_log" => entry["main"] = "none"
    /\ stage \notin Exit =>
          /\ \A t \in Thread : entry[t] \in {"lock"} \cup Writing => fp_ = "open"
          /\ lock_ # "destroyed"
          /\ freed = {}

(* The inductive invariant. *)
ProcessInv == TypeOK /\ OneWriter /\ LinesWhole /\ DestroyedAtExit /\ FaultsOnlyAtExit

-----------------------------------------------------------------------------
(* linear_fcgi_client_storage.cc: assert(pthread_mutex_lock(&lock_) == 0), *)
(* the storage lock can always be taken.                                   *)
StorageLockHolds == fault # "storage_lock"
=============================================================================
