---------------------------- MODULE ProcessProofs ----------------------------
(***************************************************************************)
(* Proofs about Process, for all levels and however many lines are logged. *)
(* ProcessInv is inductive.  Only WriteLock, WritePart and DestroyMutex    *)
(* touch the log's mutex or its file; all the other steps leave the        *)
(* writers alone, which Untouched says.                                    *)
(***************************************************************************)
EXTENDS Process, SequenceTheorems, TLAPS

USE ProcessAssumption

MainStep ==
    \/ SetupLog \/ Configure \/ NewServer \/ LoopRun
    \/ Serve \/ HandlerLogs \/ Served
    \/ AcceptFails \/ DestroyLoop \/ DestroyClientStorage
    \/ LogDisable

CallbackStep == CallbackLogs \/ WantsLock \/ StorageLock \/ StorageUnlock \/ AsyncFaults

Running == fault = "none" /\ stage # "gone"

LEMMA NextSplit ==
    [Next]_vars => \/ UNCHANGED vars
                   \/ Running /\ MainStep
                   \/ Running /\ DestroyMutex
                   \/ Running /\ CallbackStep
                   \/ \E t \in Thread :
                         \/ Running /\ WriteCheck(t)
                         \/ Running /\ WriteLock(t)
                         \/ Running /\ \E i \in 1..3 : WritePart(t, i)
                         \/ Running /\ WriteFaults(t)
  BY DEF Next, MainStep, CallbackStep, Running

(* log::Print is entered by a thread that is not in it. *)
LEMMA Prints ==
    ASSUME TypeOK, NEW t \in Thread, entry[t] = "none", NEW level \in Int,
           log_Print(t, level)
    PROVE  /\ entry' \in [Thread -> {"none", "check", "lock"} \cup Writing]
           /\ entry'[t] \in {"none", "check"}
           /\ \A u \in Thread \ {t} : entry'[u] = entry[u]
  BY DEF TypeOK, log_Print, Thread

(* What a step of main does to the log and to the destroyed objects. *)
LEMMA MainWrites ==
    ASSUME TypeOK, MainStep
    PROVE  /\ UNCHANGED <<mutex_, file>>
           /\ entry["main"] = "none"
           /\ entry' \in [Thread -> {"none", "check", "lock"} \cup Writing]
           /\ entry'["main"] \in {"none", "check"}
           /\ entry'["loop"] = entry["loop"]
           /\ UNCHANGED <<g_level, fp_>> \/ SetupLog \/ LogDisable
           /\ UNCHANGED lpc \/ LoopRun
           /\ UNCHANGED fault \/ NewServer
  <1> USE DEF Main, log
  <1>1. CASE SetupLog
    BY <1>1 DEF SetupLog, TypeOK
  <1>2. CASE Configure
    BY <1>2, Prints DEF Configure, LOG_ERR, Thread
  <1>3. CASE NewServer
    BY <1>3 DEF NewServer, TypeOK
  <1>4. CASE LoopRun
    BY <1>4 DEF LoopRun, TypeOK
  <1>5. CASE Serve \/ Served
    BY <1>5 DEF Serve, Served, TypeOK
  <1>6. CASE HandlerLogs
    BY <1>6, Prints DEF HandlerLogs, LOG_ERR, LOG_DEBUG, Thread
  <1>7. CASE AcceptFails \/ DestroyLoop \/ DestroyClientStorage
    BY <1>7 DEF AcceptFails, DestroyLoop, DestroyClientStorage, TypeOK
  <1>8. CASE LogDisable
    BY <1>8 DEF LogDisable, TypeOK
  <1> QED
    BY <1>1, <1>2, <1>3, <1>4, <1>5, <1>6, <1>7, <1>8 DEF MainStep

LEMMA CallbackWrites ==
    ASSUME TypeOK, CallbackStep
    PROVE  /\ UNCHANGED <<stage, g_level, fp_, mutex_, file, freed>>
           /\ entry["loop"] = "none"
           /\ entry' \in [Thread -> {"none", "check", "lock"} \cup Writing]
           /\ entry'["loop"] \in {"none", "check"}
           /\ entry'["main"] = entry["main"]
           /\ lpc \in {"idle", "lock", "timer"} /\ lpc' \in {"idle", "lock", "timer"}
  <1> USE DEF Loop, log
  <1>1. CASE CallbackLogs
    BY <1>1, Prints DEF CallbackLogs, LOG_ERR, LOG_DEBUG, Thread
  <1>2. CASE WantsLock \/ StorageLock \/ StorageUnlock \/ AsyncFaults
    BY <1>2 DEF WantsLock, StorageLock, StorageUnlock, AsyncFaults, TypeOK
  <1> QED
    BY <1>1, <1>2 DEF CallbackStep

LEMMA WriterWrites ==
    ASSUME TypeOK, NEW t \in Thread,
           WriteCheck(t) \/ WriteLock(t) \/ (\E i \in 1..3 : WritePart(t, i)) \/ WriteFaults(t)
    PROVE  UNCHANGED <<stage, lpc, g_level, fp_, lock_, freed>>
  BY DEF WriteCheck, WriteLock, WritePart, WriteFaults, log

-----------------------------------------------------------------------------
LEMMA InitProcess == Init => ProcessInv
  <1> SUFFICES ASSUME Init PROVE ProcessInv
    OBVIOUS
  <1>1. TypeOK
    BY DEF Init, TypeOK, Thread, Exit
  <1>2. OneWriter
    BY DEF Init, OneWriter, Thread, Writing
  <1>3. LinesWhole /\ FaultsOnlyAtExit
    BY DEF Init, LinesWhole, FaultsOnlyAtExit
  <1>4. DestroyedAtExit
    BY DEF Init, DestroyedAtExit, Thread, Writing
  <1> QED
    BY <1>1, <1>2, <1>3, <1>4 DEF ProcessInv

LEMMA StepType == TypeOK /\ [Next]_vars => TypeOK'
  <1> SUFFICES ASSUME TypeOK, [Next]_vars PROVE TypeOK'
    OBVIOUS
  <1>1. CASE UNCHANGED vars
    BY <1>1 DEF vars, TypeOK
  <1>2. CASE MainStep
    <2>1. /\ entry' \in [Thread -> {"none", "check", "lock"} \cup Writing]
          /\ UNCHANGED <<mutex_, file>>
      BY <1>2, MainWrites
    <2>2. /\ stage' \in {"setup_log", "config", "server", "run", "serve", "handler"} \cup Exit
          /\ lpc' \in {"none", "idle", "lock", "timer"}
          /\ g_level' \in Int
          /\ fp_' \in {"null", "open"}
      BY <1>2 DEF TypeOK, MainStep, Main, Exit, log, SetupLog, Configure, NewServer,
         LoopRun, Serve, HandlerLogs, Served, AcceptFails, DestroyLoop,
         DestroyClientStorage, LogDisable
    <2>3. /\ lock_' \in {"free", "destroyed"} \cup Thread
          /\ freed' \subseteq {"queue", "map"}
          /\ fault' \in {"none", "config", "null_file", "log_mutex", "storage_lock",
                         "map_freed", "queue_freed"}
      BY <1>2 DEF TypeOK, MainStep, Thread, SetupLog, Configure, NewServer,
         LoopRun, Serve, HandlerLogs, Served, AcceptFails, DestroyLoop,
         DestroyClientStorage, LogDisable
    <2> QED
      BY <2>1, <2>2, <2>3 DEF TypeOK
  <1>3. CASE DestroyMutex
    BY <1>3 DEF DestroyMutex, Main, TypeOK, Exit
  <1>4. CASE CallbackStep
    <2>1. /\ lock_' \in {"free", "destroyed"} \cup Thread
          /\ fault' \in {"none", "config", "null_file", "log_mutex", "storage_lock",
                         "map_freed", "queue_freed"}
      BY <1>4 DEF TypeOK, CallbackStep, Thread, CallbackLogs, WantsLock, StorageLock,
         StorageUnlock, AsyncFaults
    <2> QED
      BY <1>4, <2>1, CallbackWrites DEF TypeOK
  <1>5. ASSUME NEW t \in Thread, WriteCheck(t) PROVE TypeOK'
    BY <1>5 DEF WriteCheck, Checked, log, TypeOK
  <1>6. ASSUME NEW t \in Thread, WriteLock(t) PROVE TypeOK'
    BY <1>6 DEF WriteLock, TypeOK, Writing
  <1>7. ASSUME NEW t \in Thread, NEW i \in 1..3, WritePart(t, i) PROVE TypeOK'
    <2>1. Parts[i] \in Writing /\ (i # 3 => Parts[i + 1] \in Writing)
      BY DEF Parts, Writing
    <2>2. file' \in Seq(Thread \X Writing)
      BY <1>7, <2>1 DEF WritePart, TypeOK
    <2>3. entry' \in [Thread -> {"none", "check", "lock"} \cup Writing]
      BY <1>7, <2>1 DEF WritePart, TypeOK
    <2> QED
      BY <1>7, <2>2, <2>3 DEF WritePart, TypeOK
  <1>8. ASSUME NEW t \in Thread, WriteFaults(t) PROVE TypeOK'
    BY <1>8 DEF WriteFaults, log, TypeOK
  <1> QED
    BY <1>1, <1>2, <1>3, <1>4, <1>5, <1>6, <1>7, <1>8, NextSplit

-----------------------------------------------------------------------------
(* A step that leaves the mutex, the file and the writers alone. *)
Untouched ==
    /\ UNCHANGED <<mutex_, file>>
    /\ stage' # "gone" => stage # "gone"
    /\ \A t \in Thread : \/ entry'[t] = entry[t]
                         \/ entry[t] \notin Writing /\ entry'[t] \notin Writing

LEMMA MostUntouched ==
    ASSUME TypeOK,
           \/ UNCHANGED vars \/ (Running /\ MainStep) \/ (Running /\ CallbackStep)
           \/ \E t \in Thread : Running /\ (WriteCheck(t) \/ WriteFaults(t))
    PROVE  Untouched
  <1> USE DEF Untouched, Running
  <1>0. "none" \notin Writing /\ "check" \notin Writing /\ "lock" \notin Writing
    BY DEF Writing
  <1>1. CASE UNCHANGED vars
    BY <1>1 DEF vars
  <1>2. CASE Running /\ MainStep
    BY <1>0, <1>2, MainWrites DEF Thread
  <1>3. CASE Running /\ CallbackStep
    BY <1>0, <1>3, CallbackWrites DEF Thread
  <1>4. ASSUME NEW t \in Thread, Running, WriteCheck(t) PROVE Untouched
    BY <1>0, <1>4 DEF WriteCheck, Checked, log, TypeOK
  <1>5. ASSUME NEW t \in Thread, Running, WriteFaults(t) PROVE Untouched
    BY <1>5 DEF WriteFaults, log
  <1> QED
    BY <1>1, <1>2, <1>3, <1>4, <1>5

LEMMA UntouchedKeeps ==
    ASSUME OneWriter, LinesWhole, Untouched
    PROVE  OneWriter' /\ LinesWhole'
  <1>1. LinesWhole'
    BY DEF LinesWhole, Untouched
  <1>2. ASSUME stage' # "gone", NEW t \in Thread
        PROVE  /\ (mutex_ = t <=> entry[t] \in Writing)'
               /\ entry'[t] \in Writing => entry'[t] = entry[t]
    BY <1>2 DEF OneWriter, Untouched
  <1>3. OneWriter'
    BY <1>2 DEF OneWriter, Untouched
  <1> QED
    BY <1>1, <1>3

(* The lengths modulo 3, as the number of parts of the last line. *)
LEMMA NextMod ==
    \A n \in Nat :
        \/ n % 3 = 0 /\ (n + 1) % 3 = 1
        \/ n % 3 = 1 /\ (n + 1) % 3 = 2
        \/ n % 3 = 2 /\ (n + 1) % 3 = 0
  OBVIOUS

LEMMA PartsDistinct ==
    /\ Parts[1] = "date" /\ Parts[2] = "level" /\ Parts[3] = "message"
    /\ \A i, j \in 1..3 : Parts[i] = Parts[j] => i = j
    /\ \A i \in 1..3 : Parts[i] \in Writing
  BY DEF Parts, Writing

(* Only one thread writes at a time, and it finishes its line. *)
LEMMA StepWriter ==
    ASSUME TypeOK, OneWriter, LinesWhole, [Next]_vars
    PROVE  OneWriter' /\ LinesWhole'
  <1>1. CASE DestroyMutex
    BY <1>1 DEF DestroyMutex, Main, OneWriter, LinesWhole
  <1>2. ASSUME NEW t \in Thread, Running, WriteLock(t)
        PROVE  OneWriter' /\ LinesWhole'
    <2>1. /\ stage # "gone" /\ entry[t] = "lock" /\ mutex_ = "free" /\ mutex_' = t
          /\ entry' = [entry EXCEPT ![t] = "date"]
          /\ UNCHANGED <<stage, file>>
      BY <1>2 DEF Running, WriteLock
    <2>2. /\ Len(file) % 3 = 0
          /\ \A u \in Thread : entry[u] \notin Writing
      BY <2>1 DEF OneWriter, Thread
    <2>3. \A u \in Thread : entry'[u] \in Writing <=> u = t
      BY <2>1, <2>2 DEF TypeOK, Writing
    <2>4. entry'[t] = "date"
      BY <2>1 DEF TypeOK
    <2>5. OneWriter'
      BY <2>1, <2>2, <2>3, <2>4, PartsDistinct DEF OneWriter, Thread
    <2> QED
      BY <2>1, <2>5 DEF LinesWhole
  <1>3. ASSUME NEW t \in Thread, NEW i \in 1..3, Running, WritePart(t, i)
        PROVE  OneWriter' /\ LinesWhole'
    <2>1. /\ stage # "gone" /\ entry[t] = Parts[i]
          /\ file' = Append(file, <<t, Parts[i]>>)
          /\ entry' = [entry EXCEPT ![t] = IF i = 3 THEN "none" ELSE Parts[i + 1]]
          /\ mutex_' = IF i = 3 THEN "free" ELSE mutex_
          /\ UNCHANGED stage
      BY <1>3 DEF Running, WritePart
    <2>2. PICK n \in Nat : n = Len(file) /\ file \in Seq(Thread \X Writing)
      BY DEF TypeOK
    <2>3. entry[t] \in Writing
      BY <2>1, PartsDistinct
    <2>4. /\ i = (n % 3) + 1 /\ mutex_ = t
          /\ i # 1 => file[n][1] = t
      BY <2>1, <2>2, <2>3, PartsDistinct DEF OneWriter
    <2>5. /\ Len(file') = n + 1
          /\ file'[n + 1] = <<t, Parts[i]>>
          /\ \A j \in 1..n : file'[j] = file[j]
          /\ DOMAIN file = 1..n /\ DOMAIN file' = 1..(n + 1)
      BY <2>1, <2>2, PartsDistinct
    <2>6. \A u \in Thread \ {t} : entry[u] \notin Writing /\ entry'[u] = entry[u]
      BY <2>1, <2>4 DEF OneWriter, TypeOK
    <2>7. entry'[t] = IF i = 3 THEN "none" ELSE Parts[i + 1]
      BY <2>1 DEF TypeOK
    <2>8. OneWriter'
      <3>1. CASE i = 3
        <4>1. (n + 1) % 3 = 0
          BY <2>4, <3>1, NextMod
        <4>2. \A u \in Thread : entry'[u] \notin Writing
          BY <2>6, <2>7, <3>1 DEF Writing
        <4> QED
          BY <2>1, <2>5, <3>1, <4>1, <4>2 DEF OneWriter, Thread
      <3>2. CASE i # 3
        <4>1. (n + 1) % 3 = i /\ i + 1 \in 1..3
          BY <2>4, <3>2, NextMod
        <4>2. entry'[t] = Parts[((n + 1) % 3) + 1] /\ entry'[t] \in Writing
          BY <2>7, <3>2, <4>1, PartsDistinct
        <4>3. \A u \in Thread : entry'[u] \in Writing <=> u = t
          BY <2>6, <4>2
        <4>4. mutex_' = t
          BY <2>1, <2>4, <3>2
        <4>5. Len(file') = n + 1 /\ file'[Len(file')][1] = t
          BY <2>5
        <4> QED
          BY <4>2, <4>3, <4>4, <4>5 DEF OneWriter, Thread
      <3> QED
        BY <3>1, <3>2
    <2>9. LinesWhole'
      <3> SUFFICES ASSUME NEW j \in 1..(n + 1)
                   PROVE  /\ file'[j][2] = Parts[((j - 1) % 3) + 1]
                          /\ file'[j][2] # "date" => file'[j][1] = file'[j - 1][1]
        BY <2>5 DEF LinesWhole
      <3>1. CASE j = n + 1
        <4>1. j - 1 = n /\ file'[j] = <<t, Parts[i]>>
          BY <2>5, <3>1
        <4>2. ASSUME Parts[i] # "date" PROVE file'[n][1] = t
          <5>1. i # 1 /\ n % 3 # 0
            BY <2>4, <4>2, PartsDistinct
          <5>2. n \in 1..n
            BY <5>1
          <5> QED
            BY <2>4, <2>5, <5>1, <5>2
        <4> QED
          BY <2>4, <4>1, <4>2
      <3>2. CASE j # n + 1
        <4>1. j \in 1..n /\ file'[j] = file[j]
          BY <2>5, <3>2
        <4>2. /\ file[j][2] = Parts[((j - 1) % 3) + 1]
              /\ file[j][2] # "date" => file[j][1] = file[j - 1][1]
          BY <2>5, <4>1 DEF LinesWhole
        <4>3. file[j][2] # "date" => j - 1 \in 1..n
          <5>1. CASE j = 1
            BY <4>2, <5>1, PartsDistinct
          <5>2. CASE j # 1
            BY <4>1, <5>2
          <5> QED
            BY <5>1, <5>2
        <4> QED
          BY <2>5, <4>1, <4>2, <4>3
      <3> QED
        BY <3>1, <3>2
    <2> QED
      BY <2>8, <2>9
  <1> QED
    BY <1>1, <1>2, <1>3, NextSplit, MostUntouched, UntouchedKeeps

-----------------------------------------------------------------------------
(* The exit goes one way. *)
LEMMA ExitStays ==
    ASSUME TypeOK, [Next]_vars, stage' \notin Exit
    PROVE  /\ stage \notin Exit
           /\ stage' = "setup_log" => stage = "setup_log"
           /\ stage' = "config" => stage \in {"setup_log", "config"}
           /\ stage' = "server" => stage \in {"config", "server"}
           /\ stage' = "run" => stage \in {"server", "run"}
  <1>1. CASE UNCHANGED stage
    BY <1>1
  <1>2. CASE MainStep
    BY <1>2 DEF MainStep, Main, Exit, SetupLog, Configure, NewServer,
       LoopRun, Serve, HandlerLogs, Served, AcceptFails, DestroyLoop,
       DestroyClientStorage, LogDisable
  <1>3. CASE DestroyMutex
    BY <1>3 DEF DestroyMutex, Main, Exit
  <1> QED
    BY <1>1, <1>2, <1>3, NextSplit, WriterWrites, CallbackWrites DEF vars

LEMMA StepDestroyed ==
    ASSUME TypeOK, DestroyedAtExit, [Next]_vars
    PROVE  DestroyedAtExit'
  <1>1. CASE UNCHANGED vars
    BY <1>1 DEF vars, DestroyedAtExit
  <1>2. CASE DestroyMutex
    BY <1>2 DEF DestroyMutex, Main, DestroyedAtExit, Exit
  <1>3. CASE MainStep
    <2>1. /\ entry'["main"] \in {"none", "check"}
          /\ entry'["loop"] = entry["loop"]
          /\ UNCHANGED <<g_level, fp_>> \/ SetupLog \/ LogDisable
          /\ UNCHANGED lpc \/ LoopRun
      BY <1>3, MainWrites
    <2>2. stage' \in {"setup_log", "config", "server", "run"} => lpc' = "none"
      <3> SUFFICES ASSUME stage' \in {"setup_log", "config", "server", "run"}
                   PROVE  lpc' = "none"
        OBVIOUS
      <3>1. stage \in {"setup_log", "config", "server", "run"}
        BY ExitStays DEF Exit
      <3>2. ~LoopRun
        BY DEF LoopRun, Main
      <3> QED
        BY <2>1, <3>1, <3>2 DEF DestroyedAtExit
    <2>3. lpc' = "none" => entry'["loop"] = "none"
      BY <2>1 DEF DestroyedAtExit, LoopRun, Main
    <2>4. stage' = "setup_log" => entry'["main"] = "none"
      BY <1>3 DEF MainStep, Main, SetupLog, Configure, NewServer,
         LoopRun, Serve, HandlerLogs, Served, AcceptFails, DestroyLoop,
         DestroyClientStorage, LogDisable
    <2>5. ASSUME stage' \notin Exit
          PROVE  /\ \A t \in Thread : entry'[t] \in {"lock"} \cup Writing => fp_' = "open"
                 /\ lock_' # "destroyed"
                 /\ freed' = {}
      <3>1. stage \notin Exit
        BY <2>5, ExitStays
      <3>2. lock_' # "destroyed" /\ freed' = {}
        BY <1>3, <2>5, <3>1 DEF DestroyedAtExit, MainStep, Main, Exit, SetupLog, Configure,
           NewServer, LoopRun, Serve, HandlerLogs, Served, AcceptFails, DestroyLoop,
           DestroyClientStorage, LogDisable
      <3>3. ASSUME NEW t \in Thread, entry'[t] \in {"lock"} \cup Writing PROVE fp_' = "open"
        <4>1. t = "loop" /\ entry["loop"] \in {"lock"} \cup Writing
          BY <2>1, <3>3 DEF Thread, Writing
        <4>2. fp_ = "open"
          BY <3>1, <4>1 DEF DestroyedAtExit, Thread
        <4>3. ~SetupLog
          BY <4>1 DEF SetupLog, Main, DestroyedAtExit, Writing
        <4>4. ~LogDisable
          BY <2>5 DEF LogDisable, Main, Exit
        <4> QED
          BY <2>1, <4>2, <4>3, <4>4
      <3> QED
        BY <3>2, <3>3
    <2> QED
      BY <2>2, <2>3, <2>4, <2>5 DEF DestroyedAtExit
  <1>4. CASE CallbackStep
    <2>1. /\ UNCHANGED <<stage, g_level, fp_, mutex_, file, freed>>
          /\ entry'["loop"] \in {"none", "check"}
          /\ entry'["main"] = entry["main"]
          /\ lpc # "none" /\ lpc' # "none"
      BY <1>4, CallbackWrites
    <2>2. stage \notin Exit => lock_' # "destroyed"
      BY <1>4 DEF DestroyedAtExit, CallbackStep, Loop, CallbackLogs, WantsLock, StorageLock,
         StorageUnlock, AsyncFaults
    <2>3. \A t \in Thread : entry'[t] \in {"lock"} \cup Writing => entry'[t] = entry[t]
      BY <2>1 DEF Thread, Writing
    <2> QED
      BY <2>1, <2>2, <2>3 DEF DestroyedAtExit
  <1>5. ASSUME NEW t \in Thread, WriteCheck(t) PROVE DestroyedAtExit'
    <2>1. /\ UNCHANGED <<stage, lpc, g_level, fp_, lock_, freed>>
          /\ entry[t] = "check" /\ entry' = [entry EXCEPT ![t] = Checked]
      BY <1>5 DEF WriteCheck, log
    <2>2. \A u \in Thread : \/ entry'[u] = entry[u]
                            \/ u = t /\ entry'[u] \in {"none", "lock"}
                               /\ (entry'[u] = "lock" => fp_ = "open")
      BY <2>1 DEF TypeOK, Checked
    <2>3. /\ lpc = "none" => t # "loop"
          /\ stage = "setup_log" => t # "main"
      BY <2>1 DEF DestroyedAtExit
    <2>4. /\ lpc' = "none" => entry'["loop"] = "none"
          /\ stage' = "setup_log" => entry'["main"] = "none"
      BY <2>1, <2>2, <2>3 DEF DestroyedAtExit, Thread
    <2>5. stage \notin Exit =>
             \A u \in Thread : entry'[u] \in {"lock"} \cup Writing => fp_ = "open"
      BY <2>2 DEF DestroyedAtExit, Writing
    <2> QED
      BY <2>1, <2>4, <2>5 DEF DestroyedAtExit
  <1>6. ASSUME NEW t \in Thread, WriteLock(t) \/ \E i \in 1..3 : WritePart(t, i)
        PROVE  DestroyedAtExit'
    <2>1. UNCHANGED <<stage, lpc, g_level, fp_, lock_, freed>>
      BY <1>6, WriterWrites
    <2>2. entry[t] \in {"lock"} \cup Writing
      BY <1>6, PartsDistinct DEF WriteLock, WritePart
    <2>3. \A u \in Thread \ {t} : entry'[u] = entry[u]
      BY <1>6 DEF WriteLock, WritePart, TypeOK
    <2>4. /\ lpc = "none" => t # "loop"
          /\ stage = "setup_log" => t # "main"
      BY <2>2 DEF DestroyedAtExit, Writing
    <2>5. stage \notin Exit => fp_ = "open"
      BY <2>2 DEF DestroyedAtExit
    <2>6. /\ lpc' = "none" => entry'["loop"] = "none"
          /\ stage' = "setup_log" => entry'["main"] = "none"
      BY <2>1, <2>3, <2>4 DEF DestroyedAtExit, Thread
    <2> QED
      BY <2>1, <2>5, <2>6 DEF DestroyedAtExit
  <1>7. ASSUME NEW t \in Thread, WriteFaults(t) PROVE DestroyedAtExit'
    BY <1>7 DEF WriteFaults, log, DestroyedAtExit
  <1> QED
    BY <1>1, <1>2, <1>3, <1>4, <1>5, <1>6, <1>7, NextSplit

(* Before the exit nothing that a thread uses is gone. *)
LEMMA StepFaults ==
    ASSUME TypeOK, OneWriter, DestroyedAtExit, FaultsOnlyAtExit, [Next]_vars
    PROVE  FaultsOnlyAtExit'
  <1> SUFFICES ASSUME stage' \notin Exit PROVE fault' \in {"none", "config"}
    BY DEF FaultsOnlyAtExit
  <1>0. stage \notin Exit /\ fault \in {"none", "config"}
    BY ExitStays DEF FaultsOnlyAtExit
  <1>1. CASE UNCHANGED fault
    BY <1>0, <1>1
  <1>2. CASE NewServer
    BY <1>2 DEF NewServer
  <1>3. CASE DestroyMutex
    BY <1>3 DEF DestroyMutex, Main, Exit
  <1>4. CASE CallbackStep
    BY <1>0, <1>4 DEF DestroyedAtExit, CallbackStep, CallbackLogs, WantsLock, StorageLock,
       StorageUnlock, AsyncFaults
  <1>5. ASSUME NEW t \in Thread, WriteFaults(t) PROVE FALSE
    BY <1>0, <1>5 DEF WriteFaults, DestroyedAtExit, OneWriter, Writing, Exit
  <1>6. ASSUME NEW t \in Thread,
               WriteCheck(t) \/ WriteLock(t) \/ \E i \in 1..3 : WritePart(t, i)
        PROVE  UNCHANGED fault
    BY <1>6 DEF WriteCheck, WriteLock, WritePart
  <1> QED
    BY <1>1, <1>2, <1>3, <1>4, <1>5, <1>6, NextSplit, MainWrites DEF vars

-----------------------------------------------------------------------------
(* The invariant: one thread has the log's mutex and continues its own     *)
(* line; nothing is destroyed before the exit.                             *)
THEOREM ProcessInvariant == Spec => []ProcessInv
  <1>1. ProcessInv /\ [Next]_vars => ProcessInv'
    BY StepType, StepWriter, StepDestroyed, StepFaults DEF ProcessInv
  <1> QED
    BY <1>1, InitProcess, PTL DEF Spec

(* Log::Write keeps the lines of the two threads whole, for any number of  *)
(* lines.                                                                  *)
THEOREM LinesAreWhole == Spec => []LinesWhole
  <1>1. ProcessInv => LinesWhole
    BY DEF ProcessInv
  <1> QED
    BY <1>1, ProcessInvariant, PTL

(* Until main leaves Server::run, neither thread uses the log file, a      *)
(* lock, the map or the queue when it is not there.                        *)
THEOREM ServingIsSafe == Spec => []FaultsOnlyAtExit
  <1>1. ProcessInv => FaultsOnlyAtExit
    BY DEF ProcessInv
  <1> QED
    BY <1>1, ProcessInvariant, PTL

=============================================================================
