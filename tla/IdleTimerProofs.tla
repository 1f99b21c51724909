--------------------------- MODULE IdleTimerProofs ---------------------------
(***************************************************************************)
(* Proofs about IdleTimer, for every timeout and however finely time is    *)
(* divided.  TimerInv is inductive.  The products of SECOND are set apart  *)
(* in a few lemmas, and the steps use them as numbers.                     *)
(***************************************************************************)
EXTENDS IdleTimer, TLAPS

USE TimerAssumption

LEMMA WholeType == \A n \in Nat \ {0} : Whole(n) \in Nat
  BY DEF Whole

LEMMA WholeNext == \A n \in Nat \ {0} : Whole(n + 1) = Whole(n) + SECOND
  BY DEF Whole

LEMMA WholeFirst == Whole(1) = 0
  BY DEF Whole

LEMMA WholeMax == MaxTicks \in Nat /\ MaxTicks = Whole(MaxSeconds) + SECOND
  BY DEF Whole, MaxTicks, MaxSeconds

LEMMA NextTick ==
    \A t \in 0..(SECOND - 1) :
        \/ (t + 1) % SECOND = t + 1 /\ t + 1 < SECOND
        \/ (t + 1) % SECOND = 0 /\ t = SECOND - 1
  OBVIOUS

LEMMA WholeMonotone == \A m, n \in Nat \ {0} : m <= n => Whole(m) <= Whole(n)
  <1> SUFFICES ASSUME NEW m \in Nat \ {0}, NEW n \in Nat \ {0}, m <= n
               PROVE  Whole(m) <= Whole(n)
    OBVIOUS
  <1>1. PICK d \in Nat : n = m + d
    BY n - m \in Nat, n = m + (n - m)
  <1>2. Whole(n) = Whole(m) + d * SECOND
    BY <1>1 DEF Whole
  <1>3. d * SECOND \in Nat /\ Whole(m) \in Nat
    BY WholeType
  <1> QED
    BY <1>2, <1>3

LEMMA InitTimer == Init => TimerInv
  <1> SUFFICES ASSUME Init PROVE TimerInv
    OBVIOUS
  <1>0. 0 \in 0..MaxSeconds /\ 0 \in 0..MaxTicks
    BY WholeMax DEF MaxSeconds
  <1>1. TypeOK
    BY <1>0 DEF Init, TypeOK
  <1>2. LockHeld
    BY DEF Init, LockHeld
  <1>3. Behind(age, tick) /\ Behind(past, 0)
    BY DEF Init, Behind
  <1> QED
    BY <1>1, <1>2, <1>3 DEF TimerInv

(* Time passes: a second begins, or goes on. *)
LEMMA TickTimer == TimerInv /\ Tick => TimerInv'
  <1> SUFFICES ASSUME TimerInv, Tick PROVE TimerInv'
    OBVIOUS
  <1>1. /\ tick \in 0..(SECOND - 1) /\ age \in 0..MaxSeconds /\ idle \in 0..MaxTicks
        /\ past \in 0..MaxSeconds
        /\ MaxSeconds \in Nat \ {0} /\ MaxTicks \in Nat
    BY WholeMax DEF TimerInv, TypeOK, MaxSeconds
  <1>2. /\ tick' \in 0..(SECOND - 1)
        /\ \/ tick' = tick + 1 /\ tick' # 0
           \/ tick' = 0 /\ tick = SECOND - 1
    BY <1>1, NextTick DEF Tick
  <1>3. /\ age' \in 0..MaxSeconds
        /\ \/ age' = age
           \/ tick' = 0 /\ age' = age + 1
        /\ tick' = 0 /\ age' = age => age = MaxSeconds
    BY <1>1, <1>2 DEF Tick, CapAt
  <1>4. /\ idle' \in 0..MaxTicks
        /\ idle' = idle + 1 \/ (idle' = idle /\ idle = MaxTicks)
    BY <1>1 DEF Tick, CapAt
  <1>5. TypeOK' /\ LockHeld'
    BY <1>2, <1>3, <1>4 DEF Tick, TimerInv, TypeOK, LockHeld
  <1>6. ASSUME Behind(age, tick) PROVE Behind(age, tick)'
    <2>1. CASE age' = 0
      BY <2>1 DEF Behind
    <2>2. CASE age' # 0
      <3>1. PICK w \in Nat : w = Whole(age')
        BY <1>3, <2>2, WholeType
      <3>2. w <= Whole(MaxSeconds)
        BY <1>1, <1>3, <2>2, <3>1, WholeMonotone
      <3>3. w + SECOND <= MaxTicks
        <4>1. PICK v \in Nat : v = Whole(MaxSeconds)
          BY <1>1, WholeType
        <4> QED
          BY <3>2, <4>1, WholeMax
      <3>4. CASE age' = age
        <4>1. idle >= w + tick + 1
          BY <1>1, <1>6, <2>2, <3>1, <3>4 DEF Behind
        <4>2. PICK i \in Nat, j \in Nat, t \in Nat, u \in Nat :
                  i = idle /\ j = idle' /\ t = tick /\ u = tick'
          BY <1>1, <1>2, <1>4
        <4>3. j >= w + u + 1
          <5>1. u <= SECOND - 1 /\ (u = t + 1 \/ u = 0) /\ i >= w + t + 1
            BY <1>2, <4>1, <4>2
          <5>2. CASE j = i + 1
            BY <5>1, <5>2
          <5>3. CASE j = i /\ i = MaxTicks
            BY <3>3, <5>1, <5>3, WholeMax
          <5> QED
            BY <1>4, <4>2, <5>2, <5>3
        <4> QED
          BY <3>1, <4>2, <4>3 DEF Behind
      <3>5. CASE tick' = 0 /\ age' = age + 1 /\ age = 0
        BY <1>1, <1>4, <3>3, <3>5, WholeFirst DEF Behind
      <3>6. CASE tick' = 0 /\ age' = age + 1 /\ age # 0
        <4>1. PICK v \in Nat : v = Whole(age)
          BY <1>1, <3>6, WholeType
        <4>2. w = v + SECOND
          BY <1>1, <3>1, <3>6, <4>1, WholeNext
        <4>3. idle >= v + tick + 1
          BY <1>1, <1>6, <3>6, <4>1 DEF Behind
        <4>4. idle' >= w + tick' + 1
          BY <1>1, <1>2, <1>3, <1>4, <3>3, <3>6, <4>2, <4>3
        <4> QED
          BY <3>1, <4>4 DEF Behind
      <3> QED
        BY <1>3, <3>4, <3>5, <3>6
    <2> QED
      BY <2>1, <2>2
  <1>7. ASSUME Behind(past, 0) PROVE Behind(past, 0)'
    <2>1. past' = past
      BY DEF Tick
    <2>2. CASE past = 0
      BY <2>1, <2>2 DEF Behind
    <2>3. CASE past # 0
      <3>1. PICK w \in Nat : w = Whole(past)
        BY <1>1, <2>3, WholeType
      <3> QED
        BY <1>1, <1>4, <1>7, <2>1, <3>1 DEF Behind
    <2> QED
      BY <2>2, <2>3
  <1> QED
    BY <1>5, <1>6, <1>7 DEF TimerInv, Tick

(* The steps that leave the clock alone. *)
LEMMA StepTimer == TimerInv /\ [Next]_vars /\ ~Tick => TimerInv'
  <1> SUFFICES ASSUME TimerInv, [Next]_vars, ~Tick PROVE TimerInv'
    OBVIOUS
  <1> USE DEF TimerInv
  <1>0. 0 \in 0..MaxSeconds /\ 0 \in 0..MaxTicks
    BY WholeMax DEF MaxSeconds
  <1>1. CASE UNCHANGED vars
    BY <1>1 DEF vars, TypeOK, LockHeld, Behind
  <1>2. CASE Server_onPoll
    BY <1>0, <1>2 DEF Server_onPoll, TypeOK, LockHeld
  <1>3. CASE OtherRequest
    BY <1>3 DEF OtherRequest, TypeOK, LockHeld, Behind
  <1>4. ASSUME NEW empty \in BOOLEAN, Client_read(empty) PROVE TimerInv'
    <2>1. TypeOK' /\ LockHeld'
      BY <1>0, <1>4 DEF Client_read, Accessed, TypeOK, LockHeld
    <2>2. state_' = "CONNECTED" => Behind(age, tick)'
      BY <1>4 DEF Client_read, Accessed, Behind
    <2>3. lpc # "decide" /\ lpc' = lpc
      BY <1>4 DEF Client_read, LockHeld
    <2> QED
      BY <2>1, <2>2, <2>3
  <1>5. CASE Unlock
    BY <1>5 DEF Unlock, TypeOK, LockHeld, Behind
  <1>6. CASE BrowserLeaves
    BY <1>6 DEF BrowserLeaves, TypeOK, LockHeld, Behind
  <1>7. CASE TimerDue
    BY <1>7 DEF TimerDue, TypeOK, LockHeld, Behind
  <1>8. CASE Loop_onTimer
    BY <1>8 DEF Loop_onTimer, TypeOK, LockHeld, Behind
  <1>9. CASE ReadPast
    <2>1. TypeOK' /\ LockHeld' /\ pc = "idle"
      BY <1>9 DEF ReadPast, Past, TypeOK, LockHeld
    <2>2. past' = age /\ UNCHANGED <<tick, age, idle, pc, state_>>
      BY <1>9 DEF ReadPast, Past
    <2>3. Behind(age, tick) => Behind(age, tick)' /\ Behind(past, 0)'
      <3>1. CASE age = 0
        BY <2>2, <3>1 DEF Behind
      <3>2. CASE age # 0
        <4>1. age \in Nat \ {0} /\ tick \in Nat /\ idle \in Nat
          BY <3>2, WholeMax DEF TypeOK, MaxSeconds
        <4>2. PICK w \in Nat : w = Whole(age)
          BY <4>1, WholeType
        <4> QED
          BY <2>2, <4>1, <4>2 DEF Behind
      <3> QED
        BY <3>1, <3>2
    <2> QED
      BY <2>1, <2>2, <2>3
  <1>10. CASE Client_onTimer
    <2>1. TypeOK' /\ LockHeld' /\ lpc' = "idle"
      BY <1>10 DEF Client_onTimer, TypeOK, LockHeld
    <2> QED
      BY <1>10, <2>1 DEF Client_onTimer, TypeOK, Behind
  <1> QED
    BY <1>1, <1>2, <1>3, <1>4, <1>5, <1>6, <1>7, <1>8, <1>9, <1>10
       DEF Next, Browser, Handler, LoopStep

(* The invariant: who holds the storage lock, and that neither the age nor *)
(* what onTimer has read of it runs ahead of the time since the last poll. *)
THEOREM TimerInvariant == Spec => []TimerInv
  <1>1. TimerInv /\ [Next]_vars => TimerInv'
    BY TickTimer, StepTimer
  <1> QED
    BY <1>1, InitTimer, PTL DEF Spec

(* Only a session that no poll reached for more than timeout_ - 1 seconds  *)
(* is closed by Loop::onTimer, whatever the timeout, although it reads     *)
(* last_access_ in whole seconds and before it takes the client's lock.    *)
THEOREM IdleClosed == Spec => OnlyIdleClosed
  <1>1. ASSUME TimerInv, [Next]_vars, state_ = "CONNECTED", state_' = "DISCONNECTING"
        PROVE  idle > (timeout_ - 1) * SECOND
    <2>1. Client_onTimer
      BY <1>1 DEF Next, vars, Browser, Handler, LoopStep, Tick, Server_onPoll,
         OtherRequest, Client_read, Unlock, BrowserLeaves, TimerDue, Loop_onTimer,
         ReadPast
    <2>2. lpc = "decide" /\ past >= timeout_
      BY <1>1, <2>1 DEF Client_onTimer
    <2>3. past \in Nat \ {0} /\ idle \in Nat
      BY <1>1, <2>2, WholeMax DEF TimerInv, TypeOK, MaxSeconds
    <2>4. PICK v \in Nat, w \in Nat : v = Whole(timeout_) /\ w = Whole(past)
      BY <2>3, WholeType
    <2>5. v <= w
      BY <2>2, <2>3, <2>4, WholeMonotone
    <2>6. idle >= w + 1
      BY <1>1, <2>2, <2>3, <2>4 DEF TimerInv, Behind
    <2>7. idle > v
      BY <2>3, <2>5, <2>6
    <2> QED
      BY <2>4, <2>7 DEF Whole
  <1>2. TimerInv /\ [Next]_vars
            => [state_ = "CONNECTED" /\ state_' = "DISCONNECTING"
                   => idle > (timeout_ - 1) * SECOND]_vars
    BY <1>1
  <1> QED
    BY <1>2, TimerInvariant, PTL DEF Spec, OnlyIdleClosed

=============================================================================
