------------------------------ MODULE UuidClock ------------------------------
(***************************************************************************)
(* uuid_generate: session ids from the time, the node and a clock          *)
(* sequence.  The widths are those of the code, in hexadecimal digits;     *)
(* HEX is 16 there, and smaller here so that the sequence wraps soon.      *)
(*                                                                         *)
(* The time comes from gettimeofday: it may stand still between two ids,   *)
(* and it may be set back.  One id, watched, is picked to be compared with *)
(* all those that follow it.                                               *)
(***************************************************************************)
EXTENDS Integers, SequencesExt

CONSTANTS
    HEX,         \* the base of a digit
    Interfaces,  \* the lists of network interfaces the host may have
    MAX_IFS,     \* how many of them are looked at
    Times,       \* what the clock may show, in units of 100 ns since 1582
    Seeds,       \* what the clock sequence may start from; (char << 8) may be negative
    MaxIds       \* bound: ids generated

ASSUME UuidAssumption ==
    /\ HEX \in Nat /\ HEX > 1 /\ HEX % 2 = 0
    /\ MAX_IFS \in Nat
    /\ Times \subseteq Nat
    /\ Seeds \subseteq Int
    /\ MaxIds \in Nat

BYTE == HEX * HEX     \* 8, 16 and 32 bits
WORD == BYTE * BYTE
LONG == WORD * WORD

NoId == <<>>
NoNode == <<>>
Nodes == [1..6 -> 0..(BYTE - 1)]

ASSUME InterfaceAssumption ==
    \A ifs \in Interfaces :
        ifs \in Seq([lo : BOOLEAN, family : STRING, hwaddr : Nodes \cup {NoNode}])

VARIABLES
    now,            \* gettimeofday
    is_initialized,
    seq,
    last,           \* the caller's uuid_t, in fields
    watched,        \* the id that was picked
    generated,      \* ids generated
    since,          \* ids generated after the watched one
    failed          \* no id could be had by the last call

vars == <<now, is_initialized, seq, last, watched, generated, since, failed>>

(* The caller's object keeps what it held. *)
Mut_NotCleared == last

(* uuid_clear *)
Cleared ==
    [time_low |-> 0, time_mid |-> 0, time_hi_and_version |-> 0,
     clock_seq_hi_and_reserved |-> 0, clock_seq_low |-> 0,
     node |-> [i \in 1..6 |-> 0]]

(* The address of the first IPv4 interface that is not a loopback; NoNode  *)
(* if there is none among the first MAX_IFS, or it cannot be had: then no  *)
(* other is tried.                                                         *)
_uuid_get_node(ifs) ==
    LET listed == SubSeq(ifs, 1, IF Len(ifs) > MAX_IFS THEN MAX_IFS ELSE Len(ifs))
        i == SelectInSeq(listed, LAMBDA f : f.family = "AF_INET" /\ ~f.lo)
    IN  IF i = 0 THEN NoNode ELSE ifs[i].hwaddr

(* The low 8 bits; the 6 bits above them are cut out of a byte. *)
Mut_HighUnshifted(s) ==
    [clock_seq_low |-> s % BYTE, clock_seq_hi |-> s % (BYTE \div 4)]

_uuid_get_clock(s) ==
    [clock_seq_low |-> s % BYTE, clock_seq_hi |-> (s \div BYTE) % (BYTE \div 4)]

_uuid_get_time(t) ==
    [time_low |-> t % LONG,
     time_mid |-> (t \div LONG) % WORD,
     time_hi  |-> (t \div (LONG * WORD)) % (HEX * BYTE)]

(* The version goes above the 12 bits of time_hi, the variant above the 6  *)
(* bits of clock_seq_hi.                                                   *)
_uuid_generate(node, t, s) ==
    LET time == _uuid_get_time(t)
        clock == _uuid_get_clock(s)
    IN  [time_low |-> time.time_low,
         time_mid |-> time.time_mid,
         time_hi_and_version |-> time.time_hi + HEX * BYTE,
         clock_seq_hi_and_reserved |-> clock.clock_seq_hi + BYTE \div 2,
         clock_seq_low |-> clock.clock_seq_low,
         node |-> node]

Init ==
    /\ now \in Times
    /\ is_initialized = FALSE
    /\ seq = 0
    /\ last = NoId
    /\ watched = NoId
    /\ generated = 0
    /\ since = 0
    /\ failed = FALSE

(* Time passes, or the clock is set. *)
Clock ==
    /\ now' \in Times
    /\ UNCHANGED <<is_initialized, seq, last, watched, generated, since, failed>>

(* The sequence is seeded by the first id and advances with each one.      *)
Generate(node) ==
    /\ \/ ~is_initialized /\ seq' \in Seeds
       \/ is_initialized /\ seq' = seq + 1
    /\ is_initialized' = TRUE
    /\ generated' = generated + 1
    /\ last' = _uuid_generate(node, now, seq')
    /\ \/ watched = NoId /\ watched' = last' /\ since' = 0
       \/ watched = NoId /\ UNCHANGED <<watched, since>>
       \/ watched # NoId /\ since' = since + 1 /\ UNCHANGED watched

(* Without a node the clock sequence is left alone, and the id is null.    *)
uuid_generate ==
    /\ generated < MaxIds
    /\ \E ifs \in Interfaces :
          LET node == _uuid_get_node(ifs) IN
          /\ failed' = (node = NoNode)
          /\ \/ node # NoNode /\ Generate(node)
             \/ /\ node = NoNode
                /\ last' = Cleared
                /\ UNCHANGED <<is_initialized, seq, watched, generated, since>>
    /\ UNCHANGED now

Next == Clock \/ uuid_generate

Spec == Init /\ [][Next]_vars
-----------------------------------------------------------------------------
(* The clock sequence alone keeps ids apart: whatever the clock does, an   *)
(* id comes back, if ever, only after a whole number of rounds of all 14   *)
(* bits of the sequence.                                                   *)
RepeatPeriod ==
    watched # NoId /\ since > 0 /\ last = watched
        => since % (BYTE * (BYTE \div 4)) = 0

(* The id carries the clock sequence s. *)
Stamped(id, s) ==
    /\ id.clock_seq_low = _uuid_get_clock(s).clock_seq_low
    /\ id.clock_seq_hi_and_reserved = _uuid_get_clock(s).clock_seq_hi + BYTE \div 2

(* The inductive invariant: the sequence has advanced once for every id    *)
(* since the watched one.                                                  *)
ClockInv ==
    /\ seq \in Int
    /\ since \in Nat
    /\ is_initialized \in BOOLEAN
    /\ watched # NoId => is_initialized
    /\ last \in {NoId, Cleared} \/ Stamped(last, seq)
    /\ watched # NoId => Stamped(watched, seq - since)
=============================================================================
