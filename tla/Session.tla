------------------------------ MODULE Session -------------------------------
(***************************************************************************)
(* What linear-fcgi promises for its sessions, with no threads, locks or   *)
(* requests in it: a session occupies one of Capacity places until it is   *)
(* over, goes through its phases in one direction, and carries data both   *)
(* ways in order, without duplicates, and while it is up and memory lasts  *)
(* without loss.                                                           *)
(***************************************************************************)
EXTENDS Naturals, Sequences, FiniteSets

CONSTANTS
    Sid,        \* sessions
    Capacity    \* places

VARIABLES
    phase,      \* of each session: new, connecting, up, down or over
    told,       \* the sessions that browsers know of
    arrived,    \* pieces of data that the backend has sent
    inbox,      \* those that wait for a poll
    polled,     \* those that polls were answered with
    lost,       \* the sessions that lost data for want of memory
    posted,     \* pieces of data that the browser has posted
    outbox,     \* those that wait to be written
    written     \* those that the backend was sent

downward == <<arrived, inbox, polled, lost>>
upward == <<posted, outbox, written>>
vars == <<phase, told, downward, upward>>

InUse == {s \in Sid : phase[s] \in {"connecting", "up", "down"}}
Drop(seq, n) == SubSeq(seq, n + 1, Len(seq))

Init ==
    /\ phase = [s \in Sid |-> "new"]
    /\ told = {}
    /\ arrived = [s \in Sid |-> 0]
    /\ inbox = [s \in Sid |-> <<>>]
    /\ polled = [s \in Sid |-> <<>>]
    /\ lost = {}
    /\ posted = [s \in Sid |-> 0]
    /\ outbox = [s \in Sid |-> <<>>]
    /\ written = [s \in Sid |-> <<>>]

Connect(s) ==
    /\ phase[s] = "new"
    /\ Cardinality(InUse) < Capacity
    /\ phase' = [phase EXCEPT ![s] = "connecting"]
    /\ UNCHANGED <<told, downward, upward>>

Establish(s) ==
    /\ phase[s] = "connecting"
    /\ phase' = [phase EXCEPT ![s] = "up"]
    /\ UNCHANGED <<told, downward, upward>>

(* A browser is told of a session only while it is up. *)
Tell(s) ==
    /\ phase[s] = "up"
    /\ told' = told \cup {s}
    /\ UNCHANGED <<phase, downward, upward>>

(* Sessions fail to connect, are disconnected, or time out. *)
Lose(S) ==
    /\ \A s \in S : phase[s] \in {"connecting", "up"}
    /\ phase' = [s \in Sid |-> IF s \in S THEN "down" ELSE phase[s]]
    /\ UNCHANGED <<told, downward, upward>>

(* Its place is free again, and what was not delivered is gone. *)
Reclaim(s) ==
    /\ phase[s] = "down"
    /\ phase' = [phase EXCEPT ![s] = "over"]
    /\ inbox' = [inbox EXCEPT ![s] = <<>>]
    /\ outbox' = [outbox EXCEPT ![s] = <<>>]
    /\ UNCHANGED <<told, arrived, polled, lost, posted, written>>

(* Data is numbered in the order in which it comes. *)
Arrive(s) ==
    /\ phase[s] \in {"up", "down"}
    /\ arrived' = [arrived EXCEPT ![s] = @ + 1]
    /\ \/ inbox' = [inbox EXCEPT ![s] = Append(@, arrived[s] + 1)] /\ UNCHANGED lost
       \/ lost' = lost \cup {s} /\ UNCHANGED inbox
    /\ UNCHANGED <<phase, told, polled, upward>>

(* A poll is answered with the n oldest pieces ... *)
Poll(s, n) ==
    /\ s \in told
    /\ polled' = [polled EXCEPT ![s] = @ \o SubSeq(inbox[s], 1, n)]
    /\ inbox' = [inbox EXCEPT ![s] = Drop(@, n)]
    /\ UNCHANGED <<phase, told, arrived, lost, upward>>

(* ... or fails, and they are lost. *)
PollFails(s, n) ==
    /\ s \in told
    /\ \/ phase[s] = "down" /\ UNCHANGED lost
       \/ lost' = lost \cup {s}
    /\ inbox' = [inbox EXCEPT ![s] = Drop(@, n)]
    /\ UNCHANGED <<phase, told, arrived, polled, upward>>

Post(s) ==
    /\ s \in told
    /\ phase[s] \in {"up", "down"}
    /\ posted' = [posted EXCEPT ![s] = @ + 1]
    /\ outbox' = [outbox EXCEPT ![s] = Append(@, posted[s] + 1)]
    /\ UNCHANGED <<phase, told, downward, written>>

(* The backend is sent the oldest piece, or the piece is thrown away: it   *)
(* makes no sense, or the connection does not take it.                     *)
Write(s) ==
    /\ outbox[s] # <<>>
    /\ outbox' = [outbox EXCEPT ![s] = Tail(@)]
    /\ \/ written' = [written EXCEPT ![s] = Append(@, Head(outbox[s]))]
       \/ UNCHANGED written
    /\ UNCHANGED <<phase, told, downward, posted>>

Next ==
    \/ \E S \in SUBSET Sid : Lose(S)
    \/ \E s \in Sid :
          \/ Connect(s) \/ Establish(s) \/ Tell(s) \/ Reclaim(s)
          \/ Arrive(s) \/ Post(s) \/ Write(s)
          \/ \E n \in 0..Len(inbox[s]) : Poll(s, n) \/ PollFails(s, n)

Spec == Init /\ [][Next]_vars
-----------------------------------------------------------------------------
(* What follows for the data.  A sequence of pieces, numbered up to n, in  *)
(* order and without duplicates:                                           *)
Ordered(seq, n) ==
    /\ \A i \in DOMAIN seq : seq[i] \in 1..n
    /\ \A i, j \in DOMAIN seq : i < j => seq[i] < seq[j]

Types ==
    /\ phase \in [Sid -> {"new", "connecting", "up", "down", "over"}]
    /\ told \subseteq Sid
    /\ lost \subseteq Sid
    /\ arrived \in [Sid -> Nat] /\ posted \in [Sid -> Nat]
    /\ inbox \in [Sid -> Seq(Nat)] /\ polled \in [Sid -> Seq(Nat)]
    /\ outbox \in [Sid -> Seq(Nat)] /\ written \in [Sid -> Seq(Nat)]

(* Nothing happens on a session before it is up. *)
Quiet ==
    \A s \in Sid :
        phase[s] \in {"new", "connecting"} =>
            /\ s \notin told
            /\ arrived[s] = 0
            /\ polled[s] = <<>> /\ inbox[s] = <<>>

(* What was delivered, followed by what waits, is in order. *)
InOrder ==
    \A s \in Sid :
        /\ Ordered(polled[s] \o inbox[s], arrived[s])
        /\ Ordered(written[s] \o outbox[s], posted[s])

(* While a session is up and memory lasts, nothing that arrived is missing. *)
Complete ==
    \A s \in Sid \ lost :
        phase[s] = "up" => polled[s] \o inbox[s] = [i \in 1..arrived[s] |-> i]

SessionInv == Types /\ Quiet /\ InOrder /\ Complete
=============================================================================
