------------------------------- MODULE MCUuid -------------------------------
EXTENDS Uuid

(* The last tick before a carry out of time_low, and the first after those *)
(* into time_mid and into time_hi.                                         *)
CarryTimes == {4^8 - 1, 4^8, 4^12}

lo    == [lo |-> TRUE,  family |-> "AF_INET",  hwaddr |-> <<0, 0, 0, 0, 0, 0>>]
eth0  == [lo |-> FALSE, family |-> "AF_INET",  hwaddr |-> <<0, 15, 3, 4, 7, 1>>]
eth1  == [lo |-> FALSE, family |-> "AF_INET",  hwaddr |-> <<0, 15, 3, 5, 0, 1>>]
tun0  == [lo |-> FALSE, family |-> "AF_INET",  hwaddr |-> NoNode]
other == [lo |-> FALSE, family |-> "AF_OTHER", hwaddr |-> <<0, 1, 1, 1, 1, 1>>]

(* Interfaces that go and come between two ids: two nodes, none but a      *)
(* loopback, one without an address first, and one out of reach.           *)
ManyInterfaces == {<<lo, eth0>>, <<other, eth1, eth0>>, <<lo>>, <<tun0, eth1>>,
                   <<lo, other, eth0>>}

(* Seeds around zero, and around a carry into the high bits. *)
MCSeeds == {-2, 14}
=============================================================================
