-------------------------------- MODULE Uuid --------------------------------
(***************************************************************************)
(* The forms of an id: the fields of _uuid_t, the 16 bytes of uuid_t and   *)
(* the 36 characters that browsers see.                                    *)
(***************************************************************************)
EXTENDS UuidClock

DASH == -1      \* '-'; any other character is a digit

(* n as k digits, the most significant one first; and back. *)
InBase(base, n, k) ==
    LET shifted[j \in 0..k] == IF j = 0 THEN n ELSE shifted[j - 1] \div base
    IN  [i \in 1..k |-> shifted[k - i] % base]
Number(base, s) ==
    LET read[j \in 0..Len(s)] == IF j = 0 THEN 0 ELSE read[j - 1] * base + s[j]
    IN  read[Len(s)]

-----------------------------------------------------------------------------
(* Mutated forms of the operations below. *)

(* The clock sequence is printed without its leading zero. *)
Mut_ShortClock(u) ==
    InBase(HEX, u.time_low, 8) \o <<DASH>>
        \o InBase(HEX, u.time_mid, 4) \o <<DASH>>
        \o InBase(HEX, u.time_hi_and_version, 4) \o <<DASH>>
        \o InBase(HEX, u.clock_seq_hi_and_reserved, 2)
        \o (IF u.clock_seq_low < HEX THEN <<u.clock_seq_low>>
            ELSE InBase(HEX, u.clock_seq_low, 2)) \o <<DASH>>
        \o FlattenSeq([i \in 1..6 |-> InBase(HEX, u.node[i], 2)])

-----------------------------------------------------------------------------
_uuid_pack(u) ==
    InBase(BYTE, u.time_low, 4)
        \o InBase(BYTE, u.time_mid, 2)
        \o InBase(BYTE, u.time_hi_and_version, 2)
        \o <<u.clock_seq_hi_and_reserved, u.clock_seq_low>>
        \o u.node

_uuid_unpack(b) ==
    [time_low |-> Number(BYTE, SubSeq(b, 1, 4)),
     time_mid |-> Number(BYTE, SubSeq(b, 5, 6)),
     time_hi_and_version |-> Number(BYTE, SubSeq(b, 7, 8)),
     clock_seq_hi_and_reserved |-> b[9],
     clock_seq_low |-> b[10],
     node |-> SubSeq(b, 11, 16)]

_uuid_unparse(u) ==
    InBase(HEX, u.time_low, 8) \o <<DASH>>
        \o InBase(HEX, u.time_mid, 4) \o <<DASH>>
        \o InBase(HEX, u.time_hi_and_version, 4) \o <<DASH>>
        \o InBase(HEX, u.clock_seq_hi_and_reserved, 2)
        \o InBase(HEX, u.clock_seq_low, 2) \o <<DASH>>
        \o FlattenSeq([i \in 1..6 |-> InBase(HEX, u.node[i], 2)])

(* NoId if the string does not start with the form of an id. *)
_uuid_parse(s) ==
    LET clock == Number(HEX, SubSeq(s, 20, 23)) IN
    IF Len(s) >= 36 /\ \A i \in 1..36 : s[i] = DASH <=> i \in {9, 14, 19, 24}
    THEN [time_low |-> Number(HEX, SubSeq(s, 1, 8)),
          time_mid |-> Number(HEX, SubSeq(s, 10, 13)),
          time_hi_and_version |-> Number(HEX, SubSeq(s, 15, 18)),
          clock_seq_hi_and_reserved |-> clock \div BYTE,
          clock_seq_low |-> clock % BYTE,
          node |-> [i \in 1..6 |-> Number(HEX, SubSeq(s, 23 + 2*i, 24 + 2*i))]]
    ELSE NoId

uuid_unparse(b) == _uuid_unparse(_uuid_unpack(b))
uuid_parse(s) == LET u == _uuid_parse(s) IN IF u = NoId THEN NoId ELSE _uuid_pack(u)

uuid_is_null(b) == \A i \in DOMAIN b : b[i] = 0
-----------------------------------------------------------------------------
(* The string that a browser is given names the id it was made from, and   *)
(* no other: packing loses nothing, and reading the string back gives the  *)
(* same bytes.                                                             *)
TextIdentifies ==
    last # NoId =>
        /\ _uuid_unpack(_uuid_pack(last)) = last
        /\ _uuid_parse(_uuid_unparse(last)) = last
        /\ uuid_parse(uuid_unparse(_uuid_pack(last))) = _uuid_pack(last)

(* uuid.c: "when fail to generate, out is nul object. so, check with       *)
(* uuid_is_null after generate", and onConnect does: whatever the          *)
(* interfaces, the clock and the caller's object, the id is null exactly   *)
(* when none could be had.                                                 *)
NullIffFailed ==
    last # NoId => (uuid_is_null(_uuid_pack(last)) <=> failed)

(* An id is the null one, or has the bits of the variant. *)
Marked(id) ==
    /\ id.clock_seq_hi_and_reserved \in Nat \ {0}
    /\ id.node \in Nodes

(* The inductive invariant behind it. *)
NullInv ==
    /\ ClockInv
    /\ failed \in BOOLEAN
    /\ last = NoId \/ (IF failed THEN last = Cleared ELSE Marked(last))
=============================================================================
