------------------------------ MODULE UrlCodec ------------------------------
(***************************************************************************)
(* urlendecode.c: url_encode and url_decode over C strings of bytes.  A    *)
(* string is the sequence of its bytes before the terminating zero.  A     *)
(* step is one round of the loop.  A text is encoded, as a browser does,   *)
(* and what comes out is decoded; or url_decode gets any string at all.    *)
(***************************************************************************)
EXTENDS Integers, Sequences, SequencesExt

CONSTANTS Byte,   \* the bytes texts are made of
          MaxLen  \* bound: the length of a text

ASSUME CodecAssumption ==
    /\ Byte \subseteq 1..255
    /\ MaxLen \in Nat

VARIABLES
    text,  \* what was encoded, or NoText
    fn,    \* the function that runs, or "done"
    str,   \* its argument
    pos,   \* pstr, as an index of str
    top,   \* the highest index of str that was read
    buf,   \* the bytes written so far
    size   \* of the block that buf points to

codecVars == <<text, fn, str, pos, top, buf, size>>

NoText == <<0>>

(* A byte of str, or the zero at its end. *)
At(i) == IF i <= Len(str) THEN str[i] ELSE 0

isdigit(ch) == ch \in 48..57
isalnum(ch) == isdigit(ch) \/ ch \in 65..90 \/ ch \in 97..122

(* Both are bytes: char arithmetic wraps. *)
from_hex(ch) ==
    IF isdigit(ch) THEN ch - 48
    ELSE IF ch \in 65..90 THEN ch + 32 - 97 + 10
    ELSE (ch + 256 - 97 + 10) % 256

(* The bits of m and of n, both bytes. *)
ByteOr(m, n) ==
    LET bit(w) == IF (m \div w) % 2 = 1 \/ (n \div w) % 2 = 1 THEN w ELSE 0
    IN  bit(1) + bit(2) + bit(4) + bit(8) + bit(16) + bit(32) + bit(64) + bit(128)

-----------------------------------------------------------------------------
(* Mutated forms of the operations below. *)

(* hex[code], without & 15. *)
Mut_Unmasked(code) == IF code < 10 THEN 48 + code ELSE 97 + code - 10

(* pstr[2] is tested before pstr[1]. *)
Mut_SecondFirst(i) == i + 2

-----------------------------------------------------------------------------
(* What a byte is as a char, which is signed; >> 4 keeps the sign. *)
Signed(ch) == IF ch < 128 THEN ch ELSE ch - 256

(* hex[code & 15] *)
to_hex(code) == LET d == code % 16 IN IF d < 10 THEN 48 + d ELSE 97 + d - 10

Unreserved(ch) == isalnum(ch) \/ ch \in {45, 46, 95}      \* - . _

Encoded(ch) ==
    IF Unreserved(ch) THEN <<ch>>
    ELSE IF ch = 32 THEN <<43>>
    ELSE <<37, to_hex(Signed(ch) \div 16), to_hex(Signed(ch) % 16)>>

url_encode ==
    /\ fn = "encode"
    /\ At(pos) # 0
    /\ buf' = buf \o Encoded(At(pos))
    /\ top' = pos
    /\ pos' = pos + 1
    /\ UNCHANGED <<text, fn, str, size>>

(* *pbuf = '\0'; url_decode(buf) is called on the result. *)
EncodeReturns ==
    /\ fn = "encode"
    /\ At(pos) = 0
    /\ fn' = "decode"
    /\ str' = buf
    /\ pos' = 1 /\ top' = 0
    /\ buf' = <<>>
    /\ size' = Len(buf) + 1
    /\ UNCHANGED text

(* pstr[1] && pstr[2] stops at the first zero. *)
Peeked(i) == IF At(i + 1) # 0 THEN i + 2 ELSE i + 1

DecodeEscape ==
    /\ fn = "decode"
    /\ At(pos) = 37
    /\ top' = Peeked(pos)
    /\ \/ /\ At(pos + 1) # 0 /\ At(pos + 2) # 0
          /\ buf' = Append(buf, ByteOr((from_hex(At(pos + 1)) * 16) % 256, from_hex(At(pos + 2))))
          /\ pos' = pos + 3
       \/ /\ At(pos + 1) = 0 \/ At(pos + 2) = 0
          /\ buf' = buf
          /\ pos' = pos + 1
    /\ UNCHANGED <<text, fn, str, size>>

DecodeOther ==
    /\ fn = "decode"
    /\ At(pos) \notin {0, 37}
    /\ buf' = Append(buf, IF At(pos) = 43 THEN 32 ELSE At(pos))
    /\ top' = pos
    /\ pos' = pos + 1
    /\ UNCHANGED <<text, fn, str, size>>

DecodeReturns ==
    /\ fn = "decode"
    /\ At(pos) = 0
    /\ fn' = "done"
    /\ UNCHANGED <<text, str, pos, top, buf, size>>

Done == fn = "done" /\ UNCHANGED codecVars

CodecInit ==
    /\ str \in BoundedSeq(Byte, MaxLen)
    /\ pos = 1 /\ top = 0
    /\ buf = <<>>
    /\ \/ fn = "encode" /\ text = str /\ size = 3 * Len(str) + 1
       \/ fn = "decode" /\ text = NoText /\ size = Len(str) + 1

CodecNext ==
    \/ url_encode
    \/ EncodeReturns
    \/ DecodeEscape
    \/ DecodeOther
    \/ DecodeReturns
    \/ Done

CodecSpec == CodecInit /\ [][CodecNext]_codecVars
-----------------------------------------------------------------------------
(* Decoding undoes encoding, for bytes above 127 as well, whose sign the   *)
(* shifts of url_encode extend.                                            *)
RoundTrip == fn = "done" /\ text # NoText => buf = text

(* Whatever the string, nothing beyond its terminating zero is read, also  *)
(* when it ends within an escape, and the result and its zero fit in the   *)
(* block that was allocated.                                               *)
InBounds ==
    /\ pos <= Len(str) + 1
    /\ top <= Len(str) + 1
    /\ Len(buf) < size
=============================================================================
