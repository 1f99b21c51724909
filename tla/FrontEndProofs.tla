--------------------------- MODULE FrontEndProofs ---------------------------
(***************************************************************************)
(* Proofs about FrontEnd, for every configuration of resources, every set  *)
(* of requests and any number of sessions; and about UrlCodec, which the   *)
(* query strings go through, for texts of any bytes and of any length.     *)
(* FrontEndInv and CodecInv are inductive.                                 *)
(***************************************************************************)
EXTENDS FrontEnd, UrlCodec,
        FiniteSetTheorems, SequenceTheorems, WellFoundedInduction, TLAPS

LEMMA LenType == Len(Resources) \in Nat
  BY FrontEndAssumption

(* The least of some natural numbers. *)
LEMMA MinNat ==
    ASSUME NEW S, S \subseteq Nat, S # {}
    PROVE  Min(S) \in S /\ \A n \in S : Min(S) <= n
  <1>1. \A x, y \in Nat : y < x => <<y, x>> \in OpToRel(<, Nat)
    BY DEF OpToRel
  <1>2. \E R : IsWellFoundedOn(R, Nat) /\ \A x, y \in Nat : y < x => <<y, x>> \in R
    BY <1>1, NatLessThanWellFounded, Zenon
  <1>3. PICK R : IsWellFoundedOn(R, Nat) /\ \A x, y \in Nat : y < x => <<y, x>> \in R
    BY <1>2
  <1>4. PICK x \in S : \A y \in S : ~(<<y, x>> \in R)
    BY <1>3, WFMin
  <1>5. ASSUME NEW y \in S PROVE x <= y
    <2>1. x \in Nat /\ y \in Nat
      OBVIOUS
    <2>2. ~(y < x)
      BY <1>3, <1>4, <2>1
    <2> QED
      BY <2>1, <2>2
  <1> QED
    BY <1>5 DEF Min

(* Server::getBackend: what it returns is the first resource whose key     *)
(* matches, and suits.                                                     *)
LEMMA BackendFirst ==
    ASSUME NEW channel, NEW origin, getBackend(channel, origin) # 0
    PROVE  LET b == getBackend(channel, origin) IN
           /\ b \in 1..Len(Resources)
           /\ channel \in Resources[b].key
           /\ Resources[b].proto # "websocket"
           /\ isAllowOrigin(origin, Resources[b].origins)
           /\ \A i \in 1..(b - 1) : channel \notin Resources[i].key
  <1> DEFINE I == {i \in 1..Len(Resources) : channel \in Resources[i].key}
             first == SelectInSeq(Resources, LAMBDA r : channel \in r.key)
  <1>1. first = IF I # {} THEN Min(I) ELSE 0
    BY DEF SelectInSeq
  <1>2. /\ getBackend(channel, origin) = first
        /\ first # 0
        /\ Resources[first].proto # "websocket"
        /\ isAllowOrigin(origin, Resources[first].origins)
    BY DEF getBackend
  <1> HIDE DEF first
  <1>3. I \subseteq Nat
    BY LenType
  <1> HIDE DEF I
  <1>4. first \in I /\ \A i \in I : first <= i
    BY <1>1, <1>2, <1>3, MinNat
  <1>5. ASSUME NEW i \in 1..(first - 1) PROVE channel \notin Resources[i].key
    <2>1. first \in 1..Len(Resources) /\ i \in 1..Len(Resources) /\ ~(first <= i)
      <3>1. PICK n \in Nat : n = Len(Resources)
        BY LenType
      <3>2. first \in 1..n
        BY <1>4, <3>1 DEF I
      <3> QED
        BY <3>1, <3>2
    <2> QED
      BY <1>4, <2>1 DEF I
  <1> QED
    BY <1>2, <1>4, <1>5 DEF I

-----------------------------------------------------------------------------
LEMMA InitFrontEnd == Init => FrontEndInv
  <1> SUFFICES ASSUME Init PROVE FrontEndInv
    OBVIOUS
  <1>1. 0 \in 0..Len(Resources)
    BY LenType
  <1>2. TypeOK
    BY <1>1 DEF Init, TypeOK
  <1>3. BackendSuits
    BY DEF Init, BackendSuits
  <1>4. ExactlyOnceIfWhole
    BY DEF Init, ExactlyOnceIfWhole
  <1> QED
    BY <1>2, <1>3, <1>4 DEF Init, FrontEndInv

(* What BackendSuits says of one session. *)
Suits(s) ==
    backend[s] # 0 =>
        LET channel == Find(asked[s].query, "ch")
            origin == asked[s].origin
            b == Resources[backend[s]]
        IN  /\ channel \in b.key
            /\ b.proto # "websocket"
            /\ b.origins = NULL \/ origin \in b.origins \/ origin = ""
            /\ \A i \in 1..(backend[s] - 1) : channel \notin Resources[i].key

LEMMA SuitsAll == BackendSuits <=> \A s \in Sid : Suits(s)
  BY DEF BackendSuits, Suits

(* A step that makes at most the session s, for a request r to its backend. *)
Makes(s, r) ==
    LET b == getBackend(Find(r.query, "ch"), r.origin) IN
    /\ b # 0
    /\ asked' = [asked EXCEPT ![s] = r]
    /\ backend' = [backend EXCEPT ![s] = b]
    /\ up' = up \/ up' = up \cup {s}

(* The three ways in which a step changes the sessions. *)
LEMMA SessionChanges ==
    ASSUME TypeOK, Next
    PROVE  \/ UNCHANGED <<backend, asked>> /\ up' \subseteq up
           \/ \E s \in Sid : SessionEnds(s)
           \/ \E s \in Sid, r \in Requests : Makes(s, r)
  <1>1. ASSUME NEW r \in Requests, NEW arrives, Serve(r, arrives)
        PROVE  \/ UNCHANGED <<backend, asked>> /\ up' \subseteq up
               \/ \E s \in Sid : Makes(s, r)
    <2>1. ASSUME NEW q, Server_onDisconnect(q) \/ Server_onPoll(q)
                        \/ Server_onPost(q, r.origin) \/ UNCHANGED sessions
          PROVE  UNCHANGED <<backend, asked>> /\ up' \subseteq up
      BY <2>1 DEF Server_onDisconnect, Server_onPoll, Server_onPost, sessions
    <2>2. ASSUME r.method = "GET", Server_onConnect(getQueryString(r), r)
          PROVE  \/ UNCHANGED <<backend, asked>> /\ up' \subseteq up
                 \/ \E s \in Sid : Makes(s, r)
      <3>1. getQueryString(r) = r.query
        BY <2>2 DEF getQueryString
      <3>2. Server_onConnect(r.query, r)
        BY <2>2, <3>1
      <3> QED
        BY <3>2, ZenonT(30) DEF Server_onConnect, Makes, sessions
    <2> QED
      BY <1>1, <2>1, <2>2 DEF Serve, sessions
  <1>2. CASE OtherError
    BY <1>2 DEF OtherError, sessions
  <1> QED
    BY <1>1, <1>2 DEF Next

(* Sessions are in the map while they are up, with the backend that suits. *)
LEMMA StepSessions ==
    ASSUME FrontEndInv, [Next]_vars
    PROVE  /\ backend' \in [Sid -> 0..Len(Resources)]
           /\ up' \subseteq Sid
           /\ DOMAIN asked' = Sid
           /\ \A s \in up' : backend'[s] # 0
           /\ BackendSuits'
  <1>0. /\ backend \in [Sid -> 0..Len(Resources)] /\ up \subseteq Sid
        /\ DOMAIN asked = Sid /\ \A s \in up : backend[s] # 0
        /\ \A s \in Sid : Suits(s)
    BY SuitsAll DEF FrontEndInv, TypeOK
  <1>1. BackendSuits' <=> \A s \in Sid : Suits(s)'
    BY DEF BackendSuits, Suits
  <1>2. CASE UNCHANGED <<backend, asked>> /\ up' \subseteq up
    BY <1>0, <1>1, <1>2 DEF Suits
  <1>3. ASSUME NEW s \in Sid, SessionEnds(s)
        PROVE  /\ backend' \in [Sid -> 0..Len(Resources)]
               /\ up' \subseteq Sid
               /\ DOMAIN asked' = Sid
               /\ \A u \in up' : backend'[u] # 0
               /\ BackendSuits'
    <2>1. /\ up' = up \ {s} /\ UNCHANGED asked
          /\ backend' = [backend EXCEPT ![s] = IF s \in up THEN backend[s] ELSE 0]
      BY <1>3 DEF SessionEnds
    <2>2. \A u \in Sid : backend'[u] = backend[u] \/ (u = s /\ backend'[u] = 0)
      BY <1>0, <2>1
    <2>3. \A u \in Sid \ {s} : backend'[u] = backend[u]
      BY <1>0, <2>1
    <2>4. 0 \in 0..Len(Resources)
      BY LenType
    <2>5. backend' \in [Sid -> 0..Len(Resources)]
      BY <1>0, <2>1, <2>4
    <2>6. \A u \in Sid : Suits(u)'
      BY <1>0, <2>1, <2>2, ZenonT(30) DEF Suits
    <2> QED
      BY <1>0, <1>1, <2>1, <2>3, <2>5, <2>6
  <1>4. ASSUME NEW s \in Sid, NEW r \in Requests, Makes(s, r)
        PROVE  /\ backend' \in [Sid -> 0..Len(Resources)]
               /\ up' \subseteq Sid
               /\ DOMAIN asked' = Sid
               /\ \A u \in up' : backend'[u] # 0
               /\ BackendSuits'
    <2>1. PICK b : b = getBackend(Find(r.query, "ch"), r.origin)
      OBVIOUS
    <2>2. /\ b # 0 /\ asked' = [asked EXCEPT ![s] = r]
          /\ backend' = [backend EXCEPT ![s] = b]
          /\ up' = up \/ up' = up \cup {s}
      BY <1>4, <2>1 DEF Makes
    <2>3. /\ b \in 1..Len(Resources)
          /\ Find(r.query, "ch") \in Resources[b].key
          /\ Resources[b].proto # "websocket"
          /\ isAllowOrigin(r.origin, Resources[b].origins)
          /\ \A i \in 1..(b - 1) : Find(r.query, "ch") \notin Resources[i].key
      BY <2>1, <2>2, BackendFirst
    <2>4. b \in 0..Len(Resources)
      BY <2>3, LenType
    <2>5. /\ backend' \in [Sid -> 0..Len(Resources)]
          /\ DOMAIN asked' = Sid /\ up' \subseteq Sid
          /\ backend'[s] = b /\ asked'[s] = r
          /\ \A u \in Sid \ {s} : backend'[u] = backend[u] /\ asked'[u] = asked[u]
      BY <1>0, <2>2, <2>4
    <2>6. Suits(s)'
      BY <2>3, <2>5 DEF Suits, isAllowOrigin
    <2>7. \A u \in Sid \ {s} : Suits(u)'
      BY <1>0, <2>5 DEF Suits
    <2> QED
      BY <1>0, <1>1, <2>2, <2>5, <2>6, <2>7
  <1>5. CASE UNCHANGED vars
    BY <1>2, <1>5 DEF vars, sessions
  <1> QED
    BY <1>2, <1>3, <1>4, <1>5, SessionChanges DEF FrontEndInv

-----------------------------------------------------------------------------
(* What a POST that arrives whole does to the counts: r is due, or not, as *)
(* its message is accepted, or not.                                        *)
DueNow(r) ==
    LET sid == Find(r.query, "sid") IN
    /\ Find(r.query, "data") # ""
    /\ sid \in up
    /\ isAllowOrigin(r.origin, Resources[backend[sid]].origins)

LEMMA PostCounts ==
    ASSUME FrontEndInv, NEW r \in Posts, Server_onPost(r.query, r.origin)
    PROVE  \A p \in Posts :
              accepted'[p] = IF p = r /\ DueNow(r) THEN accepted[p] + 1 ELSE accepted[p]
  <1> DEFINE sid == Find(r.query, "sid")
             message == Find(r.query, "data")
  <1>1. sid \in up => InMap(sid)
    BY DEF FrontEndInv, TypeOK, InMap
  <1>2. CASE ~InMap(sid) /\ UNCHANGED accepted
    BY <1>1, <1>2 DEF DueNow
  <1>3. CASE /\ ~isAllowOrigin(r.origin, Resources[backend[sid]].origins)
             /\ UNCHANGED accepted
    BY <1>3 DEF DueNow
  <1>4. CASE /\ isAllowOrigin(r.origin, Resources[backend[sid]].origins)
             /\ accepted' = [p \in Posts |->
                   IF sid \in up /\ message # "" /\ message = Find(p.query, "data")
                   THEN accepted[p] + 1 ELSE accepted[p]]
    <2>1. \A p \in Posts : message # "" /\ message = Find(p.query, "data") <=> message # "" /\ p = r
      BY MessagesDiffer
    <2>2. DueNow(r) <=> sid \in up /\ message # ""
      BY <1>4 DEF DueNow
    <2> HIDE DEF sid, message
    <2> QED
      BY <1>4, <2>1, <2>2
  <1> QED
    BY <1>2, <1>3, <1>4 DEF Server_onPost

(* Serving a request, while every POST has a body and it arrived whole. *)
LEMMA ServeOnce ==
    ASSUME FrontEndInv, NEW r \in Requests, NEW arrives \in Arrivals(r),
           Serve(r, arrives), ~unread'
    PROVE  errno' # "ERANGE" /\ ExactlyOnceIfWhole'
  <1>1. /\ ~unread /\ (r \in Posts => arrives = "whole" /\ r.query # <<>>) /\ errno # "ERANGE"
        /\ \A p \in Posts : accepted[p] = IF p \in due THEN 1 ELSE 0
        /\ r \notin sent
    BY DEF Serve, FrontEndInv, ExactlyOnceIfWhole
  <1>2. r \in Posts <=> r.method = "POST"
    BY DEF Posts
  <1>3. arrives # "overlong"
    BY <1>1, <1>2 DEF Arrivals
  <1>4. errno' = errno /\ (r \in Posts => data' = r.query)
    BY <1>1, <1>2, <1>3 DEF Serve, ReadBody, Read
  <1>5. due' = due \cup {p \in {r} \cap Posts : DueNow(p)}
    <2>1. due' = due \cup {p \in {r} \cap Posts : arrives = "whole" /\ DueNow(p)}
      BY DEF Serve, DueNow
    <2> QED
      BY <1>1, <2>1
  <1>6. CASE r \in Posts
    <2>1. Server_onPost(r.query, r.origin)
      <3>1. getQueryString(r) = r.query
        BY <1>2, <1>4, <1>6 DEF getQueryString
      <3> QED
        BY <1>2, <1>6, <3>1 DEF Serve
    <2>2. r \notin due
      BY <1>1 DEF FrontEndInv, TypeOK
    <2>3. \A p \in Posts : p \in due' <=> p \in due \/ (p = r /\ DueNow(r))
      BY <1>5, <1>6
    <2>4. \A p \in Posts :
             accepted'[p] = IF p = r /\ DueNow(r) THEN accepted[p] + 1 ELSE accepted[p]
      BY <1>6, <2>1, PostCounts
    <2>5. \A p \in Posts : accepted'[p] = IF p \in due' THEN 1 ELSE 0
      BY <1>1, <2>2, <2>3, <2>4
    <2> QED
      BY <1>1, <1>4, <2>5 DEF ExactlyOnceIfWhole
  <1>7. CASE r \notin Posts
    <2>1. UNCHANGED accepted
      BY <1>2, <1>7 DEF Serve, Server_onConnect, Server_onDisconnect, Server_onPoll
    <2>2. due' = due
      BY <1>5, <1>7
    <2> QED
      BY <1>1, <1>4, <2>1, <2>2 DEF ExactlyOnceIfWhole
  <1> QED
    BY <1>6, <1>7

LEMMA ServeType ==
    ASSUME FrontEndInv, NEW r \in Requests, NEW arrives, Serve(r, arrives)
    PROVE  /\ sent' \subseteq Posts /\ due' \subseteq sent'
           /\ accepted' \in [Posts -> Nat]
           /\ unread' \in BOOLEAN
  <1>1. sent \subseteq Posts /\ due \subseteq sent /\ accepted \in [Posts -> Nat]
    BY DEF FrontEndInv, TypeOK
  <1>2. sent' \subseteq Posts /\ due' \subseteq sent' /\ unread' \in BOOLEAN
    BY <1>1 DEF Serve
  <1>3. ASSUME NEW q, Server_onPost(q, r.origin) PROVE accepted' \in [Posts -> Nat]
    <2> DEFINE counted(p) == /\ Find(q, "sid") \in up /\ Find(q, "data") # ""
                             /\ Find(q, "data") = Find(p.query, "data")
    <2>1. \/ UNCHANGED accepted
          \/ accepted' = [p \in Posts |-> IF counted(p) THEN accepted[p] + 1 ELSE accepted[p]]
      BY <1>3 DEF Server_onPost
    <2> HIDE DEF counted
    <2>2. \A p \in Posts : (IF counted(p) THEN accepted[p] + 1 ELSE accepted[p]) \in Nat
      BY <1>1
    <2> QED
      BY <1>1, <2>1, <2>2
  <1>4. UNCHANGED accepted \/ Server_onPost(getQueryString(r), r.origin)
    BY DEF Serve, Server_onConnect, Server_onDisconnect, Server_onPoll
  <1>5. accepted' \in [Posts -> Nat]
    BY <1>1, <1>3, <1>4
  <1> QED
    BY <1>2, <1>5

LEMMA StepFrontEnd == FrontEndInv /\ [Next]_vars => FrontEndInv'
  <1> SUFFICES ASSUME FrontEndInv, [Next]_vars PROVE FrontEndInv'
    OBVIOUS
  <1>1. CASE UNCHANGED <<sent, due, accepted, unread>> /\ (errno' = errno \/ errno' = "other")
    <2>1. TypeOK'
      BY <1>1, StepSessions DEF FrontEndInv, TypeOK
    <2>2. ExactlyOnceIfWhole' /\ (~unread' => errno' # "ERANGE")
      BY <1>1 DEF FrontEndInv, ExactlyOnceIfWhole
    <2> QED
      BY <2>1, <2>2, StepSessions DEF FrontEndInv
  <1>2. ASSUME NEW r \in Requests, NEW arrives \in Arrivals(r), Serve(r, arrives)
        PROVE  FrontEndInv'
    <2>1. TypeOK'
      BY <1>2, ServeType, StepSessions DEF TypeOK
    <2>2. ExactlyOnceIfWhole' /\ (~unread' => errno' # "ERANGE")
      BY <1>2, ServeOnce DEF ExactlyOnceIfWhole
    <2> QED
      BY <2>1, <2>2, StepSessions DEF FrontEndInv
  <1>3. ASSUME NEW s \in Sid, SessionEnds(s) PROVE FrontEndInv'
    BY <1>1, <1>3 DEF SessionEnds
  <1>4. CASE OtherError \/ UNCHANGED vars
    BY <1>1, <1>4 DEF OtherError, vars
  <1> QED
    BY <1>2, <1>3, <1>4 DEF Next

(* The invariant: a session that is up is in the map, and only a POST that *)
(* was not read leaves ERANGE behind.                                      *)
THEOREM FrontEndInvariant == Spec => []FrontEndInv
  BY InitFrontEnd, StepFrontEnd, PTL DEF Spec

(* Server::getBackend gives every session the first resource for its       *)
(* channel, for every configuration.                                       *)
THEOREM BackendsSuit == Spec => []BackendSuits
  <1>1. FrontEndInv => BackendSuits
    BY DEF FrontEndInv
  <1> QED
    BY <1>1, FrontEndInvariant, PTL

(* As long as every POST has a body that arrives whole, Server::onPost     *)
(* accepts each message for a session that is up exactly once, whatever    *)
(* requests come in between.                                               *)
THEOREM ExactlyOnce == Spec => []ExactlyOnceIfWhole
  <1>1. FrontEndInv => ExactlyOnceIfWhole
    BY DEF FrontEndInv
  <1> QED
    BY <1>1, FrontEndInvariant, PTL

-----------------------------------------------------------------------------
(* The codec.                                                              *)

Char == 1..255

(* Where the encoding of t[k] starts: after one byte for each byte before  *)
(* it, and two more for each of those that is escaped.                     *)
Escaped(t, k) == {i \in 1..(k - 1) : Len(Encoded(t[i])) = 3}
Offset(t, k) == (k - 1) + 2 * Cardinality(Escaped(t, k))

(* s is what the first k bytes of t are encoded as. *)
Spells(s, t, k) ==
    /\ Len(s) = Offset(t, k + 1)
    /\ \A i \in 1..k : \A j \in 1..Len(Encoded(t[i])) :
          s[Offset(t, i) + j] = Encoded(t[i])[j]

(* Within the argument and within the block. *)
Fits ==
    /\ fn \in {"encode", "decode", "done"}
    /\ str \in Seq(Char)
    /\ pos \in 1..(Len(str) + 1)
    /\ top \in 0..(Len(str) + 1)
    /\ IF fn = "encode"
       THEN /\ buf \in Seq(Char)
            /\ Len(buf) <= 3 * (pos - 1) /\ size = 3 * Len(str) + 1
       ELSE /\ buf \in Seq(0..255)
            /\ Len(buf) <= pos - 1 /\ size = Len(str) + 1
    /\ fn = "done" => pos = Len(str) + 1

(* How far the text is encoded, and decoded again. *)
Follows ==
    text # NoText =>
        /\ text \in Seq(Char)
        /\ IF fn = "encode" THEN text = str /\ Spells(buf, text, pos - 1)
           ELSE /\ Spells(str, text, Len(text))
                /\ Len(buf) <= Len(text)
                /\ \A i \in 1..Len(buf) : buf[i] = text[i]
                /\ pos = Offset(text, Len(buf) + 1) + 1

CodecInv == Fits /\ Follows

-----------------------------------------------------------------------------
(* from_hex undoes to_hex, and the two digits make up the byte. *)
LEMMA HexDigits ==
    ASSUME NEW d \in 0..15
    PROVE  to_hex(d) \in Char /\ to_hex(d) # 0 /\ from_hex(to_hex(d)) = d
  <1>1. d % 16 = d
    OBVIOUS
  <1>2. CASE d < 10
    BY <1>1, <1>2 DEF to_hex, from_hex, isdigit, Char
  <1>3. CASE ~(d < 10)
    <2>1. to_hex(d) = 87 + d
      BY <1>1, <1>3 DEF to_hex
    <2>2. (87 + d + 256 - 97 + 10) % 256 = d
      OBVIOUS
    <2> QED
      BY <1>3, <2>1, <2>2 DEF from_hex, isdigit, Char
  <1> QED
    BY <1>2, <1>3

LEMMA OrOfDigits ==
    ASSUME NEW h \in 0..15, NEW l \in 0..15
    PROVE  ByteOr((h * 16) % 256, l) = h * 16 + l
  <1>1. (h * 16) % 256 = h * 16
    OBVIOUS
  <1>2. /\ (h * 16) \div 1 = h * 16 /\ (h * 16) \div 2 = h * 8 /\ (h * 16) \div 4 = h * 4
        /\ (h * 16) \div 8 = h * 2 /\ (h * 16) \div 16 = h /\ (h * 16) \div 32 = h \div 2
        /\ (h * 16) \div 64 = h \div 4 /\ (h * 16) \div 128 = h \div 8
    OBVIOUS
  <1>3. /\ (h * 16) % 2 = 0 /\ (h * 8) % 2 = 0 /\ (h * 4) % 2 = 0 /\ (h * 2) % 2 = 0
        /\ (l \div 16) % 2 = 0 /\ (l \div 32) % 2 = 0 /\ (l \div 64) % 2 = 0
        /\ (l \div 128) % 2 = 0 /\ l \div 1 = l
    OBVIOUS
  <1>4. \A n \in 0..15 :
          n = (IF n % 2 = 1 THEN 1 ELSE 0) + (IF (n \div 2) % 2 = 1 THEN 2 ELSE 0)
                + (IF (n \div 4) % 2 = 1 THEN 4 ELSE 0) + (IF (n \div 8) % 2 = 1 THEN 8 ELSE 0)
    OBVIOUS
  <1> QED
    BY <1>1, <1>2, <1>3, <1>4 DEF ByteOr

LEMMA OrIsByte ==
    ASSUME NEW m, NEW n
    PROVE  ByteOr(m, n) \in 0..255
  BY DEF ByteOr

(* What a byte is encoded as. *)
LEMMA EncodedForm ==
    ASSUME NEW c \in Char
    PROVE  /\ Encoded(c) \in Seq(Char)
           /\ Len(Encoded(c)) \in {1, 3}
           /\ Len(Encoded(c)) = 1 =>
                /\ Encoded(c)[1] \notin {0, 37}
                /\ c = IF Encoded(c)[1] = 43 THEN 32 ELSE Encoded(c)[1]
           /\ Len(Encoded(c)) = 3 =>
                /\ Encoded(c)[1] = 37
                /\ c = ByteOr((from_hex(Encoded(c)[2]) * 16) % 256, from_hex(Encoded(c)[3]))
  <1>1. CASE Unreserved(c)
    <2>1. Encoded(c) = <<c>>
      BY <1>1 DEF Encoded
    <2>2. c \notin {0, 37, 43}
      BY <1>1 DEF Unreserved, isalnum, isdigit, Char
    <2> QED
      BY <2>1, <2>2
  <1>2. CASE ~Unreserved(c) /\ c = 32
    BY <1>2 DEF Encoded, Char
  <1>3. CASE ~Unreserved(c) /\ c # 32
    <2>1. PICK h \in 0..15, l \in 0..15 : h = c \div 16 /\ l = c % 16 /\ c = h * 16 + l
      BY DEF Char
    <2>2. Encoded(c) = <<37, to_hex(h), to_hex(l)>>
      <3>1. (Signed(c) % 16) = l /\ ((Signed(c) \div 16) % 16) = h
        <4>1. CASE c < 128
          BY <2>1, <4>1 DEF Signed, Char
        <4>2. CASE ~(c < 128)
          <5>1. Signed(c) = (h - 16) * 16 + l /\ h - 16 \in -16..-1
            BY <2>1, <4>2 DEF Signed, Char
          <5>2. (Signed(c) % 16) = l /\ Signed(c) \div 16 = h - 16
            BY <5>1
          <5>3. ((h - 16) % 16) = h
            OBVIOUS
          <5> QED
            BY <5>2, <5>3
        <4> QED
          BY <4>1, <4>2
      <3>2. (h % 16) = h /\ (l % 16) = l
        OBVIOUS
      <3>3. to_hex(Signed(c) \div 16) = to_hex(h) /\ to_hex(Signed(c) % 16) = to_hex(l)
        BY <3>1, <3>2 DEF to_hex
      <3> QED
        BY <1>3, <3>3 DEF Encoded
    <2>3. to_hex(h) \in Char /\ to_hex(l) \in Char
      BY HexDigits
    <2>4. ByteOr((from_hex(to_hex(h)) * 16) % 256, from_hex(to_hex(l))) = c
      BY <2>1, HexDigits, OrOfDigits
    <2>5. 37 \in Char
      BY DEF Char
    <2> QED
      BY <2>2, <2>3, <2>4, <2>5
  <1> QED
    BY <1>1, <1>2, <1>3

LEMMA OffsetFacts ==
    ASSUME NEW t \in Seq(Char), NEW k \in 1..(Len(t) + 1)
    PROVE  /\ Offset(t, k) \in Nat
           /\ Offset(t, 1) = 0
           /\ k <= Len(t) => Offset(t, k + 1) = Offset(t, k) + Len(Encoded(t[k]))
  <1>1. IsFiniteSet(Escaped(t, k)) /\ Cardinality(Escaped(t, k)) \in Nat
    <2>1. IsFiniteSet(1..(k - 1))
      BY FS_Interval
    <2> QED
      BY <2>1, FS_Subset, FS_CardinalityType DEF Escaped
  <1>2. Escaped(t, 1) = {}
    BY DEF Escaped
  <1>3. Offset(t, 1) = 0
    <2>1. Cardinality(Escaped(t, 1)) = 0
      BY <1>2, FS_EmptySet, Zenon
    <2> QED
      BY <2>1 DEF Offset
  <1>4. ASSUME k <= Len(t)
        PROVE  Offset(t, k + 1) = Offset(t, k) + Len(Encoded(t[k]))
    <2>0. k \in Nat /\ t[k] \in Char
      BY <1>4
    <2>1. Len(Encoded(t[k])) \in {1, 3}
      BY <2>0, EncodedForm
    <2>2. CASE Len(Encoded(t[k])) = 3
      <3>1. Escaped(t, k + 1) = Escaped(t, k) \cup {k}
        BY <2>0, <2>2 DEF Escaped
      <3>2. k \notin Escaped(t, k)
        BY DEF Escaped
      <3>3. Cardinality(Escaped(t, k + 1)) = Cardinality(Escaped(t, k)) + 1
        BY <1>1, <3>1, <3>2, FS_AddElement
      <3> QED
        BY <1>1, <2>0, <2>2, <3>3 DEF Offset
    <2>3. CASE Len(Encoded(t[k])) = 1
      <3>1. Escaped(t, k + 1) = Escaped(t, k)
        <4>1. \A i : i \in 1..k <=> i \in 1..(k - 1) \/ i = k
          BY <2>0
        <4>2. k + 1 - 1 = k /\ Len(Encoded(t[k])) # 3
          BY <2>0, <2>3
        <4> QED
          BY <4>1, <4>2 DEF Escaped
      <3> QED
        BY <1>1, <2>0, <2>3, <3>1 DEF Offset
    <2> QED
      BY <2>1, <2>2, <2>3
  <1>5. Offset(t, k) \in Nat
    BY <1>1 DEF Offset
  <1> QED
    BY <1>3, <1>4, <1>5

(* Later bytes start further on. *)
LEMMA OffsetGrows ==
    ASSUME NEW t \in Seq(Char), NEW k \in 1..(Len(t) + 1), NEW m \in 1..(Len(t) + 1), k < m
    PROVE  Offset(t, k) < Offset(t, m)
  <1>1. IsFiniteSet(1..(m - 1))
    BY FS_Interval
  <1>2. Escaped(t, m) \in SUBSET (1..(m - 1)) /\ Escaped(t, k) \in SUBSET Escaped(t, m)
    BY DEF Escaped
  <1>3. IsFiniteSet(Escaped(t, m)) /\ Cardinality(Escaped(t, m)) \in Nat
    BY <1>1, <1>2, FS_Subset, FS_CardinalityType
  <1>4. /\ Cardinality(Escaped(t, k)) \in Nat
        /\ Cardinality(Escaped(t, k)) <= Cardinality(Escaped(t, m))
    BY <1>2, <1>3, FS_Subset, FS_CardinalityType
  <1> QED
    BY <1>3, <1>4 DEF Offset

(* url_encode spells one byte more. *)
LEMMA SpellsMore ==
    ASSUME NEW s \in Seq(Char), NEW t \in Seq(Char), NEW k \in 1..Len(t),
           Spells(s, t, k - 1)
    PROVE  Spells(s \o Encoded(t[k]), t, k)
  <1>1. PICK e \in Seq(Char) : e = Encoded(t[k]) /\ Len(e) \in {1, 3}
    BY EncodedForm
  <1>2. /\ Len(s \o e) = Len(s) + Len(e)
        /\ \A i \in 1..Len(s) : (s \o e)[i] = s[i]
        /\ \A i \in 1..Len(e) : (s \o e)[Len(s) + i] = e[i]
    OBVIOUS
  <1>3. Len(s) \in Nat /\ Len(s) = Offset(t, k)
    BY DEF Spells
  <1>4. Len(s \o e) = Offset(t, k + 1)
    BY <1>1, <1>2, <1>3, OffsetFacts
  <1>5. ASSUME NEW i \in 1..k, NEW j \in 1..Len(Encoded(t[i]))
        PROVE  (s \o e)[Offset(t, i) + j] = Encoded(t[i])[j]
    <2>1. CASE i = k
      BY <1>1, <1>2, <1>3, <1>5, <2>1
    <2>2. CASE i # k
      <3>1. i \in 1..(k - 1) /\ i \in 1..Len(t) /\ i + 1 \in 1..Len(t)
            /\ i \in 1..(Len(t) + 1) /\ i + 1 \in 1..(Len(t) + 1) /\ k \in 1..(Len(t) + 1)
        BY <2>2
      <3>2. /\ Offset(t, i) \in Nat /\ Offset(t, i + 1) \in Nat
            /\ Offset(t, i + 1) = Offset(t, i) + Len(Encoded(t[i]))
        <4>1. PICK m \in 1..(Len(t) + 1) : m = i + 1
          BY <3>1
        <4>2. Offset(t, i) \in Nat /\ Offset(t, m) \in Nat
          BY <3>1, OffsetFacts
        <4>3. i <= Len(t)
          BY <3>1
        <4>4. Offset(t, i + 1) = Offset(t, i) + Len(Encoded(t[i]))
          BY <3>1, <4>3, OffsetFacts
        <4> QED
          BY <4>1, <4>2, <4>4, Zenon
      <3>3. Offset(t, i + 1) <= Offset(t, k)
        <4>1. CASE i + 1 = k
          BY <3>2, <4>1
        <4>2. CASE i + 1 # k
          <5>1. i + 1 < k
            BY <3>1, <4>2
          <5>2. Offset(t, i + 1) < Offset(t, k)
            BY <3>1, <5>1, OffsetGrows
          <5> QED
            BY <1>3, <3>2, <5>2
        <4> QED
          BY <4>1, <4>2
      <3>4. Len(Encoded(t[i])) \in Nat
        BY <3>1, EncodedForm
      <3>5. Offset(t, i) + j \in 1..Len(s)
        BY <1>3, <3>2, <3>3, <3>4
      <3>6. s[Offset(t, i) + j] = Encoded(t[i])[j]
        BY <3>1 DEF Spells
      <3> QED
        BY <1>2, <3>5, <3>6
    <2> QED
      BY <2>1, <2>2
  <1> QED
    BY <1>1, <1>4, <1>5 DEF Spells

(* Where url_decode stands, after n bytes of the text: there is another    *)
(* one, and its encoding lies ahead.                                       *)
LEMMA SpellsNext ==
    ASSUME NEW s \in Seq(Char), NEW t \in Seq(Char), NEW n \in 0..Len(t),
           Spells(s, t, Len(t)), Offset(t, n + 1) + 1 <= Len(s)
    PROVE  /\ n + 1 \in 1..Len(t)
           /\ Offset(t, n + 2) = Offset(t, n + 1) + Len(Encoded(t[n + 1]))
           /\ Offset(t, n + 1) + Len(Encoded(t[n + 1])) <= Len(s)
           /\ \A j \in 1..Len(Encoded(t[n + 1])) :
                 s[Offset(t, n + 1) + j] = Encoded(t[n + 1])[j]
  <1>1. Len(s) \in Nat /\ Len(s) = Offset(t, Len(t) + 1)
    BY DEF Spells
  <1>2. n # Len(t)
    BY <1>1
  <1>3. /\ n \in Nat /\ n + 1 \in 1..Len(t) /\ n + 1 \in 1..(Len(t) + 1)
        /\ n + 2 \in 1..(Len(t) + 1) /\ (n + 1) + 1 = n + 2
        /\ Len(t) + 1 \in 1..(Len(t) + 1)
    BY <1>2
  <1>4. Offset(t, n + 2) = Offset(t, n + 1) + Len(Encoded(t[n + 1]))
    BY <1>3, OffsetFacts
  <1>5. Offset(t, n + 2) <= Offset(t, Len(t) + 1)
    <2>1. CASE n + 2 = Len(t) + 1
      BY <1>1, <2>1
    <2>2. CASE n + 2 # Len(t) + 1
      <3>1. n + 2 < Len(t) + 1
        BY <1>3, <2>2
      <3>2. Offset(t, n + 2) < Offset(t, Len(t) + 1) /\ Offset(t, n + 2) \in Nat
        BY <1>3, <3>1, OffsetGrows, OffsetFacts
      <3> QED
        BY <1>1, <3>2
    <2> QED
      BY <2>1, <2>2
  <1>6. \A j \in 1..Len(Encoded(t[n + 1])) :
            s[Offset(t, n + 1) + j] = Encoded(t[n + 1])[j]
    BY <1>3 DEF Spells
  <1> QED
    BY <1>1, <1>3, <1>4, <1>5, <1>6

-----------------------------------------------------------------------------
LEMMA AtFacts ==
    ASSUME Fits, NEW i \in Nat, i >= 1
    PROVE  /\ At(i) # 0 => i <= Len(str) /\ At(i) = str[i] /\ At(i) \in Char
           /\ At(i) = 0 => i > Len(str)
  <1>1. \A j \in 1..Len(str) : str[j] \in Char /\ str[j] # 0
    <2>1. str \in Seq(Char)
      BY DEF Fits
    <2>2. \A c \in Char : c # 0
      BY DEF Char
    <2> QED
      BY <2>1, <2>2
  <1>2. CASE i <= Len(str)
    BY <1>1, <1>2 DEF At
  <1>3. CASE ~(i <= Len(str))
    BY <1>3 DEF At, Fits
  <1> QED
    BY <1>2, <1>3

LEMMA CodecStarts == CodecInit => CodecInv
  <1> SUFFICES ASSUME CodecInit PROVE CodecInv
    OBVIOUS
  <1>1. str \in Seq(Char)
    <2>1. PICK m \in 0..MaxLen : str \in [1..m -> Byte]
      BY DEF CodecInit, BoundedSeq, SeqOf
    <2>2. m \in Nat /\ Byte \subseteq Char
      BY CodecAssumption DEF Char
    <2> QED
      BY <2>1, <2>2
  <1>2. /\ <<>> \in Seq(Char) /\ <<>> \in Seq(0..255) /\ Len(<<>>) = 0
        /\ Len(str) \in Nat /\ pos = 1 /\ top = 0 /\ buf = <<>>
    BY <1>1 DEF CodecInit
  <1>3. Fits
    BY <1>1, <1>2 DEF CodecInit, Fits
  <1>4. Follows
    <2>1. Offset(str, 1) = 0
      BY <1>1, <1>2, OffsetFacts
    <2>2. Spells(buf, str, pos - 1)
      BY <1>2, <2>1 DEF Spells
    <2> QED
      BY <1>1, <2>2 DEF CodecInit, Follows
  <1> QED
    BY <1>3, <1>4 DEF CodecInv

LEMMA EncodeByte ==
    ASSUME CodecInv, url_encode
    PROVE  CodecInv'
  <1>0. pos \in Nat /\ pos >= 1 /\ Len(str) \in Nat /\ Fits
    BY DEF CodecInv, Fits
  <1>1. pos <= Len(str) /\ At(pos) = str[pos] /\ At(pos) \in Char
    BY <1>0, AtFacts DEF url_encode
  <1>2. PICK e \in Seq(Char) : e = Encoded(str[pos]) /\ Len(e) \in {1, 3}
    BY <1>1, EncodedForm
  <1>3. /\ buf \in Seq(Char) /\ buf' = buf \o e
        /\ top' = pos /\ pos' = pos + 1 /\ fn = "encode"
        /\ UNCHANGED <<text, fn, str, size>>
    BY <1>0, <1>1, <1>2 DEF url_encode, Fits
  <1>4. buf' \in Seq(Char) /\ Len(buf') = Len(buf) + Len(e) /\ Len(buf) \in Nat
    BY <1>3
  <1>5. Fits'
    <2>1. Len(buf) <= 3 * (pos - 1) /\ str \in Seq(Char)
      BY <1>0, <1>3 DEF Fits
    <2>2. /\ pos' \in 1..(Len(str) + 1) /\ top' \in 0..(Len(str) + 1)
          /\ Len(buf') <= 3 * (pos' - 1)
      <3>1. pos' \in 1..(Len(str) + 1) /\ top' \in 0..(Len(str) + 1)
        BY <1>0, <1>1, <1>3
      <3>2. Len(buf') <= Len(buf) + 3
        <4>1. PICK n \in Nat : n = Len(buf) /\ (Len(buf') = n + 1 \/ Len(buf') = n + 3)
          BY <1>2, <1>4, Zenon
        <4> QED
          BY <4>1
      <3> QED
        BY <1>0, <1>3, <1>4, <2>1, <3>1, <3>2
    <2> QED
      BY <1>0, <1>3, <1>4, <2>1, <2>2 DEF Fits
  <1>6. Follows'
    <2> SUFFICES ASSUME text # NoText
                 PROVE  Spells(buf', text, pos)
      <3>1. pos' - 1 = pos
        BY <1>0, <1>3
      <3> QED
        BY <1>3, <3>1 DEF CodecInv, Follows
    <2>1. text = str /\ Spells(buf, text, pos - 1) /\ text \in Seq(Char)
      BY <1>3 DEF CodecInv, Follows
    <2> QED
      BY <1>0, <1>1, <1>2, <1>3, <2>1, SpellsMore
  <1> QED
    BY <1>5, <1>6 DEF CodecInv

LEMMA EncodeEnds ==
    ASSUME CodecInv, EncodeReturns
    PROVE  CodecInv'
  <1>0. pos \in Nat /\ pos >= 1 /\ Len(str) \in Nat /\ Fits
    BY DEF CodecInv, Fits
  <1>1. pos = Len(str) + 1
    BY <1>0, AtFacts DEF EncodeReturns, Fits
  <1>2. /\ buf \in Seq(Char) /\ fn = "encode" /\ fn' = "decode" /\ str' = buf
        /\ pos' = 1 /\ top' = 0 /\ buf' = <<>> /\ size' = Len(buf) + 1
        /\ UNCHANGED text
    BY <1>0 DEF EncodeReturns, Fits
  <1>3. Fits'
    BY <1>2 DEF Fits
  <1>4. Follows'
    <2> SUFFICES ASSUME text # NoText
                 PROVE  /\ text \in Seq(Char)
                        /\ Spells(buf, text, Len(text))
                        /\ 1 = Offset(text, 1) + 1
      BY <1>2 DEF Follows
    <2>1. text = str /\ Spells(buf, text, pos - 1) /\ text \in Seq(Char)
      BY <1>2 DEF CodecInv, Follows
    <2>2. pos - 1 = Len(text)
      BY <1>0, <1>1, <2>1
    <2>3. Offset(text, 1) = 0
      BY <1>0, <2>1, OffsetFacts
    <2> QED
      BY <2>1, <2>2, <2>3
  <1> QED
    BY <1>3, <1>4 DEF CodecInv

(* url_decode makes one byte of what the next one was encoded as. *)
LEMMA DecodedMore ==
    ASSUME CodecInv, text # NoText, fn = "decode", pos <= Len(str),
           NEW d \in 0..255, d = text[Len(buf) + 1], buf' = Append(buf, d),
           pos' = pos + Len(Encoded(text[Len(buf) + 1])), fn' = "decode",
           UNCHANGED <<text, str>>
    PROVE  Follows'
  <1>1. /\ text \in Seq(Char) /\ str \in Seq(Char) /\ buf \in Seq(0..255)
        /\ Spells(str, text, Len(text)) /\ Len(buf) <= Len(text)
        /\ \A i \in 1..Len(buf) : buf[i] = text[i]
        /\ pos = Offset(text, Len(buf) + 1) + 1
    BY DEF CodecInv, Fits, Follows
  <1>2. PICK n \in 0..Len(text) : n = Len(buf)
    BY <1>1
  <1>3. /\ n + 1 \in 1..Len(text)
        /\ Offset(text, n + 2) = Offset(text, n + 1) + Len(Encoded(text[n + 1]))
    BY <1>1, <1>2, SpellsNext
  <1>4. Len(buf') = n + 1 /\ \A i \in 1..(n + 1) : buf'[i] = text[i]
    BY <1>1, <1>2
  <1>5. pos' = Offset(text, n + 2) + 1
    <2>1. Offset(text, n + 1) \in Nat /\ Len(Encoded(text[n + 1])) \in Nat
      <3>1. PICK m \in 1..(Len(text) + 1), c \in Char : m = n + 1 /\ c = text[n + 1]
        BY <1>1, <1>2, <1>3
      <3>2. Offset(text, m) \in Nat
        BY <1>1, OffsetFacts
      <3>3. Len(Encoded(c)) \in Nat
        BY EncodedForm
      <3> QED
        BY <3>1, <3>2, <3>3
    <2> QED
      BY <1>1, <1>2, <1>3, <2>1
  <1>6. (n + 1) + 1 = n + 2 /\ n + 1 <= Len(text)
    BY <1>2, <1>3
  <1> QED
    BY <1>1, <1>4, <1>5, <1>6 DEF Follows

(* The byte at pos, when what is decoded was encoded. *)
LEMMA NextByte ==
    ASSUME CodecInv, text # NoText, fn = "decode", pos <= Len(str)
    PROVE  LET c == text[Len(buf) + 1] IN
           /\ c \in Char
           /\ Len(Encoded(c)) \in {1, 3}
           /\ str[pos] = Encoded(c)[1]
           /\ Len(Encoded(c)) = 3 =>
                /\ pos + 2 <= Len(str)
                /\ str[pos + 1] = Encoded(c)[2]
                /\ str[pos + 2] = Encoded(c)[3]
  <1>1. /\ text \in Seq(Char) /\ str \in Seq(Char) /\ Len(buf) \in Nat
        /\ Spells(str, text, Len(text)) /\ Len(buf) <= Len(text)
        /\ pos = Offset(text, Len(buf) + 1) + 1
    BY DEF CodecInv, Fits, Follows
  <1>2. PICK n \in 0..Len(text) : n = Len(buf)
    BY <1>1
  <1>3. /\ n + 1 \in 1..Len(text)
        /\ Offset(text, n + 1) + Len(Encoded(text[n + 1])) <= Len(str)
        /\ \A j \in 1..Len(Encoded(text[n + 1])) :
              str[Offset(text, n + 1) + j] = Encoded(text[n + 1])[j]
    BY <1>1, <1>2, SpellsNext
  <1>4. text[n + 1] \in Char
    BY <1>1, <1>3
  <1>5. Len(Encoded(text[n + 1])) \in {1, 3}
    BY <1>4, EncodedForm
  <1>6. PICK o \in Nat : o = Offset(text, n + 1) /\ pos = o + 1
    BY <1>1, <1>2, <1>3, OffsetFacts
  <1>7. PICK w \in {1, 3} : w = Len(Encoded(text[n + 1]))
    BY <1>5
  <1>8. 1 \in 1..w /\ (w = 3 => 2 \in 1..w /\ 3 \in 1..w)
    OBVIOUS
  <1>9. str[pos] = Encoded(text[n + 1])[1]
    BY <1>3, <1>6, <1>7, <1>8, Zenon
  <1>10. ASSUME w = 3
         PROVE  /\ pos + 2 <= Len(str)
                /\ str[pos + 1] = Encoded(text[n + 1])[2]
                /\ str[pos + 2] = Encoded(text[n + 1])[3]
    <2>1. pos + 1 = o + 2 /\ pos + 2 = o + 3
      BY <1>6
    <2> QED
      BY <1>3, <1>6, <1>7, <1>8, <1>10, <2>1, Zenon
  <1> QED
    BY <1>2, <1>4, <1>5, <1>7, <1>9, <1>10

LEMMA DecodeEscapeStep ==
    ASSUME CodecInv, DecodeEscape
    PROVE  CodecInv'
  <1>0. /\ pos \in Nat /\ pos >= 1 /\ Len(str) \in Nat /\ Fits /\ fn = "decode"
        /\ buf \in Seq(0..255) /\ Len(buf) <= pos - 1 /\ size = Len(str) + 1
        /\ str \in Seq(Char) /\ Len(buf) \in Nat
    BY DEF CodecInv, Fits, DecodeEscape
  <1>1. pos <= Len(str) /\ str[pos] = 37
    BY <1>0, AtFacts DEF DecodeEscape
  <1>2. top' = Peeked(pos) /\ UNCHANGED <<text, fn, str, size>>
    BY DEF DecodeEscape
  <1>3. top' \in 0..(Len(str) + 1)
    <2>1. CASE At(pos + 1) # 0
      BY <1>0, <1>2, <2>1, AtFacts DEF Peeked
    <2>2. CASE At(pos + 1) = 0
      BY <1>0, <1>1, <1>2, <2>2 DEF Peeked
    <2> QED
      BY <2>1, <2>2
  <1>4. CASE /\ At(pos + 1) # 0 /\ At(pos + 2) # 0
             /\ buf' = Append(buf, ByteOr((from_hex(At(pos + 1)) * 16) % 256,
                                          from_hex(At(pos + 2))))
             /\ pos' = pos + 3
    <2>1. /\ pos + 2 <= Len(str) /\ At(pos + 1) = str[pos + 1] /\ At(pos + 2) = str[pos + 2]
      BY <1>0, <1>4, AtFacts
    <2>2. PICK d \in 0..255 :
            d = ByteOr((from_hex(str[pos + 1]) * 16) % 256, from_hex(str[pos + 2]))
      BY OrIsByte
    <2>3. buf' = Append(buf, d)
      BY <1>4, <2>1, <2>2
    <2>4. buf' \in Seq(0..255) /\ Len(buf') = Len(buf) + 1
      BY <1>0, <2>3
    <2>5. Fits'
      <3>1. pos' \in 1..(Len(str) + 1) /\ Len(buf') <= pos' - 1
        BY <1>0, <1>4, <2>1, <2>4
      <3> QED
        BY <1>0, <1>2, <1>3, <2>4, <3>1 DEF Fits
    <2>6. Follows'
      <3>1. CASE text = NoText
        BY <1>2, <3>1 DEF Follows
      <3>2. CASE text # NoText
        <4>1. PICK c \in Char :
                /\ c = text[Len(buf) + 1]
                /\ Len(Encoded(c)) \in {1, 3}
                /\ str[pos] = Encoded(c)[1]
                /\ Len(Encoded(c)) = 3 =>
                     str[pos + 1] = Encoded(c)[2] /\ str[pos + 2] = Encoded(c)[3]
          BY <1>0, <1>1, <3>2, NextByte
        <4>2. Len(Encoded(c)) = 3
          BY <1>1, <4>1, EncodedForm
        <4>3. d = c
          BY <2>2, <4>1, <4>2, EncodedForm
        <4> QED
          BY <1>0, <1>1, <1>2, <1>4, <2>3, <3>2, <4>1, <4>2, <4>3, DecodedMore
      <3> QED
        BY <3>1, <3>2
    <2> QED
      BY <2>5, <2>6 DEF CodecInv
  <1>5. CASE /\ At(pos + 1) = 0 \/ At(pos + 2) = 0
             /\ buf' = buf
             /\ pos' = pos + 1
    <2>1. pos + 2 > Len(str)
      BY <1>0, <1>5, AtFacts
    <2>2. Fits'
      <3>1. pos' \in 1..(Len(str) + 1) /\ Len(buf') <= pos' - 1
        BY <1>0, <1>1, <1>5
      <3> QED
        BY <1>0, <1>2, <1>3, <1>5, <3>1 DEF Fits
    <2>3. text = NoText
      <3> SUFFICES ASSUME text # NoText PROVE FALSE
        OBVIOUS
      <3>1. PICK c \in Char :
              /\ Len(Encoded(c)) \in {1, 3} /\ str[pos] = Encoded(c)[1]
              /\ Len(Encoded(c)) = 3 => pos + 2 <= Len(str)
        BY <1>0, <1>1, NextByte
      <3>2. Len(Encoded(c)) = 3
        BY <1>1, <3>1, EncodedForm
      <3> QED
        BY <1>0, <2>1, <3>1, <3>2
    <2>4. Follows'
      BY <1>2, <2>3 DEF Follows
    <2> QED
      BY <2>2, <2>4 DEF CodecInv
  <1> QED
    BY <1>4, <1>5 DEF DecodeEscape

LEMMA DecodeOtherStep ==
    ASSUME CodecInv, DecodeOther
    PROVE  CodecInv'
  <1>0. /\ pos \in Nat /\ pos >= 1 /\ Len(str) \in Nat /\ Fits /\ fn = "decode"
        /\ buf \in Seq(0..255) /\ Len(buf) <= pos - 1 /\ size = Len(str) + 1
        /\ str \in Seq(Char) /\ Len(buf) \in Nat
    BY DEF CodecInv, Fits, DecodeOther
  <1>1. pos <= Len(str) /\ At(pos) = str[pos] /\ str[pos] # 37 /\ str[pos] \in Char
    BY <1>0, AtFacts DEF DecodeOther
  <1>2. PICK d \in 0..255 : d = IF str[pos] = 43 THEN 32 ELSE str[pos]
    BY <1>1 DEF Char
  <1>3. /\ buf' = Append(buf, d) /\ top' = pos /\ pos' = pos + 1
        /\ UNCHANGED <<text, fn, str, size>>
    BY <1>1, <1>2 DEF DecodeOther
  <1>4. buf' \in Seq(0..255) /\ Len(buf') = Len(buf) + 1
    BY <1>0, <1>3
  <1>5. Fits'
    <2>1. /\ pos' \in 1..(Len(str) + 1) /\ Len(buf') <= pos' - 1
          /\ top' \in 0..(Len(str) + 1)
      BY <1>0, <1>1, <1>3, <1>4
    <2> QED
      BY <1>0, <1>3, <1>4, <2>1 DEF Fits
  <1>6. Follows'
    <2>1. CASE text = NoText
      BY <1>3, <2>1 DEF Follows
    <2>2. CASE text # NoText
      <3>1. PICK c \in Char :
              /\ c = text[Len(buf) + 1]
              /\ Len(Encoded(c)) \in {1, 3} /\ str[pos] = Encoded(c)[1]
        BY <1>0, <1>1, <2>2, NextByte
      <3>2. Len(Encoded(c)) = 1 /\ d = c
        BY <1>1, <1>2, <3>1, EncodedForm
      <3> QED
        BY <1>0, <1>1, <1>3, <2>2, <3>1, <3>2, DecodedMore
    <2> QED
      BY <2>1, <2>2
  <1> QED
    BY <1>5, <1>6 DEF CodecInv

(* The invariant of url_encode followed by url_decode, and of url_decode   *)
(* alone: where they read and write, and how far they have come.           *)
THEOREM CodecInvariant == CodecSpec => []CodecInv
  <1>1. ASSUME CodecInv, [CodecNext]_codecVars PROVE CodecInv'
    <2>1. CASE DecodeReturns
      <3>1. /\ fn = "decode" /\ fn' = "done" /\ UNCHANGED <<text, str, pos, top, buf, size>>
            /\ pos \in 1..(Len(str) + 1) /\ Len(str) \in Nat
        BY <1>1, <2>1 DEF DecodeReturns, CodecInv, Fits
      <3>2. pos = Len(str) + 1
        BY <1>1, <2>1, <3>1, AtFacts DEF DecodeReturns, CodecInv
      <3>3. Fits'
        BY <1>1, <3>1, <3>2 DEF CodecInv, Fits
      <3>4. Follows'
        BY <1>1, <3>1 DEF CodecInv, Follows
      <3> QED
        BY <3>3, <3>4 DEF CodecInv
    <2>2. CASE UNCHANGED codecVars
      <3>1. UNCHANGED <<text, fn, str, pos, top, buf, size>>
        BY <2>2 DEF codecVars
      <3> QED
        BY <1>1, <3>1 DEF CodecInv, Fits, Follows
    <2> QED
      BY <1>1, <2>1, <2>2, EncodeByte, EncodeEnds, DecodeEscapeStep, DecodeOtherStep
         DEF CodecNext, Done
  <1> QED
    BY <1>1, CodecStarts, PTL DEF CodecSpec

(* url_decode gives back every string that url_encode was given. *)
THEOREM DecodeUndoes == CodecSpec => []RoundTrip
  <1>1. CodecInv => RoundTrip
    <2> SUFFICES ASSUME CodecInv, fn = "done", text # NoText
                 PROVE  buf = text
      BY DEF RoundTrip
    <2>1. /\ text \in Seq(Char) /\ buf \in Seq(0..255) /\ Len(str) \in Nat
          /\ Spells(str, text, Len(text)) /\ Len(buf) <= Len(text)
          /\ \A i \in 1..Len(buf) : buf[i] = text[i]
          /\ pos = Offset(text, Len(buf) + 1) + 1 /\ pos = Len(str) + 1
      BY DEF CodecInv, Fits, Follows
    <2>2. PICK n \in 0..Len(text) : n = Len(buf)
      BY <2>1
    <2>3. Offset(text, n + 1) = Offset(text, Len(text) + 1) /\ Offset(text, n + 1) \in Nat
      <3>1. Len(str) = Offset(text, Len(text) + 1)
        BY <2>1 DEF Spells
      <3>2. Offset(text, n + 1) \in Nat
        BY <2>1, <2>2, OffsetFacts
      <3> QED
        BY <2>1, <2>2, <3>1, <3>2
    <2>4. n = Len(text)
      <3> SUFFICES ASSUME n # Len(text) PROVE FALSE
        OBVIOUS
      <3>1. Offset(text, n + 1) < Offset(text, Len(text) + 1)
        BY <2>1, <2>2, OffsetGrows
      <3> QED
        BY <2>3, <3>1
    <2>5. Len(buf) = Len(text) /\ \A i \in 1..Len(text) : buf[i] = text[i]
      BY <2>1, <2>2, <2>4
    <2> QED
      <3>1. text \in Seq(0..255)
        BY <2>1 DEF Char
      <3> QED
        BY <2>1, <2>5, <3>1, SeqEqual
  <1> QED
    BY <1>1, CodecInvariant, PTL

(* Neither function reads beyond the end of its argument or writes beyond  *)
(* the block it allocated, whatever bytes the browser sends.               *)
THEOREM CodecInBounds == CodecSpec => []InBounds
  <1>1. CodecInv => InBounds
    <2> SUFFICES ASSUME CodecInv PROVE InBounds
      OBVIOUS
    <2>1. Len(str) \in Nat /\ pos \in 1..(Len(str) + 1) /\ top \in 0..(Len(str) + 1)
      BY DEF CodecInv, Fits
    <2>2. Len(buf) < size
      <3>1. CASE fn = "encode"
        <4>1. Len(buf) \in Nat /\ Len(buf) <= 3 * (pos - 1) /\ size = 3 * Len(str) + 1
          BY <3>1 DEF CodecInv, Fits
        <4> QED
          BY <2>1, <4>1
      <3>2. CASE fn # "encode"
        <4>1. Len(buf) \in Nat /\ Len(buf) <= pos - 1 /\ size = Len(str) + 1
          BY <3>2 DEF CodecInv, Fits
        <4> QED
          BY <2>1, <4>1
      <3> QED
        BY <3>1, <3>2
    <2> QED
      BY <2>1, <2>2 DEF InBounds
  <1> QED
    BY <1>1, CodecInvariant, PTL
=============================================================================
