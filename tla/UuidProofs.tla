----------------------------- MODULE UuidProofs -----------------------------
(***************************************************************************)
(* Proofs about UuidClock and Uuid, for every base of a digit, whatever    *)
(* the clock shows, wherever the sequence starts and whichever interfaces  *)
(* there are: how soon an id can come back, when it is null, and that its  *)
(* string names it.  ClockInv, NullInv and TextInv are inductive, and the  *)
(* rest is arithmetic and the places of bytes and digits.                  *)
(***************************************************************************)
EXTENDS Uuid, SequenceTheorems, WellFoundedInduction, TLAPS

LEMMA Widths ==
    /\ BYTE \in Nat /\ BYTE >= 4
    /\ BYTE \div 4 \in Nat \ {0}
    /\ BYTE \div 2 \in Nat \ {0}
  <1>1. HEX \in Nat /\ HEX >= 2
    BY UuidAssumption
  <1>2. PICK k \in Nat : HEX = k + 2
    BY <1>1, HEX - 2 \in Nat, HEX = (HEX - 2) + 2
  <1>3. HEX * HEX = k * k + 4 * k + 4
    BY <1>2
  <1>4. k * k \in Nat
    BY <1>2
  <1> QED
    BY <1>1, <1>3, <1>4 DEF BYTE

LEMMA DivMod ==
    \A a \in Int, n \in Nat \ {0} :
        a \div n \in Int /\ a % n \in Nat /\ a = (n * (a \div n)) + (a % n)
  OBVIOUS

LEMMA ModMultiple ==
    \A k \in Int, n \in Nat \ {0} : (n * k) % n = 0
  OBVIOUS

(* Two numbers whose low digits agree, and whose next digits do, are a     *)
(* whole number of rounds apart.                                           *)
LEMMA RoundsApart ==
    ASSUME NEW a \in Int, NEW b \in Int, NEW n \in Nat \ {0}, NEW m \in Nat \ {0},
           a % n = b % n, (a \div n) % m = (b \div n) % m
    PROVE  (b - a) % (n * m) = 0
  <1>1. PICK p \in Int, q \in Int : p = a \div n /\ q = b \div n
    BY DivMod
  <1>2. PICK r \in Nat : a = n * p + r /\ b = n * q + r
    BY <1>1, DivMod
  <1>3. PICK i \in Int, j \in Int, s \in Nat : p = m * i + s /\ q = m * j + s
    <2>1. p % m = q % m
      BY <1>1
    <2>2. p \div m \in Int /\ p % m \in Nat /\ p = (m * (p \div m)) + (p % m)
      BY <1>1, DivMod
    <2>3. q \div m \in Int /\ q = (m * (q \div m)) + (q % m)
      BY <1>1, DivMod
    <2> QED
      BY <2>1, <2>2, <2>3
  <1>4. b - a = n * (q - p)
    BY <1>1, <1>2
  <1>5. q - p = m * (j - i)
    BY <1>1, <1>3
  <1>6. b - a = (n * m) * (j - i)
    BY <1>3, <1>4, <1>5
  <1>7. PICK rounds \in Nat \ {0}, k \in Int : rounds = n * m /\ k = j - i
    BY <1>3
  <1>8. (rounds * k) % rounds = 0
    BY ModMultiple
  <1> QED
    BY <1>6, <1>7, <1>8

-----------------------------------------------------------------------------
LEMMA InitClock == Init => ClockInv
  <1> SUFFICES ASSUME Init PROVE ClockInv
    OBVIOUS
  <1>1. seq \in Int /\ since \in Nat
    BY DEF Init
  <1>2. is_initialized \in BOOLEAN /\ watched = NoId /\ last = NoId
    BY DEF Init
  <1> QED
    BY <1>1, <1>2 DEF ClockInv

LEMMA Stamps ==
    ASSUME NEW node, NEW t, NEW s
    PROVE  Stamped(_uuid_generate(node, t, s), s)
  BY DEF Stamped, _uuid_generate

(* The sequence counts on from the watched id. *)
LEMMA GenerateClock ==
    ASSUME ClockInv, NEW node, Generate(node)
    PROVE  ClockInv'
  <1>0. Seeds \subseteq Int
    BY UuidAssumption
  <1>1. is_initialized' = TRUE
    BY DEF Generate
  <1>a. /\ seq' \in Seeds \/ seq' = seq + 1
        /\ is_initialized => seq' = seq + 1
    BY DEF Generate
  <1>b. seq' \in Int
    <2>1. seq + 1 \in Int
      BY DEF ClockInv
    <2> QED
      BY <1>0, <1>a, <2>1, Zenon
  <1>2. Stamped(last', seq')
    BY Stamps DEF Generate
  <1>3. CASE watched = NoId /\ watched' = last' /\ since' = 0
    <2>1. seq' - since' = seq'
      <3>1. \A n \in Int : n - 0 = n
        OBVIOUS
      <3> QED
        BY <1>b, <1>3, <3>1, Zenon
    <2> QED
      BY <1>1, <1>b, <1>2, <1>3, <2>1 DEF ClockInv, Stamped
  <1>4. CASE watched = NoId /\ UNCHANGED <<watched, since>>
    BY <1>1, <1>b, <1>2, <1>4 DEF ClockInv, Stamped
  <1>5. CASE watched # NoId /\ since' = since + 1 /\ UNCHANGED watched
    <2>1. is_initialized /\ seq \in Int /\ since \in Nat
      BY <1>5 DEF ClockInv
    <2>2. since' \in Nat /\ seq' - since' = seq - since
      BY <1>a, <1>5, <2>1
    <2>3. Stamped(watched', seq' - since')
      BY <1>5, <2>2 DEF ClockInv
    <2> QED
      BY <1>1, <1>b, <1>2, <2>2, <2>3 DEF ClockInv, Stamped
  <1> QED
    BY <1>3, <1>4, <1>5 DEF Generate

LEMMA StepClock == ClockInv /\ [Next]_vars => ClockInv'
  <1> SUFFICES ASSUME ClockInv, [Next]_vars PROVE ClockInv'
    OBVIOUS
  <1>1. CASE UNCHANGED <<is_initialized, seq, last, watched, since>>
    BY <1>1 DEF ClockInv, Stamped
  <1>2. ASSUME NEW node, Generate(node) PROVE ClockInv'
    BY <1>2, GenerateClock
  <1>3. CASE last' = Cleared /\ UNCHANGED <<is_initialized, seq, watched, generated, since>>
    BY <1>3 DEF ClockInv, Stamped, Cleared
  <1> QED
    BY <1>1, <1>2, <1>3 DEF Next, Clock, uuid_generate, vars

(* The invariant: the last id and the watched one carry the sequence as it *)
(* is, and as it was.                                                      *)
THEOREM ClockInvariant == Spec => []ClockInv
  BY InitClock, StepClock, PTL DEF Spec

(* Whatever gettimeofday gives, two ids of _uuid_generate can be the same  *)
(* only when the 14 bits of the clock sequence have gone round.            *)
THEOREM IdsRepeatLate == Spec => []RepeatPeriod
  <1>1. ClockInv => RepeatPeriod
    <2> SUFFICES ASSUME ClockInv, watched # NoId, since > 0, last = watched
                 PROVE  since % (BYTE * (BYTE \div 4)) = 0
      BY DEF RepeatPeriod
    <2>1. seq \in Int /\ since \in Nat /\ Stamped(watched, seq - since)
      BY DEF ClockInv
    <2>2. PICK a \in Int : a = seq - since
      BY <2>1
    <2>3. /\ watched.clock_seq_low = a % BYTE
          /\ watched.clock_seq_hi_and_reserved = ((a \div BYTE) % (BYTE \div 4)) + BYTE \div 2
      BY <2>1, <2>2 DEF Stamped, _uuid_get_clock
    <2>4. /\ (a \div BYTE) % (BYTE \div 4) \in Nat
          /\ (seq \div BYTE) % (BYTE \div 4) \in Nat
      BY <2>1, Widths, DivMod
    <2>5. last # Cleared
      <3>1. watched.clock_seq_hi_and_reserved # 0
        BY <2>3, <2>4, Widths
      <3> QED
        BY <3>1 DEF Cleared
    <2>6. Stamped(last, seq)
      BY <2>5 DEF ClockInv
    <2>7. /\ a % BYTE = seq % BYTE
          /\ (a \div BYTE) % (BYTE \div 4) = (seq \div BYTE) % (BYTE \div 4)
      BY <2>3, <2>4, <2>6, Widths DEF Stamped, _uuid_get_clock
    <2>8. PICK n \in Nat \ {0}, m \in Nat \ {0}, b \in Int :
              n = BYTE /\ m = BYTE \div 4 /\ b = seq
      BY <2>1, Widths
    <2>9. (b - a) % (n * m) = 0
      BY <2>7, <2>8, RoundsApart, ZenonT(30)
    <2>10. b - a = since
      BY <2>1, <2>2, <2>8
    <2> QED
      BY <2>8, <2>9, <2>10
  <1> QED
    BY <1>1, ClockInvariant, PTL

-----------------------------------------------------------------------------
(* The null id.                                                            *)

LEMMA LeastNat ==
    ASSUME NEW S, S \subseteq Nat, S # {}
    PROVE  \E n \in S : \A m \in S : n <= m
  <1>1. \A x, y \in Nat : y < x => <<y, x>> \in OpToRel(<, Nat)
    BY DEF OpToRel
  <1>2. \E R : IsWellFoundedOn(R, Nat) /\ \A x, y \in Nat : y < x => <<y, x>> \in R
    BY <1>1, NatLessThanWellFounded, Zenon
  <1>3. PICK R : IsWellFoundedOn(R, Nat) /\ \A x, y \in Nat : y < x => <<y, x>> \in R
    BY <1>2
  <1>4. PICK n \in S : \A m \in S : ~(<<m, n>> \in R)
    BY <1>3, WFMin
  <1>5. ASSUME NEW m \in S PROVE n <= m
    <2>1. n \in Nat /\ m \in Nat
      OBVIOUS
    <2>2. ~(m < n)
      BY <1>3, <1>4, <2>1
    <2> QED
      BY <2>1, <2>2
  <1> QED
    BY <1>5

(* _uuid_get_node: what is not NoNode is the address of an interface. *)
LEMMA NodeFound ==
    ASSUME NEW ifs \in Interfaces, _uuid_get_node(ifs) # NoNode
    PROVE  _uuid_get_node(ifs) \in Nodes
  <1>1. ifs \in Seq([lo : BOOLEAN, family : STRING, hwaddr : Nodes \cup {NoNode}])
    BY InterfaceAssumption
  <1>2. PICK len \in Nat : len = Len(ifs)
    BY <1>1
  <1> DEFINE n == IF len > MAX_IFS THEN MAX_IFS ELSE len
             listed == SubSeq(ifs, 1, n)
             I == {i \in 1..Len(listed) : listed[i].family = "AF_INET" /\ ~listed[i].lo}
             first == IF I # {} THEN Min(I) ELSE 0
  <1>3. _uuid_get_node(ifs) = IF first = 0 THEN NoNode ELSE ifs[first].hwaddr
    BY <1>2 DEF _uuid_get_node, SelectInSeq
  <1>4. n \in 0..len
    BY <1>2, UuidAssumption
  <1>5. Len(listed) = n
    BY <1>1, <1>2, <1>4, SubSeqProperties
  <1> HIDE DEF n, listed
  <1>6. \A i \in I : i \in 1..len /\ i \in Nat
    BY <1>2, <1>4, <1>5
  <1> HIDE DEF I
  <1>7. I # {} => Min(I) \in I
    <2>1. I \subseteq Nat
      BY <1>6
    <2> QED
      BY <2>1, LeastNat DEF Min
  <1>8. first \in 1..len
    BY <1>3, <1>6, <1>7
  <1>9. ifs[first].hwaddr \in Nodes \cup {NoNode}
    <2> DEFINE R == [lo : BOOLEAN, family : STRING, hwaddr : Nodes \cup {NoNode}]
    <2>1. \A r \in R : r.hwaddr \in Nodes \cup {NoNode}
      OBVIOUS
    <2>2. ifs \in Seq(R)
      BY <1>1
    <2> HIDE DEF R
    <2>3. ifs[first] \in R
      BY <1>2, <1>8, <2>2, ElementOfSeq
    <2> QED
      BY <2>1, <2>3
  <1> QED
    BY <1>3, <1>8, <1>9

LEMMA FunctionIsSeq ==
    ASSUME NEW S, NEW n \in Nat, NEW f \in [1..n -> S]
    PROVE  f \in Seq(S) /\ Len(f) = n
  OBVIOUS

LEMMA Joined ==
    ASSUME NEW S, NEW a \in Seq(S), NEW b \in Seq(S)
    PROVE  /\ a \o b \in Seq(S)
           /\ Len(a \o b) = Len(a) + Len(b)
           /\ \A i \in 1..Len(a) : (a \o b)[i] = a[i]
           /\ \A i \in 1..Len(b) : (a \o b)[Len(a) + i] = b[i]
  <1>1. a \o b \in Seq(S) /\ Len(a \o b) = Len(a) + Len(b)
    BY ConcatProperties
  <1> QED
    BY <1>1

(* The first element of the fourth of five sequences. *)
LEMMA FirstOfFourth ==
    ASSUME NEW S, NEW a \in Seq(S), NEW b \in Seq(S), NEW c \in Seq(S),
           NEW d \in Seq(S), NEW e \in Seq(S), NEW n \in Nat,
           n = Len(a) + Len(b) + Len(c), 1 <= Len(d)
    PROVE  /\ n + 1 \in DOMAIN (a \o b \o c \o d \o e)
           /\ (a \o b \o c \o d \o e)[n + 1] = d[1]
  <1>1. PICK abc \in Seq(S) : abc = a \o b \o c /\ Len(abc) = n
    <2>1. PICK ab \in Seq(S) : ab = a \o b /\ Len(ab) = Len(a) + Len(b)
      BY Joined
    <2>2. ab \o c \in Seq(S) /\ Len(ab \o c) = Len(ab) + Len(c)
      BY Joined
    <2>3. Len(ab \o c) = n
      BY <2>1, <2>2, Zenon
    <2> QED
      BY <2>1, <2>2, <2>3, Zenon
  <1>2. PICK abcd \in Seq(S) :
          abcd = abc \o d /\ Len(abcd) = n + Len(d) /\ abcd[n + 1] = d[1]
    <2>1. /\ abc \o d \in Seq(S)
          /\ Len(abc \o d) = Len(abc) + Len(d)
          /\ \A i \in 1..Len(d) : (abc \o d)[Len(abc) + i] = d[i]
      BY Joined
    <2>2. 1 \in 1..Len(d)
      OBVIOUS
    <2> QED
      BY <1>1, <2>1, <2>2, Zenon
  <1>3. /\ abcd \o e \in Seq(S)
        /\ Len(abcd \o e) = Len(abcd) + Len(e)
        /\ \A i \in 1..Len(abcd) : (abcd \o e)[i] = abcd[i]
    BY Joined
  <1>4. n + 1 \in 1..Len(abcd)
    BY <1>2
  <1>5. n + 1 \in DOMAIN (abcd \o e)
    BY <1>3, <1>4
  <1> QED
    BY <1>1, <1>2, <1>3, <1>4, <1>5

(* Digits, whatever their values; and those of 0. *)
LEMMA InBaseLength ==
    ASSUME NEW base, NEW n, NEW k \in Nat
    PROVE  \E S : InBase(base, n, k) \in [1..k -> S]
  <1> DEFINE digits == InBase(base, n, k)
  <1>1. digits = [i \in 1..k |-> digits[i]]
    BY DEF InBase
  <1> HIDE DEF digits
  <1>2. digits \in [1..k -> {digits[i] : i \in 1..k}]
    BY <1>1
  <1> QED
    BY <1>2 DEF digits

LEMMA NoDigits ==
    ASSUME NEW base \in Nat \ {0}, NEW k \in Nat
    PROVE  InBase(base, 0, k) = [i \in 1..k |-> 0]
  <1> DEFINE Shifts(f) == f = [j \in 0..k |-> IF j = 0 THEN 0 ELSE f[j - 1] \div base]
             shifted == CHOOSE f : Shifts(f)
  <1>1. InBase(base, 0, k) = [i \in 1..k |-> shifted[k - i] % base]
    BY DEF InBase
  <1>2. 0 \div base = 0 /\ 0 % base = 0
    OBVIOUS
  <1>3. Shifts([j \in 0..k |-> 0])
    BY <1>2
  <1>4. Shifts(shifted)
    BY <1>3
  <1> HIDE DEF shifted
  <1>5. \A j \in 0..k : shifted[j] = IF j = 0 THEN 0 ELSE shifted[j - 1] \div base
    BY <1>4
  <1> DEFINE wrong == {j \in 0..k : shifted[j] # 0}
  <1>6. wrong = {}
    <2>1. SUFFICES ASSUME NEW j \in wrong, \A m \in wrong : j <= m
                   PROVE  FALSE
      <3>1. wrong \subseteq Nat
        OBVIOUS
      <3> HIDE DEF wrong
      <3> QED
        BY <3>1, LeastNat
    <2>2. j \in 0..k /\ j # 0
      BY <2>1, <1>5
    <2>3. j - 1 \in 0..k /\ ~(j <= j - 1)
      BY <2>2
    <2>4. shifted[j - 1] = 0
      BY <2>1, <2>3
    <2> QED
      BY <2>1, <2>2, <2>4, <1>2, <1>5
  <1>7. \A i \in 1..k : k - i \in 0..k
    OBVIOUS
  <1> QED
    BY <1>1, <1>2, <1>6, <1>7

(* The variant is in the ninth byte. *)
LEMMA NinthByte ==
    ASSUME NEW u, u.node \in Nodes
    PROVE  /\ 9 \in DOMAIN _uuid_pack(u)
           /\ _uuid_pack(u)[9] = u.clock_seq_hi_and_reserved
  <1> DEFINE a == InBase(BYTE, u.time_low, 4)
             b == InBase(BYTE, u.time_mid, 2)
             c == InBase(BYTE, u.time_hi_and_version, 2)
             d == <<u.clock_seq_hi_and_reserved, u.clock_seq_low>>
  <1>1. PICK A, B, C : a \in [1..4 -> A] /\ b \in [1..2 -> B] /\ c \in [1..2 -> C]
    BY InBaseLength
  <1> DEFINE S == A \cup B \cup C \cup Int
                    \cup {u.clock_seq_hi_and_reserved, u.clock_seq_low}
  <1>2. a \in [1..4 -> S] /\ b \in [1..2 -> S] /\ c \in [1..2 -> S]
    BY <1>1
  <1>3. d \in Seq(S) /\ Len(d) = 2 /\ d[1] = u.clock_seq_hi_and_reserved
    OBVIOUS
  <1>4. u.node \in [1..6 -> S]
    BY Widths DEF Nodes
  <1>5. _uuid_pack(u) = a \o b \o c \o d \o u.node
    BY DEF _uuid_pack
  <1> HIDE DEF a, b, c, d, S
  <1>6. /\ \A f \in [1..4 -> S] : f \in Seq(S) /\ Len(f) = 4
        /\ \A f \in [1..2 -> S] : f \in Seq(S) /\ Len(f) = 2
        /\ \A f \in [1..6 -> S] : f \in Seq(S)
    BY FunctionIsSeq
  <1>7. PICK m \in Nat, n \in Nat : m = 4 /\ n = 2
    OBVIOUS
  <1>8. /\ a \in Seq(S) /\ b \in Seq(S) /\ c \in Seq(S) /\ u.node \in Seq(S)
        /\ Len(a) = m /\ Len(b) = n /\ Len(c) = n /\ Len(d) = n
    BY <1>2, <1>3, <1>4, <1>6, <1>7, Zenon
  <1>9. PICK k \in Nat : k = m + n + n /\ k + 1 = 9 /\ 1 <= n
    BY <1>7
  <1>10. /\ k + 1 \in DOMAIN (a \o b \o c \o d \o u.node)
         /\ (a \o b \o c \o d \o u.node)[k + 1] = d[1]
    <2>1. k = Len(a) + Len(b) + Len(c) /\ 1 <= Len(d)
      BY <1>8, <1>9, Zenon
    <2>2. /\ a \in Seq(S) /\ b \in Seq(S) /\ c \in Seq(S)
          /\ d \in Seq(S) /\ u.node \in Seq(S)
      BY <1>3, <1>8, Zenon
    <2>3. PICK a1 \in Seq(S), b1 \in Seq(S), c1 \in Seq(S), d1 \in Seq(S), e1 \in Seq(S) :
            a1 = a /\ b1 = b /\ c1 = c /\ d1 = d /\ e1 = u.node
      BY <2>2
    <2>4. /\ k + 1 \in DOMAIN (a1 \o b1 \o c1 \o d1 \o e1)
          /\ (a1 \o b1 \o c1 \o d1 \o e1)[k + 1] = d1[1]
      <3>1. k = Len(a1) + Len(b1) + Len(c1) /\ 1 <= Len(d1)
        BY <2>1, <2>3, Zenon
      <3> QED
        BY <3>1, FirstOfFourth, SMTT(30)
    <2> QED
      BY <2>3, <2>4, Zenon
  <1> QED
    BY <1>3, <1>5, <1>9, <1>10, Zenon

LEMMA ClearedIsNull == uuid_is_null(_uuid_pack(Cleared))
  <1> DEFINE z4 == [i \in 1..4 |-> 0]
             z2 == [i \in 1..2 |-> 0]
             z6 == [i \in 1..6 |-> 0]
             d == <<0, 0>>
  <1>1. _uuid_pack(Cleared) = z4 \o z2 \o z2 \o d \o z6
    <2>1. BYTE \in Nat \ {0}
      BY Widths
    <2>2. InBase(BYTE, 0, 4) = z4 /\ InBase(BYTE, 0, 2) = z2
      BY <2>1, NoDigits
    <2> HIDE DEF z4, z2
    <2>3. /\ Cleared.time_low = 0 /\ Cleared.time_mid = 0 /\ Cleared.time_hi_and_version = 0
          /\ Cleared.clock_seq_hi_and_reserved = 0 /\ Cleared.clock_seq_low = 0
          /\ Cleared.node = z6
      BY DEF Cleared
    <2> QED
      BY <2>2, <2>3 DEF _uuid_pack
  <1>2. /\ z4 \in Seq({0}) /\ z2 \in Seq({0}) /\ d \in Seq({0}) /\ z6 \in Seq({0})
    <2>1. z4 \in [1..4 -> {0}] /\ z2 \in [1..2 -> {0}] /\ z6 \in [1..6 -> {0}]
      OBVIOUS
    <2>2. d \in Seq({0})
      OBVIOUS
    <2> HIDE DEF z4, z2, z6, d
    <2> QED
      BY <2>1, <2>2, FunctionIsSeq
  <1> HIDE DEF z4, z2, z6, d
  <1>3. z4 \o z2 \o z2 \o d \o z6 \in Seq({0})
    BY <1>2
  <1>4. \A s \in Seq({0}) : \A i \in DOMAIN s : s[i] = 0
    OBVIOUS
  <1> QED
    BY <1>1, <1>3, <1>4 DEF uuid_is_null

LEMMA GeneratedMarked ==
    ASSUME NEW node \in Nodes, NEW t, NEW s \in Int
    PROVE  Marked(_uuid_generate(node, t, s))
  <1>1. (s \div BYTE) % (BYTE \div 4) \in Nat
    BY Widths, DivMod
  <1>2. ((s \div BYTE) % (BYTE \div 4)) + BYTE \div 2 \in Nat \ {0}
    BY <1>1, Widths
  <1> QED
    BY <1>2 DEF Marked, _uuid_generate, _uuid_get_clock

LEMMA StepNull == NullInv /\ [Next]_vars => NullInv'
  <1> SUFFICES ASSUME NullInv, [Next]_vars PROVE NullInv'
    OBVIOUS
  <1>1. ClockInv'
    BY StepClock DEF NullInv
  <1>2. CASE UNCHANGED <<last, failed>>
    BY <1>1, <1>2 DEF NullInv, Marked
  <1>3. CASE uuid_generate
    <2>1. PICK ifs \in Interfaces :
            /\ failed' = (_uuid_get_node(ifs) = NoNode)
            /\ \/ _uuid_get_node(ifs) # NoNode /\ Generate(_uuid_get_node(ifs))
               \/ _uuid_get_node(ifs) = NoNode /\ last' = Cleared
      BY <1>3 DEF uuid_generate
    <2>2. CASE _uuid_get_node(ifs) = NoNode
      BY <1>1, <2>1, <2>2 DEF NullInv
    <2>3. CASE _uuid_get_node(ifs) # NoNode
      <3>1. last' = _uuid_generate(_uuid_get_node(ifs), now, seq')
        BY <2>1, <2>3 DEF Generate
      <3>2. seq' \in Int
        BY <1>1 DEF ClockInv
      <3>3. Marked(last')
        BY <2>3, <3>1, <3>2, NodeFound, GeneratedMarked, Zenon
      <3> QED
        BY <1>1, <2>1, <2>3, <3>3, Zenon DEF NullInv, Marked
    <2> QED
      BY <2>2, <2>3
  <1> QED
    BY <1>2, <1>3 DEF Next, Clock, vars

(* uuid_is_null tells Server::onConnect, whatever the interfaces, the      *)
(* clock and the caller's object, whether uuid_generate made an id.        *)
THEOREM NullTells == Spec => []NullIffFailed
  <1>1. Init => NullInv
    BY InitClock DEF Init, NullInv
  <1>2. NullInv => NullIffFailed
    <2> SUFFICES ASSUME NullInv, last # NoId
                 PROVE  uuid_is_null(_uuid_pack(last)) <=> failed
      BY DEF NullIffFailed
    <2>1. CASE failed
      BY <2>1, ClearedIsNull DEF NullInv
    <2>2. CASE ~failed
      <3>1. Marked(last)
        BY <2>2 DEF NullInv
      <3>2. /\ 9 \in DOMAIN _uuid_pack(last)
            /\ _uuid_pack(last)[9] # 0
        BY <3>1, NinthByte DEF Marked
      <3> QED
        BY <2>2, <3>2 DEF uuid_is_null
    <2> QED
      BY <2>1, <2>2
  <1> QED
    BY <1>1, <1>2, StepNull, PTL DEF Spec

-----------------------------------------------------------------------------
(* The string.  A number is read back from its digits when no digit of it  *)
(* is left over (Exhausted); the shifts and the reading are functions      *)
(* defined from one digit to the next, so that what holds of them holds by *)
(* induction, that is, for want of a least digit where it does not.        *)

(* A function on 0..n that is defined from one value to the next exists. *)
LEMMA Iterates ==
    ASSUME NEW first \in Nat, NEW n \in Nat, NEW step \in [(1..n) \X Nat -> Nat]
    PROVE  \E f \in [0..n -> Nat] :
              f[0] = first /\ \A j \in 1..n : f[j] = step[<<j, f[j - 1]>>]
  <1> DEFINE Follows(f, m) ==
               /\ f \in [0..m -> Nat]
               /\ f[0] = first /\ \A j \in 1..m : f[j] = step[<<j, f[j - 1]>>]
             none == {m \in 0..n : ~\E f : Follows(f, m)}
  <1>0. \A m \in 0..n : m \in none <=> ~\E f : Follows(f, m)
    <2> HIDE DEF Follows
    <2> QED
      OBVIOUS
  <1>1. none = {}
    <2> SUFFICES ASSUME none # {} PROVE FALSE
      OBVIOUS
    <2>1. PICK m \in 0..n : m \in none /\ \A i \in none : m <= i
      <3>1. none \subseteq 0..n /\ none \subseteq Nat
        OBVIOUS
      <3> HIDE DEF none
      <3> QED
        BY <3>1, LeastNat
    <2> HIDE DEF none
    <2>2. ~\E f : Follows(f, m)
      <3> HIDE DEF Follows
      <3> QED
        BY <1>0, <2>1
    <2>3. m # 0
      <3>1. Follows([j \in 0..0 |-> first], 0)
        OBVIOUS
      <3> QED
        BY <2>2, <3>1
    <2>4. m - 1 \in 0..n /\ m - 1 \notin none
      BY <2>1, <2>3
    <2>5. PICK f : Follows(f, m - 1)
      <3> HIDE DEF Follows
      <3> QED
        BY <1>0, <2>4
    <2> DEFINE g == [j \in 0..m |-> IF j = m THEN step[<<m, f[m - 1]>>] ELSE f[j]]
    <2>6. step[<<m, f[m - 1]>>] \in Nat
      <3>1. f[m - 1] \in Nat /\ m \in 1..n
        BY <2>2, <2>3, <2>5
      <3> QED
        BY <3>1
    <2>7. Follows(g, m)
      <3>1. g \in [0..m -> Nat]
        <4>1. \A j \in 0..m : j # m => j \in 0..(m - 1)
          BY <2>2
        <4> QED
          BY <2>5, <2>6, <4>1
      <3>2. g[0] = first
        BY <2>2, <2>3, <2>5
      <3>3. ASSUME NEW j \in 1..m PROVE g[j] = step[<<j, g[j - 1]>>]
        <4>1. g[j - 1] = f[j - 1]
          <5>1. j - 1 \in 0..m /\ j - 1 # m
            BY <2>2
          <5> QED
            BY <5>1
        <4>2. CASE j = m
          <5>1. m \in 0..m
            OBVIOUS
          <5>2. g[m] = step[<<m, f[m - 1]>>]
            BY <5>1
          <5> QED
            BY <4>1, <4>2, <5>2
        <4>3. CASE j # m
          <5>1. j \in 1..(m - 1) /\ g[j] = f[j]
            BY <2>2, <4>3
          <5> QED
            BY <2>5, <4>1, <5>1
        <4> QED
          BY <4>2, <4>3
      <3> QED
        BY <3>1, <3>2, <3>3
    <2> QED
      BY <2>2, <2>7
  <1>2. PICK f : Follows(f, n)
    <2> HIDE DEF Follows, none
    <2>1. n \in 0..n /\ n \notin none
      BY <1>1
    <2> QED
      BY <1>0, <2>1
  <1> QED
    BY <1>2

LEMMA UpTo ==
    ASSUME NEW n \in Nat, NEW S, 0 \in S, \A j \in 1..n : j - 1 \in S => j \in S
    PROVE  \A j \in 0..n : j \in S
  <1> DEFINE missing == (0..n) \ S
  <1> SUFFICES ASSUME missing # {} PROVE FALSE
    OBVIOUS
  <1>1. PICK m \in missing : \A i \in missing : m <= i
    <2>1. missing \subseteq Nat
      OBVIOUS
    <2> HIDE DEF missing
    <2> QED
      BY <2>1, LeastNat
  <1>2. m \in 1..n
    BY <1>1
  <1>3. m - 1 \in S
    BY <1>1, <1>2
  <1> QED
    BY <1>1, <1>2, <1>3

(* What the shifts of InBase leave, one after the other. *)
LEMMA ShiftsDefined ==
    ASSUME NEW base \in Nat \ {0}, NEW n \in Nat, NEW k \in Nat
    PROVE  \E f \in [0..k -> Nat] :
              /\ f[0] = n
              /\ \A j \in 1..k : f[j] = f[j - 1] \div base
              /\ InBase(base, n, k) = [i \in 1..k |-> f[k - i] % base]
  <1> DEFINE Shifts(f) == f = [j \in 0..k |-> IF j = 0 THEN n ELSE f[j - 1] \div base]
             shifted == CHOOSE f : Shifts(f)
             step == [p \in (1..k) \X Nat |-> p[2] \div base]
  <1>1. InBase(base, n, k) = [i \in 1..k |-> shifted[k - i] % base]
    BY DEF InBase
  <1>2. \A m \in Nat : m \div base \in Nat
    OBVIOUS
  <1>3. step \in [(1..k) \X Nat -> Nat]
    BY <1>2
  <1>4. \A j \in 1..k, m \in Nat : step[<<j, m>>] = m \div base
    OBVIOUS
  <1> HIDE DEF step
  <1>5. PICK f \in [0..k -> Nat] : f[0] = n /\ \A j \in 1..k : f[j] = step[<<j, f[j - 1]>>]
    <2>1. PICK one \in [(1..k) \X Nat -> Nat] : one = step
      BY <1>3
    <2>2. \E f \in [0..k -> Nat] : f[0] = n /\ \A j \in 1..k : f[j] = one[<<j, f[j - 1]>>]
      BY Iterates, ZenonT(30)
    <2> QED
      BY <2>1, <2>2
  <1>6. ASSUME NEW j \in 1..k PROVE f[j] = f[j - 1] \div base
    <2>1. f[j - 1] \in Nat
      OBVIOUS
    <2> QED
      BY <1>4, <1>5, <2>1
  <1>7. Shifts(f)
    <2>1. \A j \in 0..k : f[j] = IF j = 0 THEN n ELSE f[j - 1] \div base
      BY <1>5, <1>6
    <2> QED
      BY <2>1
  <1>8. Shifts(shifted)
    BY <1>7
  <1> HIDE DEF shifted
  <1>9. \A j \in 0..k : shifted[j] = f[j]
    <2> DEFINE S == {j \in 0..k : shifted[j] = f[j]}
    <2>1. 0 \in S
      BY <1>5, <1>8
    <2>2. ASSUME NEW j \in 1..k, j - 1 \in S PROVE j \in S
      BY <1>6, <1>8, <2>2
    <2> HIDE DEF S
    <2>3. \A j \in 0..k : j \in S
      BY <2>1, <2>2, UpTo
    <2> QED
      BY <2>3 DEF S
  <1>10. InBase(base, n, k) = [i \in 1..k |-> f[k - i] % base]
    <2>1. \A i \in 1..k : shifted[k - i] = f[k - i]
      BY <1>9
    <2> QED
      BY <1>1, <2>1
  <1> QED
    BY <1>5, <1>6, <1>10

LEMMA NumberDefined ==
    ASSUME NEW base \in Nat, NEW s \in Seq(Nat)
    PROVE  \E f \in [0..Len(s) -> Nat] :
              /\ f[0] = 0
              /\ \A j \in 1..Len(s) : f[j] = f[j - 1] * base + s[j]
              /\ Number(base, s) = f[Len(s)]
  <1>0. PICK k \in Nat : k = Len(s)
    OBVIOUS
  <1> DEFINE Reads(f) == f = [j \in 0..k |-> IF j = 0 THEN 0 ELSE f[j - 1] * base + s[j]]
             read == CHOOSE f : Reads(f)
             step == [p \in (1..k) \X Nat |-> p[2] * base + s[p[1]]]
  <1>1. Number(base, s) = read[k]
    BY <1>0 DEF Number
  <1>2. \A j \in 1..k, m \in Nat : m * base + s[j] \in Nat
    BY <1>0
  <1>3. step \in [(1..k) \X Nat -> Nat]
    BY <1>2
  <1>4. \A j \in 1..k, m \in Nat : step[<<j, m>>] = m * base + s[j]
    OBVIOUS
  <1> HIDE DEF step
  <1>5. PICK f \in [0..k -> Nat] : f[0] = 0 /\ \A j \in 1..k : f[j] = step[<<j, f[j - 1]>>]
    <2>1. PICK one \in [(1..k) \X Nat -> Nat] : one = step
      BY <1>3
    <2>2. PICK zero \in Nat : zero = 0
      OBVIOUS
    <2>3. \E f \in [0..k -> Nat] : f[0] = zero /\ \A j \in 1..k : f[j] = one[<<j, f[j - 1]>>]
      BY Iterates, ZenonT(30)
    <2> QED
      BY <2>1, <2>2, <2>3
  <1>6. ASSUME NEW j \in 1..k PROVE f[j] = f[j - 1] * base + s[j]
    <2>1. f[j - 1] \in Nat
      OBVIOUS
    <2> QED
      BY <1>4, <1>5, <2>1
  <1>7. Reads(f)
    <2>1. \A j \in 0..k : f[j] = IF j = 0 THEN 0 ELSE f[j - 1] * base + s[j]
      BY <1>5, <1>6
    <2> QED
      BY <2>1
  <1>8. Reads(read)
    BY <1>7
  <1> HIDE DEF read
  <1>9. \A j \in 0..k : read[j] = f[j]
    <2> DEFINE S == {j \in 0..k : read[j] = f[j]}
    <2>1. 0 \in S
      BY <1>5, <1>8
    <2>2. ASSUME NEW j \in 1..k, j - 1 \in S PROVE j \in S
      BY <1>6, <1>8, <2>2
    <2> HIDE DEF S
    <2>3. \A j \in 0..k : j \in S
      BY <2>1, <2>2, UpTo
    <2> QED
      BY <2>3 DEF S
  <1>10. k \in 0..k
    OBVIOUS
  <1> QED
    BY <1>0, <1>1, <1>5, <1>6, <1>9, <1>10, ZenonT(30)

(* A number that has k digits is read as what it is, if no more are left.  *)
Exhausted(base, n, k) ==
    \E f \in [0..k -> Nat] :
        f[0] = n /\ (\A j \in 1..k : f[j] = f[j - 1] \div base) /\ f[k] = 0

LEMMA ReadBack ==
    ASSUME NEW base \in Nat \ {0}, NEW n \in Nat, NEW k \in Nat, Exhausted(base, n, k)
    PROVE  /\ InBase(base, n, k) \in [1..k -> 0..(base - 1)]
           /\ Number(base, InBase(base, n, k)) = n
  <1>1. PICK f \in [0..k -> Nat] :
            /\ f[0] = n
            /\ \A j \in 1..k : f[j] = f[j - 1] \div base
            /\ InBase(base, n, k) = [i \in 1..k |-> f[k - i] % base]
    BY ShiftsDefined, ZenonT(30)
  <1>2. f[k] = 0
    <2>1. PICK g \in [0..k -> Nat] :
            g[0] = n /\ (\A j \in 1..k : g[j] = g[j - 1] \div base) /\ g[k] = 0
      BY DEF Exhausted
    <2> DEFINE S == {j \in 0..k : f[j] = g[j]}
    <2>2. 0 \in S
      BY <1>1, <2>1
    <2>3. ASSUME NEW j \in 1..k, j - 1 \in S PROVE j \in S
      BY <1>1, <2>1, <2>3
    <2> HIDE DEF S
    <2>4. k \in S
      <3>1. \A j \in 0..k : j \in S
        BY <2>2, <2>3, UpTo
      <3> QED
        BY <3>1
    <2> QED
      BY <2>1, <2>4 DEF S
  <1>3. InBase(base, n, k) \in [1..k -> 0..(base - 1)]
    <2>1. \A m \in Nat : m % base \in 0..(base - 1)
      OBVIOUS
    <2>2. \A i \in 1..k : f[k - i] \in Nat
      OBVIOUS
    <2> QED
      BY <1>1, <2>1, <2>2
  <1>4. PICK s \in Seq(Nat) : s = InBase(base, n, k) /\ Len(s) = k
    <2>1. InBase(base, n, k) \in [1..k -> Nat]
      BY <1>3
    <2> QED
      BY <2>1, FunctionIsSeq
  <1>5. PICK r \in [0..k -> Nat] :
            /\ r[0] = 0
            /\ \A j \in 1..k : r[j] = r[j - 1] * base + s[j]
            /\ Number(base, s) = r[k]
    <2>1. base \in Nat
      OBVIOUS
    <2>2. \E r \in [0..Len(s) -> Nat] :
            /\ r[0] = 0
            /\ \A j \in 1..Len(s) : r[j] = r[j - 1] * base + s[j]
            /\ Number(base, s) = r[Len(s)]
      BY <2>1, NumberDefined, ZenonT(30)
    <2> QED
      BY <1>4, <2>2
  <1>6. r[k] = f[0]
    <2> DEFINE S == {j \in 0..k : r[j] = f[k - j]}
    <2>1. 0 \in S
      BY <1>2, <1>5
    <2>2. ASSUME NEW j \in 1..k, j - 1 \in S PROVE j \in S
      <3>1. PICK m \in Nat : m = f[k - j]
        OBVIOUS
      <3>2. f[k - (j - 1)] = m \div base
        <4>1. k - (j - 1) \in 1..k /\ (k - (j - 1)) - 1 = k - j
          OBVIOUS
        <4> QED
          BY <1>1, <3>1, <4>1
      <3>3. s[j] = m % base
        BY <1>1, <1>4, <3>1
      <3>4. r[j] = (m \div base) * base + (m % base)
        <4>1. r[j - 1] = m \div base
          BY <2>2, <3>2
        <4> QED
          BY <1>5, <3>3, <4>1, Zenon
      <3>5. (m \div base) * base + (m % base) = m
        <4>1. m \in Int /\ base \in Nat \ {0} /\ base \in Int
          OBVIOUS
        <4>2. m \div base \in Int /\ m = (base * (m \div base)) + (m % base)
          BY <4>1, DivMod, ZenonT(30)
        <4>3. \A x, y \in Int : x * y = y * x
          OBVIOUS
        <4>4. base * (m \div base) = (m \div base) * base
          BY <4>1, <4>2, <4>3, Zenon
        <4> QED
          BY <4>2, <4>4, Zenon
      <3> QED
        BY <3>1, <3>4, <3>5
    <2> HIDE DEF S
    <2>3. k \in S
      <3>1. \A j \in 0..k : j \in S
        BY <2>1, <2>2, UpTo
      <3> QED
        BY <3>1
    <2> QED
      BY <2>3 DEF S
  <1> QED
    BY <1>1, <1>3, <1>4, <1>5, <1>6

(* Numbers below m have no more than k digits. *)
Holds(base, k, m) == \A q \in Nat : q < m => Exhausted(base, q, k)

LEMMA Products ==
    \A x, y, z \in Nat : x * y \in Nat /\ x * y = y * x /\ x * (y * z) = (x * y) * z
  OBVIOUS

LEMMA DivBelow ==
    ASSUME NEW b \in Nat \ {0}, NEW m \in Nat, NEW n \in Nat, n < b * m
    PROVE  n \div b \in Nat /\ n \div b < m
  <1>1. PICK q \in Nat, r \in Nat : q = n \div b /\ n = (b * q) + r
    <2>1. n \in Int /\ n \div b \in Nat
      OBVIOUS
    <2> QED
      BY <2>1, DivMod
  <1>2. SUFFICES ASSUME ~(q < m) PROVE FALSE
    BY <1>1
  <1>3. PICK d \in Nat : q = m + d
    BY <1>2, q - m \in Nat, q = m + (q - m)
  <1>4. b * q = b * m + b * d
    BY <1>3
  <1>5. b * d \in Nat /\ b * m \in Nat /\ b * q \in Nat
    BY <1>1, <1>3
  <1> QED
    BY <1>1, <1>4, <1>5

LEMMA HoldsNone ==
    ASSUME NEW b \in Nat \ {0}
    PROVE  Holds(b, 0, 1)
  <1> SUFFICES ASSUME NEW q \in Nat, q < 1 PROVE Exhausted(b, q, 0)
    BY DEF Holds
  <1>1. q = 0
    OBVIOUS
  <1> DEFINE f == [j \in 0..0 |-> 0]
  <1>2. f \in [0..0 -> Nat] /\ f[0] = q /\ \A j \in 1..0 : f[j] = f[j - 1] \div b
    BY <1>1
  <1> QED
    BY <1>1, <1>2 DEF Exhausted

LEMMA HoldsMore ==
    ASSUME NEW b \in Nat \ {0}, NEW k \in Nat, NEW m \in Nat, Holds(b, k, m)
    PROVE  Holds(b, k + 1, b * m)
  <1> SUFFICES ASSUME NEW n \in Nat, n < b * m PROVE Exhausted(b, n, k + 1)
    BY DEF Holds
  <1>1. PICK q \in Nat : q = n \div b /\ q < m
    BY DivBelow
  <1>2. PICK f \in [0..k -> Nat] :
            f[0] = q /\ (\A j \in 1..k : f[j] = f[j - 1] \div b) /\ f[k] = 0
    BY <1>1 DEF Holds, Exhausted
  <1> DEFINE g == [j \in 0..(k + 1) |-> IF j = 0 THEN n ELSE f[j - 1]]
  <1>3. g \in [0..(k + 1) -> Nat]
    <2>1. \A j \in 0..(k + 1) : j # 0 => f[j - 1] \in Nat
      OBVIOUS
    <2> QED
      BY <2>1
  <1>4. ASSUME NEW j \in 1..(k + 1) PROVE g[j] = g[j - 1] \div b
    <2>1. g[j] = f[j - 1]
      OBVIOUS
    <2>2. CASE j = 1
      BY <1>1, <1>2, <2>1, <2>2
    <2>3. CASE j # 1
      <3>1. j - 1 \in 1..k /\ g[j - 1] = f[(j - 1) - 1]
        BY <2>3
      <3> QED
        BY <1>2, <2>1, <3>1
    <2> QED
      BY <2>2, <2>3
  <1>5. g[0] = n /\ g[k + 1] = 0
    BY <1>2
  <1> HIDE DEF g
  <1>6. k + 1 \in Nat
    OBVIOUS
  <1> QED
    BY <1>3, <1>4, <1>5 DEF Exhausted

(* Two, four and eight digits. *)
LEMMA HoldsDigits ==
    ASSUME NEW b \in Nat \ {0}
    PROVE  LET w == (b * b) * (b * b) IN
           Holds(b, 2, b * b) /\ Holds(b, 4, w) /\ Holds(b, 8, w * w)
  <1>0. b \in Nat
    OBVIOUS
  <1>1. Holds(b, 1, b)
    <2>1. b * 1 = b /\ 0 + 1 = 1 /\ 0 \in Nat /\ 1 \in Nat
      BY <1>0
    <2> QED
      BY <2>1, HoldsNone, HoldsMore, ZenonT(30)
  <1>2. ASSUME NEW k \in Nat, NEW m \in Nat, Holds(b, k, m)
        PROVE  Holds(b, k + 2, (b * b) * m)
    <2>1. PICK k1 \in Nat, m1 \in Nat : k1 = k + 1 /\ m1 = b * m
      BY <1>0
    <2>2. Holds(b, k1, m1)
      BY <1>2, <2>1, HoldsMore, ZenonT(30)
    <2>3. Holds(b, k1 + 1, b * m1)
      BY <2>2, HoldsMore, ZenonT(30)
    <2>4. k1 + 1 = k + 2
      BY <2>1
    <2>5. b * m1 = (b * b) * m
      <3>1. b * (b * m) = (b * b) * m
        BY <1>0, Products
      <3> QED
        BY <2>1, <3>1
    <2> QED
      BY <2>3, <2>4, <2>5
  <1>3. PICK w1 \in Nat : w1 = b * b
    BY <1>0
  <1>4. PICK w \in Nat : w = w1 * w1
    OBVIOUS
  <1>5. Holds(b, 2, w1)
    <2>1. 1 + 1 = 2 /\ 1 \in Nat
      OBVIOUS
    <2> QED
      BY <1>0, <1>1, <1>3, <2>1, HoldsMore, ZenonT(30)
  <1>6. ASSUME NEW k \in Nat, NEW m \in Nat, Holds(b, k, m)
        PROVE  Holds(b, k + 4, w * m)
    <2>1. PICK k1 \in Nat, m1 \in Nat : k1 = k + 2 /\ m1 = w1 * m
      OBVIOUS
    <2>2. Holds(b, k1, m1)
      BY <1>2, <1>3, <1>6, <2>1
    <2>3. Holds(b, k1 + 2, w1 * m1)
      BY <1>2, <1>3, <2>2
    <2>4. k1 + 2 = k + 4
      BY <2>1
    <2>5. w1 * m1 = w * m
      <3>1. w1 * (w1 * m) = (w1 * w1) * m
        BY Products
      <3> QED
        BY <1>4, <2>1, <3>1
    <2> QED
      BY <2>3, <2>4, <2>5
  <1>7. Holds(b, 4, w)
    <2>1. Holds(b, 2 + 2, w1 * w1)
      <3>1. 2 \in Nat
        OBVIOUS
      <3> QED
        BY <1>2, <1>3, <1>5, <3>1
    <2>2. 2 + 2 = 4
      OBVIOUS
    <2> QED
      BY <1>4, <2>1, <2>2
  <1>8. Holds(b, 8, w * w)
    <2>1. Holds(b, 4 + 4, w * w)
      <3>1. 4 \in Nat
        OBVIOUS
      <3> QED
        BY <1>6, <1>7, <3>1
    <2>2. 4 + 4 = 8
      OBVIOUS
    <2> QED
      BY <2>1, <2>2
  <1> QED
    BY <1>3, <1>4, <1>5, <1>7, <1>8

(* The fields of an id, in their widths. *)
Fields ==
    [time_low : 0..(LONG - 1), time_mid : 0..(WORD - 1),
     time_hi_and_version : 0..(WORD - 1),
     clock_seq_hi_and_reserved : 0..(BYTE - 1), clock_seq_low : 0..(BYTE - 1),
     node : Nodes]

LEMMA LongWidths ==
    /\ HEX \in Nat \ {0} /\ BYTE \in Nat \ {0}
    /\ WORD \in Nat \ {0} /\ LONG \in Nat \ {0}
  <1>1. \A x \in Nat \ {0} : x * x \in Nat \ {0}
    OBVIOUS
  <1>2. HEX \in Nat \ {0}
    BY UuidAssumption
  <1>3. BYTE \in Nat \ {0}
    BY Widths
  <1>4. WORD \in Nat \ {0}
    BY <1>1, <1>3 DEF WORD
  <1>5. LONG \in Nat \ {0}
    BY <1>1, <1>4 DEF LONG
  <1> QED
    BY <1>2, <1>3, <1>4, <1>5

(* Numbers below m are read back from k digits. *)
Reads(b, k, m) ==
    \A n \in 0..(m - 1) :
        /\ InBase(b, n, k) \in [1..k -> 0..(b - 1)]
        /\ Number(b, InBase(b, n, k)) = n

LEMMA ReadBackHeld ==
    \A b \in Nat \ {0}, k \in Nat, m \in Nat : Holds(b, k, m) => Reads(b, k, m)
  <1> SUFFICES ASSUME NEW b \in Nat \ {0}, NEW k \in Nat, NEW m \in Nat, Holds(b, k, m),
                      NEW n \in 0..(m - 1)
               PROVE  /\ InBase(b, n, k) \in [1..k -> 0..(b - 1)]
                      /\ Number(b, InBase(b, n, k)) = n
    BY DEF Reads
  <1>1. n \in Nat /\ n < m
    OBVIOUS
  <1>2. Exhausted(b, n, k)
    BY <1>1 DEF Holds
  <1> QED
    BY <1>1, <1>2, ReadBack

(* Digits of the fields, in bytes and in characters, are as many as are    *)
(* written, and are read as what was written.                              *)
LEMMA FieldDigits ==
    /\ \A n \in 0..(LONG - 1) :
          /\ InBase(BYTE, n, 4) \in [1..4 -> 0..(BYTE - 1)]
          /\ Number(BYTE, InBase(BYTE, n, 4)) = n
          /\ InBase(HEX, n, 8) \in [1..8 -> 0..(HEX - 1)]
          /\ Number(HEX, InBase(HEX, n, 8)) = n
    /\ \A n \in 0..(WORD - 1) :
          /\ InBase(BYTE, n, 2) \in [1..2 -> 0..(BYTE - 1)]
          /\ Number(BYTE, InBase(BYTE, n, 2)) = n
          /\ InBase(HEX, n, 4) \in [1..4 -> 0..(HEX - 1)]
          /\ Number(HEX, InBase(HEX, n, 4)) = n
    /\ \A n \in 0..(BYTE - 1) :
          /\ InBase(HEX, n, 2) \in [1..2 -> 0..(HEX - 1)]
          /\ Number(HEX, InBase(HEX, n, 2)) = n
  <1>1. Holds(BYTE, 2, WORD) /\ Holds(BYTE, 4, LONG)
    BY LongWidths, HoldsDigits DEF WORD, LONG
  <1>2. Holds(HEX, 2, BYTE) /\ Holds(HEX, 4, WORD) /\ Holds(HEX, 8, LONG)
    BY LongWidths, HoldsDigits DEF BYTE, WORD, LONG
  <1>3. /\ WORD \in Nat /\ LONG \in Nat /\ BYTE \in Nat
        /\ BYTE \in Nat \ {0} /\ HEX \in Nat \ {0}
        /\ 2 \in Nat /\ 4 \in Nat /\ 8 \in Nat
    BY LongWidths
  <1>4. Reads(BYTE, 4, LONG) /\ Reads(HEX, 8, LONG)
    BY <1>1, <1>2, <1>3, ReadBackHeld, Zenon
  <1>5. Reads(BYTE, 2, WORD) /\ Reads(HEX, 4, WORD)
    BY <1>1, <1>2, <1>3, ReadBackHeld, Zenon
  <1>6. Reads(HEX, 2, BYTE)
    BY <1>1, <1>2, <1>3, ReadBackHeld, Zenon
  <1> QED
    BY <1>4, <1>5, <1>6, ZenonT(30) DEF Reads

-----------------------------------------------------------------------------
(* q is the part of s that begins behind its first i elements. *)
Part(s, i, q) ==
    /\ i + Len(q) <= Len(s)
    /\ \A j \in 1..Len(q) : s[i + j] = q[j]

LEMMA PartSlice ==
    ASSUME NEW s \in Seq(Int), NEW i \in Nat, NEW q \in Seq(Int), Part(s, i, q)
    PROVE  SubSeq(s, i + 1, i + Len(q)) = q
  <1>1. PICK n \in Nat : n = Len(q) /\ i + n <= Len(s)
    BY DEF Part
  <1>2. SubSeq(s, i + 1, i + n) = [j \in 1..n |-> s[i + j]]
    BY <1>1
  <1>3. q = [j \in 1..n |-> q[j]]
    BY <1>1
  <1> QED
    BY <1>1, <1>2, <1>3 DEF Part

LEMMA PartFirst ==
    ASSUME NEW q \in Seq(Int)
    PROVE  Part(q, 0, q)
  BY DEF Part

LEMMA PartJoin ==
    ASSUME NEW s \in Seq(Int), NEW r \in Seq(Int)
    PROVE  /\ s \o r \in Seq(Int) /\ Len(s \o r) = Len(s) + Len(r)
           /\ Part(s \o r, Len(s), r)
           /\ \A q \in Seq(Int), i \in Nat : Part(s, i, q) => Part(s \o r, i, q)
  <1>1. /\ s \o r \in Seq(Int) /\ Len(s \o r) = Len(s) + Len(r)
        /\ \A i \in 1..Len(s) : (s \o r)[i] = s[i]
        /\ \A i \in 1..Len(r) : (s \o r)[Len(s) + i] = r[i]
    BY Joined
  <1>2. Part(s \o r, Len(s), r)
    BY <1>1 DEF Part
  <1>3. ASSUME NEW q \in Seq(Int), NEW i \in Nat, Part(s, i, q)
        PROVE  Part(s \o r, i, q)
    <2>1. Len(q) \in Nat /\ Len(s) \in Nat /\ Len(r) \in Nat /\ i + Len(q) <= Len(s)
      BY <1>3 DEF Part
    <2>2. ASSUME NEW j \in 1..Len(q) PROVE (s \o r)[i + j] = q[j]
      <3>1. i + j \in 1..Len(s)
        BY <2>1
      <3> QED
        BY <1>1, <1>3, <3>1 DEF Part
    <2> QED
      BY <1>1, <2>1, <2>2 DEF Part
  <1> QED
    BY <1>1, <1>2, <1>3

(* A field of k digits is a sequence of numbers. *)
LEMMA DigitsAreInts ==
    ASSUME NEW k \in Nat, NEW b \in Nat, NEW f \in [1..k -> 0..(b - 1)]
    PROVE  f \in Seq(Int) /\ Len(f) = k
  <1>1. f \in [1..k -> Int]
    OBVIOUS
  <1> QED
    BY <1>1, FunctionIsSeq

(* A string of n elements with its parts, and one that is put behind it.   *)
Laid(s, n, P) ==
    /\ s \in Seq(Int) /\ n \in Nat /\ Len(s) = n
    /\ \A i, q : <<i, q>> \in P => i \in Nat /\ q \in Seq(Int) /\ Part(s, i, q)

LEMMA LaidFirst ==
    ASSUME NEW q \in Seq(Int), NEW n, Len(q) = n
    PROVE  Laid(q, n, {<<0, q>>})
  <1>1. Part(q, 0, q)
    BY PartFirst
  <1>2. \A i, r : <<i, r>> \in {<<0, q>>} => i = 0 /\ r = q
    OBVIOUS
  <1> QED
    BY <1>1, <1>2 DEF Laid

LEMMA LaidMore ==
    ASSUME NEW s, NEW n, NEW P, Laid(s, n, P), NEW r \in Seq(Int), NEW m, Len(r) = m
    PROVE  Laid(s \o r, n + m, P \cup {<<n, r>>})
  <1>1. s \in Seq(Int) /\ n \in Nat /\ Len(s) = n /\ m \in Nat
    BY DEF Laid
  <1>2. /\ s \o r \in Seq(Int) /\ Len(s \o r) = n + m
        /\ Part(s \o r, n, r)
        /\ \A q \in Seq(Int), i \in Nat : Part(s, i, q) => Part(s \o r, i, q)
    BY <1>1, PartJoin, Zenon
  <1>3. ASSUME NEW i, NEW q, <<i, q>> \in P \cup {<<n, r>>}
        PROVE  i \in Nat /\ q \in Seq(Int) /\ Part(s \o r, i, q)
    <2>1. CASE <<i, q>> \in P
      BY <1>2, <2>1, Zenon DEF Laid
    <2>2. CASE i = n /\ q = r
      BY <1>1, <1>2, <2>2, Zenon
    <2> QED
      BY <1>3, <2>1, <2>2
  <1>4. n + m \in Nat
    BY <1>1
  <1> QED
    BY <1>2, <1>3, <1>4, Zenon DEF Laid

(* Packing loses nothing. *)
LEMMA PackUnpack ==
    ASSUME NEW u \in Fields
    PROVE  _uuid_unpack(_uuid_pack(u)) = u
  <1>1. /\ u.time_low \in 0..(LONG - 1) /\ u.time_mid \in 0..(WORD - 1)
        /\ u.time_hi_and_version \in 0..(WORD - 1)
        /\ u.clock_seq_hi_and_reserved \in Int /\ u.clock_seq_low \in Int
        /\ u.node \in [1..6 -> 0..(BYTE - 1)]
    BY LongWidths DEF Fields, Nodes
  <1>2. PICK a \in Seq(Int), b \in Seq(Int), c \in Seq(Int) :
          /\ a = InBase(BYTE, u.time_low, 4) /\ Len(a) = 4
          /\ Number(BYTE, a) = u.time_low
          /\ b = InBase(BYTE, u.time_mid, 2) /\ Len(b) = 2
          /\ Number(BYTE, b) = u.time_mid
          /\ c = InBase(BYTE, u.time_hi_and_version, 2) /\ Len(c) = 2
          /\ Number(BYTE, c) = u.time_hi_and_version
    <2>1. BYTE \in Nat /\ 2 \in Nat /\ 4 \in Nat
      BY LongWidths
    <2>2. InBase(BYTE, u.time_low, 4) \in Seq(Int) /\ Len(InBase(BYTE, u.time_low, 4)) = 4
      BY <1>1, <2>1, FieldDigits, DigitsAreInts
    <2>3. InBase(BYTE, u.time_mid, 2) \in Seq(Int) /\ Len(InBase(BYTE, u.time_mid, 2)) = 2
      BY <1>1, <2>1, FieldDigits, DigitsAreInts
    <2>4. /\ InBase(BYTE, u.time_hi_and_version, 2) \in Seq(Int)
          /\ Len(InBase(BYTE, u.time_hi_and_version, 2)) = 2
      BY <1>1, <2>1, FieldDigits, DigitsAreInts
    <2> QED
      BY <1>1, <2>2, <2>3, <2>4, FieldDigits, ZenonT(30)
  <1>3. PICK d \in Seq(Int) :
          /\ d = <<u.clock_seq_hi_and_reserved, u.clock_seq_low>> /\ Len(d) = 2
          /\ d[1] = u.clock_seq_hi_and_reserved /\ d[2] = u.clock_seq_low
    <2> DEFINE x == u.clock_seq_hi_and_reserved
               y == u.clock_seq_low
    <2>1. x \in Int /\ y \in Int
      BY <1>1
    <2> HIDE DEF x, y
    <2>2. <<x, y>> \in Seq(Int) /\ Len(<<x, y>>) = 2 /\ <<x, y>>[1] = x /\ <<x, y>>[2] = y
      BY <2>1
    <2> QED
      BY <2>2, Zenon DEF x, y
  <1>4. PICK e \in Seq(Int) : e = u.node /\ Len(e) = 6
    <2>1. BYTE \in Nat /\ 6 \in Nat
      BY LongWidths
    <2> QED
      BY <1>1, <2>1, DigitsAreInts
  <1> DEFINE P1 == {<<0, a>>}
             P2 == P1 \cup {<<4, b>>}
             P3 == P2 \cup {<<4 + 2, c>>}
             P4 == P3 \cup {<<4 + 2 + 2, d>>}
             P5 == P4 \cup {<<4 + 2 + 2 + 2, e>>}
             s == a \o b \o c \o d \o e
  <1>5. Laid(s, 4 + 2 + 2 + 2 + 6, P5)
    <2>1. Laid(a, 4, P1)
      BY <1>2, LaidFirst
    <2>2. Laid(a \o b, 4 + 2, P2)
      BY <1>2, <2>1, LaidMore, ZenonT(30)
    <2>3. Laid(a \o b \o c, 4 + 2 + 2, P3)
      BY <1>2, <2>2, LaidMore, ZenonT(30)
    <2>4. Laid(a \o b \o c \o d, 4 + 2 + 2 + 2, P4)
      BY <1>3, <2>3, LaidMore, ZenonT(30)
    <2> QED
      BY <1>4, <2>4, LaidMore, ZenonT(30)
  <1>6. /\ s \in Seq(Int)
        /\ Part(s, 0, a) /\ Part(s, 4, b) /\ Part(s, 4 + 2, c)
        /\ Part(s, 4 + 2 + 2, d) /\ Part(s, 4 + 2 + 2 + 2, e)
    <2>1. /\ <<0, a>> \in P5 /\ <<4, b>> \in P5 /\ <<4 + 2, c>> \in P5
          /\ <<4 + 2 + 2, d>> \in P5 /\ <<4 + 2 + 2 + 2, e>> \in P5
      OBVIOUS
    <2> HIDE DEF P5, s
    <2> QED
      BY <1>5, <2>1, ZenonT(30) DEF Laid
  <1>9. _uuid_pack(u) = s
    BY <1>2, <1>3, <1>4 DEF _uuid_pack
  <1> HIDE DEF s
  <1>8. /\ Part(s, 0, a) /\ Part(s, 4, b) /\ Part(s, 6, c) /\ Part(s, 8, d)
        /\ Part(s, 10, e)
    BY <1>6
  <1>10. /\ SubSeq(s, 1, 4) = a /\ SubSeq(s, 5, 6) = b /\ SubSeq(s, 7, 8) = c
         /\ SubSeq(s, 11, 16) = e
    <2>1. SubSeq(s, 0 + 1, 0 + Len(a)) = a /\ SubSeq(s, 4 + 1, 4 + Len(b)) = b
      BY <1>6, <1>8, PartSlice
    <2>2. SubSeq(s, 6 + 1, 6 + Len(c)) = c /\ SubSeq(s, 10 + 1, 10 + Len(e)) = e
      BY <1>6, <1>8, PartSlice
    <2>3. /\ 0 + 1 = 1 /\ 0 + 4 = 4 /\ 4 + 1 = 5 /\ 4 + 2 = 6 /\ 6 + 1 = 7 /\ 6 + 2 = 8
          /\ 10 + 1 = 11 /\ 10 + 6 = 16
      OBVIOUS
    <2> QED
      BY <1>2, <1>4, <2>1, <2>2, <2>3, Zenon
  <1>11. s[9] = u.clock_seq_hi_and_reserved /\ s[10] = u.clock_seq_low
    <2>1. s[8 + 1] = d[1] /\ s[8 + 2] = d[2]
      BY <1>3, <1>8 DEF Part
    <2> QED
      BY <1>3, <2>1
  <1>12. _uuid_unpack(s) = [time_low |-> u.time_low, time_mid |-> u.time_mid,
                            time_hi_and_version |-> u.time_hi_and_version,
                            clock_seq_hi_and_reserved |-> u.clock_seq_hi_and_reserved,
                            clock_seq_low |-> u.clock_seq_low, node |-> u.node]
    BY <1>2, <1>4, <1>10, <1>11 DEF _uuid_unpack
  <1> QED
    BY <1>9, <1>12 DEF Fields

(* The six pairs of digits of a node, one behind the other. *)
LEMMA FlattenSix ==
    ASSUME NEW q, q = [i \in 1..6 |-> q[i]]
    PROVE  FlattenSeq(q) = q[1] \o q[2] \o q[3] \o q[4] \o q[5] \o q[6]
  <1> DEFINE Joins(f) == f = [i \in 1..6 |-> IF i = 1 THEN q[i] ELSE f[i - 1] \o q[i]]
             flatten == CHOOSE f : Joins(f)
  <1>1. FlattenSeq(q) = flatten[6]
    <2>1. Len(q) = 6
      OBVIOUS
    <2> QED
      BY <2>1 DEF FlattenSeq
  <1>2. PICK t2, t3, t4, t5, t6 :
          /\ t2 = q[1] \o q[2] /\ t3 = t2 \o q[3] /\ t4 = t3 \o q[4]
          /\ t5 = t4 \o q[5] /\ t6 = t5 \o q[6]
    OBVIOUS
  <1> DEFINE g == [i \in 1..6 |-> IF i = 1 THEN q[1] ELSE IF i = 2 THEN t2
                                  ELSE IF i = 3 THEN t3 ELSE IF i = 4 THEN t4
                                  ELSE IF i = 5 THEN t5 ELSE t6]
  <1>3. /\ g[1] = q[1] /\ g[2] = t2 /\ g[3] = t3 /\ g[4] = t4 /\ g[5] = t5 /\ g[6] = t6
        /\ g = [i \in 1..6 |-> g[i]]
    OBVIOUS
  <1> HIDE DEF g
  <1>4. ASSUME NEW i \in 1..6 PROVE g[i] = IF i = 1 THEN q[i] ELSE g[i - 1] \o q[i]
    <2>1. i = 1 \/ i = 2 \/ i = 3 \/ i = 4 \/ i = 5 \/ i = 6
      OBVIOUS
    <2>2. 2 - 1 = 1 /\ 3 - 1 = 2 /\ 4 - 1 = 3 /\ 5 - 1 = 4 /\ 6 - 1 = 5
      OBVIOUS
    <2>3. CASE i = 1
      BY <1>3, <2>3
    <2>4. CASE i = 2
      BY <1>2, <1>3, <2>2, <2>4
    <2>5. CASE i = 3
      BY <1>2, <1>3, <2>2, <2>5
    <2>6. CASE i = 4
      BY <1>2, <1>3, <2>2, <2>6
    <2>7. CASE i = 5
      BY <1>2, <1>3, <2>2, <2>7
    <2>8. CASE i = 6
      BY <1>2, <1>3, <2>2, <2>8
    <2> QED
      BY <2>1, <2>3, <2>4, <2>5, <2>6, <2>7, <2>8
  <1>5. Joins(g)
    BY <1>3, <1>4
  <1>6. Joins(flatten)
    BY <1>5
  <1> HIDE DEF flatten
  <1>7. \A i \in 1..6 : flatten[i] = IF i = 1 THEN q[i] ELSE flatten[i - 1] \o q[i]
    BY <1>6
  <1>8. /\ flatten[1] = q[1] /\ flatten[2] = flatten[1] \o q[2]
        /\ flatten[3] = flatten[2] \o q[3] /\ flatten[4] = flatten[3] \o q[4]
        /\ flatten[5] = flatten[4] \o q[5] /\ flatten[6] = flatten[5] \o q[6]
    <2>1. ASSUME NEW i \in 1..6, NEW j, i # 1, j = i - 1 PROVE flatten[i] = flatten[j] \o q[i]
      BY <1>7, <2>1, Zenon
    <2>2. /\ 2 \in 1..6 /\ 3 \in 1..6 /\ 4 \in 1..6 /\ 5 \in 1..6 /\ 6 \in 1..6
          /\ 2 # 1 /\ 3 # 1 /\ 4 # 1 /\ 5 # 1 /\ 6 # 1
          /\ 1 = 2 - 1 /\ 2 = 3 - 1 /\ 3 = 4 - 1 /\ 4 = 5 - 1 /\ 5 = 6 - 1
      OBVIOUS
    <2>3. 1 \in 1..6
      OBVIOUS
    <2>4. flatten[1] = q[1]
      BY <1>7, <2>3, Zenon
    <2>5. flatten[2] = flatten[1] \o q[2] /\ flatten[3] = flatten[2] \o q[3]
      BY <2>1, <2>2, Zenon
    <2>6. flatten[4] = flatten[3] \o q[4] /\ flatten[5] = flatten[4] \o q[5]
      BY <2>1, <2>2, Zenon
    <2>7. flatten[6] = flatten[5] \o q[6]
      BY <2>1, <2>2, Zenon
    <2> QED
      BY <2>4, <2>5, <2>6, <2>7
  <1>9. flatten[3] = q[1] \o q[2] \o q[3]
    BY <1>8, Zenon
  <1>10. flatten[5] = q[1] \o q[2] \o q[3] \o q[4] \o q[5]
    <2>1. flatten[4] = flatten[3] \o q[4] /\ flatten[5] = flatten[4] \o q[5]
      BY <1>8
    <2> QED
      BY <1>9, <2>1, Zenon
  <1>11. flatten[6] = flatten[5] \o q[6]
    BY <1>8
  <1> QED
    BY <1>1, <1>10, <1>11, Zenon

(* Twelve digits for the node. *)
LEMMA NodeText ==
    ASSUME NEW node \in Nodes
    PROVE  LET N == FlattenSeq([i \in 1..6 |-> InBase(HEX, node[i], 2)]) IN
           /\ N \in Seq(Int) /\ Len(N) = 12
           /\ \A i \in 1..6 : Part(N, (2 * i) - 2, InBase(HEX, node[i], 2))
  <1> DEFINE seqs == [i \in 1..6 |-> InBase(HEX, node[i], 2)]
             e(i) == InBase(HEX, node[i], 2)
             N == FlattenSeq(seqs)
             t2 == e(1) \o e(2)
             t3 == t2 \o e(3)
             t4 == t3 \o e(4)
             t5 == t4 \o e(5)
             t6 == t5 \o e(6)
  <1>1. ASSUME NEW i \in 1..6 PROVE e(i) \in Seq(Int) /\ Len(e(i)) = 2 /\ seqs[i] = e(i)
    <2>1. node[i] \in 0..(BYTE - 1)
      BY DEF Nodes
    <2>2. HEX \in Nat /\ 2 \in Nat
      BY LongWidths
    <2> QED
      BY <2>1, <2>2, FieldDigits, DigitsAreInts
  <1>5. N = t6
    <2>1. seqs = [i \in 1..6 |-> seqs[i]]
      OBVIOUS
    <2>2. /\ seqs[1] = e(1) /\ seqs[2] = e(2) /\ seqs[3] = e(3)
          /\ seqs[4] = e(4) /\ seqs[5] = e(5) /\ seqs[6] = e(6)
      BY <1>1
    <2> HIDE DEF seqs, e
    <2>3. N = seqs[1] \o seqs[2] \o seqs[3] \o seqs[4] \o seqs[5] \o seqs[6]
      BY <2>1, FlattenSix, Zenon
    <2> QED
      BY <2>2, <2>3, Zenon
  <1> HIDE DEF N, seqs, e
  <1>6. /\ e(1) \in Seq(Int) /\ e(2) \in Seq(Int) /\ e(3) \in Seq(Int)
        /\ e(4) \in Seq(Int) /\ e(5) \in Seq(Int) /\ e(6) \in Seq(Int)
        /\ Len(e(1)) = 2 /\ Len(e(2)) = 2 /\ Len(e(3)) = 2
        /\ Len(e(4)) = 2 /\ Len(e(5)) = 2 /\ Len(e(6)) = 2
    BY <1>1
  <1> DEFINE P1 == {<<0, e(1)>>}
             P2 == P1 \cup {<<2, e(2)>>}
             P3 == P2 \cup {<<2 + 2, e(3)>>}
             P4 == P3 \cup {<<2 + 2 + 2, e(4)>>}
             P5 == P4 \cup {<<2 + 2 + 2 + 2, e(5)>>}
             P6 == P5 \cup {<<2 + 2 + 2 + 2 + 2, e(6)>>}
  <1>7. Laid(t6, 2 + 2 + 2 + 2 + 2 + 2, P6)
    <2>1. Laid(e(1), 2, P1)
      BY <1>6, LaidFirst
    <2>2. Laid(t2, 2 + 2, P2)
      BY <1>6, <2>1, LaidMore, ZenonT(30)
    <2>3. Laid(t3, 2 + 2 + 2, P3)
      BY <1>6, <2>2, LaidMore, ZenonT(30)
    <2>4. Laid(t4, 2 + 2 + 2 + 2, P4)
      BY <1>6, <2>3, LaidMore, ZenonT(30)
    <2>5. Laid(t5, 2 + 2 + 2 + 2 + 2, P5)
      BY <1>6, <2>4, LaidMore, ZenonT(30)
    <2> QED
      BY <1>6, <2>5, LaidMore, ZenonT(30)
  <1>8. /\ Part(N, 0, e(1)) /\ Part(N, 2, e(2)) /\ Part(N, 2 + 2, e(3))
        /\ Part(N, 2 + 2 + 2, e(4)) /\ Part(N, 2 + 2 + 2 + 2, e(5))
        /\ Part(N, 2 + 2 + 2 + 2 + 2, e(6))
    <2>1. /\ <<0, e(1)>> \in P6 /\ <<2, e(2)>> \in P6 /\ <<2 + 2, e(3)>> \in P6
          /\ <<2 + 2 + 2, e(4)>> \in P6 /\ <<2 + 2 + 2 + 2, e(5)>> \in P6
          /\ <<2 + 2 + 2 + 2 + 2, e(6)>> \in P6
      OBVIOUS
    <2> HIDE DEF P6, t6
    <2> QED
      BY <1>5, <1>7, <2>1, ZenonT(30) DEF Laid
  <1>9. N \in Seq(Int) /\ Len(N) = 12
    <2>1. t6 \in Seq(Int) /\ Len(t6) = 2 + 2 + 2 + 2 + 2 + 2
      <3> HIDE DEF t6, P6
      <3> QED
        BY <1>7, Zenon DEF Laid
    <2> HIDE DEF t6
    <2> QED
      BY <1>5, <2>1
  <1>10. ASSUME NEW i \in 1..6 PROVE Part(N, (2 * i) - 2, e(i))
    <2>1. i = 1 \/ i = 2 \/ i = 3 \/ i = 4 \/ i = 5 \/ i = 6
      OBVIOUS
    <2> QED
      BY <1>8, <2>1
  <1> QED
    BY <1>9, <1>10 DEF N, e, seqs

(* Two digits, and four, of which two are above the other two. *)
LEMMA NumberOfTwo ==
    ASSUME NEW b \in Nat, NEW s \in Seq(Nat), Len(s) = 2
    PROVE  Number(b, s) = s[1] * b + s[2]
  <1>1. PICK f \in [0..Len(s) -> Nat] :
            /\ f[0] = 0
            /\ \A j \in 1..Len(s) : f[j] = f[j - 1] * b + s[j]
            /\ Number(b, s) = f[Len(s)]
    BY NumberDefined
  <1>2. f[1] = f[0] * b + s[1] /\ f[2] = f[1] * b + s[2]
    <2>1. 1 \in 1..Len(s) /\ 2 \in 1..Len(s) /\ 1 - 1 = 0 /\ 2 - 1 = 1
      OBVIOUS
    <2> QED
      BY <1>1, <2>1, Zenon
  <1>3. s[1] \in Nat /\ 0 * b = 0
    OBVIOUS
  <1>4. f[1] = s[1]
    BY <1>1, <1>2, <1>3
  <1> QED
    BY <1>1, <1>2, <1>4

LEMMA NumberOfFour ==
    ASSUME NEW b \in Nat, NEW s \in Seq(Nat), Len(s) = 4
    PROVE  Number(b, s) = (s[1] * b + s[2]) * (b * b) + (s[3] * b + s[4])
  <1>1. PICK f \in [0..Len(s) -> Nat] :
            /\ f[0] = 0
            /\ \A j \in 1..Len(s) : f[j] = f[j - 1] * b + s[j]
            /\ Number(b, s) = f[Len(s)]
    BY NumberDefined
  <1>2. /\ f[1] = f[0] * b + s[1] /\ f[2] = f[1] * b + s[2]
        /\ f[3] = f[2] * b + s[3] /\ f[4] = f[3] * b + s[4]
    <2>1. /\ 1 \in 1..Len(s) /\ 2 \in 1..Len(s) /\ 3 \in 1..Len(s) /\ 4 \in 1..Len(s)
          /\ 1 - 1 = 0 /\ 2 - 1 = 1 /\ 3 - 1 = 2 /\ 4 - 1 = 3
      OBVIOUS
    <2> QED
      BY <1>1, <2>1, Zenon
  <1>3. s[1] \in Nat /\ s[2] \in Nat /\ s[3] \in Nat /\ s[4] \in Nat /\ 0 * b = 0
    <2>1. \A i \in 1..Len(s) : s[i] \in Nat
      BY ElementOfSeq
    <2> QED
      BY <2>1
  <1>4. f[1] = s[1]
    BY <1>1, <1>2, <1>3
  <1>5. PICK x \in Nat, y \in Nat, z \in Nat : x = f[2] /\ y = s[3] /\ z = s[4]
    <2>1. 2 \in 0..Len(s)
      OBVIOUS
    <2>2. f[2] \in Nat
      BY <2>1
    <2> QED
      BY <1>3, <2>2
  <1>6. (x * b + y) * b + z = x * (b * b) + (y * b + z)
    OBVIOUS
  <1> QED
    BY <1>1, <1>2, <1>4, <1>5, <1>6

LEMMA HighLow ==
    ASSUME NEW b \in Nat \ {0}, NEW hi \in Nat, NEW lo \in 0..(b - 1)
    PROVE  (hi * b + lo) \div b = hi /\ (hi * b + lo) % b = lo
  <1>1. PICK n \in Int : n = hi * b + lo
    <2>1. hi * b \in Int
      OBVIOUS
    <2> QED
      BY <2>1
  <1>2. PICK q \in Int, r \in 0..(b - 1) : q = n \div b /\ r = n % b /\ n = (b * q) + r
    <2>1. n % b \in 0..(b - 1)
      OBVIOUS
    <2> QED
      BY <2>1, DivMod
  <1>3. b * (q - hi) = lo - r
    <2>1. b * (q - hi) = b * q - b * hi
      OBVIOUS
    <2>2. b * hi = hi * b
      OBVIOUS
    <2> QED
      BY <1>1, <1>2, <2>1, <2>2
  <1>4. PICK d \in Int : d = q - hi /\ b * d = lo - r
    BY <1>3
  <1>5. d = 0
    <2>1. CASE d > 0
      <3>1. PICK e \in Nat : d = e + 1
        BY <2>1, d - 1 \in Nat, d = (d - 1) + 1
      <3>2. b * d = b * e + b /\ b * e \in Nat
        BY <3>1
      <3> QED
        BY <1>4, <3>2
    <2>2. CASE d < 0
      <3>1. PICK e \in Nat : d = -e - 1
        BY <2>2, -d - 1 \in Nat, d = -(-d - 1) - 1
      <3>2. b * d = -(b * e) - b /\ b * e \in Nat
        BY <3>1
      <3> QED
        BY <1>4, <3>2
    <2> QED
      BY <2>1, <2>2
  <1>6. q = hi /\ r = lo
    <2>1. b * d = 0
      BY <1>5
    <2> QED
      BY <1>4, <1>5, <2>1
  <1> QED
    BY <1>1, <1>2, <1>6

LEMMA DigitsAreNats ==
    ASSUME NEW k \in Nat, NEW b \in Nat, NEW f \in [1..k -> 0..(b - 1)]
    PROVE  f \in Seq(Nat) /\ f \in Seq(Int) /\ Len(f) = k
  <1>1. f \in [1..k -> Nat]
    OBVIOUS
  <1> QED
    BY <1>1, FunctionIsSeq, DigitsAreInts

LEMMA PartDigit ==
    ASSUME NEW s, NEW i \in Nat, NEW q \in Seq(Nat), Part(s, i, q),
           NEW j \in Int, i < j, j <= i + Len(q)
    PROVE  s[j] \in Nat
  <1>1. PICK k \in 1..Len(q) : j = i + k
    BY j - i \in 1..Len(q), j = i + (j - i)
  <1>2. s[j] = q[k]
    BY <1>1 DEF Part
  <1> QED
    BY <1>2, ElementOfSeq

(* No character of the node is a dash. *)
LEMMA NodeDigits ==
    ASSUME NEW node \in Nodes
    PROVE  FlattenSeq([i \in 1..6 |-> InBase(HEX, node[i], 2)]) \in Seq(Nat)
  <1> DEFINE N == FlattenSeq([i \in 1..6 |-> InBase(HEX, node[i], 2)])
  <1>1. /\ N \in Seq(Int) /\ Len(N) = 12
        /\ \A i \in 1..6 : Part(N, (2 * i) - 2, InBase(HEX, node[i], 2))
    BY NodeText
  <1> HIDE DEF N
  <1>2. ASSUME NEW j \in 1..12 PROVE N[j] \in Nat
    <2>1. PICK i \in 1..6 : (2 * i) - 2 < j /\ j <= ((2 * i) - 2) + 2
      <3> DEFINE h == (j + 1) \div 2
      <3>1. h \in 1..6 /\ (2 * h) - 2 < j /\ j <= ((2 * h) - 2) + 2
        OBVIOUS
      <3> QED
        BY <3>1
    <2>2. node[i] \in 0..(BYTE - 1) /\ HEX \in Nat /\ 2 \in Nat
      BY LongWidths DEF Nodes
    <2>3. InBase(HEX, node[i], 2) \in [1..2 -> 0..(HEX - 1)]
      BY <2>2, FieldDigits
    <2>4. PICK q \in Seq(Nat) : q = InBase(HEX, node[i], 2) /\ Len(q) = 2
      BY <2>2, <2>3, DigitsAreNats
    <2>5. PICK at \in Nat : at = (2 * i) - 2 /\ at < j /\ j <= at + Len(q)
      <3>1. (2 * i) - 2 \in Nat
        OBVIOUS
      <3> QED
        BY <2>1, <2>4, <3>1, Zenon
    <2>6. Part(N, at, q)
      BY <1>1, <2>4, <2>5
    <2>7. j \in Int
      OBVIOUS
    <2> QED
      BY <2>5, <2>6, <2>7, PartDigit
  <1>3. N \in [1..12 -> Nat]
    <2>1. \A q \in Seq(Int) : q = [j \in 1..Len(q) |-> q[j]]
      OBVIOUS
    <2>2. N = [j \in 1..12 |-> N[j]]
      BY <1>1, <2>1
    <2> QED
      BY <1>2, <2>2
  <1> QED
    BY <1>3, FunctionIsSeq DEF N

LEMMA NatsAreInts == \A q \in Seq(Nat) : q \in Seq(Int)
  <1> SUFFICES ASSUME NEW q \in Seq(Nat) PROVE q \in Seq(Int)
    OBVIOUS
  <1>1. q \in [1..Len(q) -> Nat] /\ Len(q) \in Nat
    OBVIOUS
  <1>2. q \in [1..Len(q) -> Int]
    BY <1>1
  <1> QED
    BY <1>1, <1>2, FunctionIsSeq

(* The string as it is laid out: eight digits, four, four, four and twelve *)
(* with dashes between them.                                               *)
TextOf(s, A, B, C, H, L, N) ==
    /\ s \in Seq(Int) /\ Len(s) = 36
    /\ A \in Seq(Nat) /\ B \in Seq(Nat) /\ C \in Seq(Nat)
    /\ H \in Seq(Nat) /\ L \in Seq(Nat) /\ N \in Seq(Nat)
    /\ Len(A) = 8 /\ Len(B) = 4 /\ Len(C) = 4 /\ Len(H) = 2 /\ Len(L) = 2 /\ Len(N) = 12
    /\ Part(s, 0, A) /\ Part(s, 9, B) /\ Part(s, 14, C)
    /\ Part(s, 19, H) /\ Part(s, 21, L) /\ Part(s, 24, N)
    /\ s[9] = DASH /\ s[14] = DASH /\ s[19] = DASH /\ s[24] = DASH

LEMMA LaidText ==
    ASSUME NEW A \in Seq(Nat), NEW B \in Seq(Nat), NEW C \in Seq(Nat),
           NEW H \in Seq(Nat), NEW L \in Seq(Nat), NEW N \in Seq(Nat),
           Len(A) = 8, Len(B) = 4, Len(C) = 4, Len(H) = 2, Len(L) = 2, Len(N) = 12
    PROVE  TextOf(A \o <<DASH>> \o B \o <<DASH>> \o C \o <<DASH>>
                    \o H \o L \o <<DASH>> \o N, A, B, C, H, L, N)
  <1>1. PICK d \in Seq(Int) : d = <<DASH>> /\ Len(d) = 1 /\ d[1] = DASH
    <2>1. PICK dash \in Int : dash = DASH
      BY DEF DASH
    <2>2. <<dash>> \in Seq(Int) /\ Len(<<dash>>) = 1 /\ <<dash>>[1] = dash
      OBVIOUS
    <2> QED
      BY <2>1, <2>2, Zenon
  <1>2. /\ A \in Seq(Int) /\ B \in Seq(Int) /\ C \in Seq(Int)
        /\ H \in Seq(Int) /\ L \in Seq(Int) /\ N \in Seq(Int)
    BY NatsAreInts
  <1> DEFINE P1 == {<<0, A>>}
             P2 == P1 \cup {<<8, d>>}
             P3 == P2 \cup {<<8 + 1, B>>}
             P4 == P3 \cup {<<8 + 1 + 4, d>>}
             P5 == P4 \cup {<<8 + 1 + 4 + 1, C>>}
             P6 == P5 \cup {<<8 + 1 + 4 + 1 + 4, d>>}
             P7 == P6 \cup {<<8 + 1 + 4 + 1 + 4 + 1, H>>}
             P8 == P7 \cup {<<8 + 1 + 4 + 1 + 4 + 1 + 2, L>>}
             P9 == P8 \cup {<<8 + 1 + 4 + 1 + 4 + 1 + 2 + 2, d>>}
             P10 == P9 \cup {<<8 + 1 + 4 + 1 + 4 + 1 + 2 + 2 + 1, N>>}
             s2 == A \o d
             s3 == s2 \o B
             s4 == s3 \o d
             s5 == s4 \o C
             s6 == s5 \o d
             s7 == s6 \o H
             s8 == s7 \o L
             s9 == s8 \o d
             s == s9 \o N
  <1>3. Laid(s, 8 + 1 + 4 + 1 + 4 + 1 + 2 + 2 + 1 + 12, P10)
    <2>1. Laid(A, 8, P1)
      BY <1>2, LaidFirst
    <2>2. Laid(s2, 8 + 1, P2)
      BY <1>1, <2>1, LaidMore, ZenonT(30)
    <2>3. Laid(s3, 8 + 1 + 4, P3)
      <3> HIDE DEF s2, P2
      <3> QED
        BY <1>2, <2>2, LaidMore, ZenonT(30)
    <2>4. Laid(s4, 8 + 1 + 4 + 1, P4)
      <3> HIDE DEF s3, P3
      <3> QED
        BY <1>1, <2>3, LaidMore, ZenonT(30)
    <2>5. Laid(s5, 8 + 1 + 4 + 1 + 4, P5)
      <3> HIDE DEF s4, P4
      <3> QED
        BY <1>2, <2>4, LaidMore, ZenonT(30)
    <2>6. Laid(s6, 8 + 1 + 4 + 1 + 4 + 1, P6)
      <3> HIDE DEF s5, P5
      <3> QED
        BY <1>1, <2>5, LaidMore, ZenonT(30)
    <2>7. Laid(s7, 8 + 1 + 4 + 1 + 4 + 1 + 2, P7)
      <3> HIDE DEF s6, P6
      <3> QED
        BY <1>2, <2>6, LaidMore, ZenonT(30)
    <2>8. Laid(s8, 8 + 1 + 4 + 1 + 4 + 1 + 2 + 2, P8)
      <3> HIDE DEF s7, P7
      <3> QED
        BY <1>2, <2>7, LaidMore, ZenonT(30)
    <2>9. Laid(s9, 8 + 1 + 4 + 1 + 4 + 1 + 2 + 2 + 1, P9)
      <3> HIDE DEF s8, P8
      <3> QED
        BY <1>1, <2>8, LaidMore, ZenonT(30)
    <2> HIDE DEF s9, P9
    <2> QED
      BY <1>2, <2>9, LaidMore, ZenonT(30)
  <1>4. /\ <<0, A>> \in P10 /\ <<8, d>> \in P10 /\ <<8 + 1, B>> \in P10
        /\ <<8 + 1 + 4, d>> \in P10 /\ <<8 + 1 + 4 + 1, C>> \in P10
        /\ <<8 + 1 + 4 + 1 + 4, d>> \in P10 /\ <<8 + 1 + 4 + 1 + 4 + 1, H>> \in P10
        /\ <<8 + 1 + 4 + 1 + 4 + 1 + 2, L>> \in P10
        /\ <<8 + 1 + 4 + 1 + 4 + 1 + 2 + 2, d>> \in P10
        /\ <<8 + 1 + 4 + 1 + 4 + 1 + 2 + 2 + 1, N>> \in P10
    BY Zenon
  <1>5. s = A \o <<DASH>> \o B \o <<DASH>> \o C \o <<DASH>>
                    \o H \o L \o <<DASH>> \o N
    BY <1>1, Zenon
  <1> HIDE DEF s, P10
  <1>6. /\ s \in Seq(Int) /\ Len(s) = 8 + 1 + 4 + 1 + 4 + 1 + 2 + 2 + 1 + 12
        /\ Part(s, 0, A) /\ Part(s, 8, d) /\ Part(s, 8 + 1, B)
        /\ Part(s, 8 + 1 + 4, d) /\ Part(s, 8 + 1 + 4 + 1, C)
        /\ Part(s, 8 + 1 + 4 + 1 + 4, d) /\ Part(s, 8 + 1 + 4 + 1 + 4 + 1, H)
        /\ Part(s, 8 + 1 + 4 + 1 + 4 + 1 + 2, L)
        /\ Part(s, 8 + 1 + 4 + 1 + 4 + 1 + 2 + 2, d)
        /\ Part(s, 8 + 1 + 4 + 1 + 4 + 1 + 2 + 2 + 1, N)
    BY <1>3, <1>4, ZenonT(30) DEF Laid
  <1>7. /\ Len(s) = 36 /\ Part(s, 9, B) /\ Part(s, 13, d) /\ Part(s, 14, C)
        /\ Part(s, 18, d) /\ Part(s, 19, H) /\ Part(s, 21, L) /\ Part(s, 23, d)
        /\ Part(s, 24, N)
    BY <1>6
  <1>8. \A i : Part(s, i, d) => s[i + 1] = DASH
    BY <1>1 DEF Part
  <1>9. s[9] = DASH /\ s[14] = DASH /\ s[19] = DASH /\ s[24] = DASH
    <2>1. Part(s, 8, d) /\ Part(s, 13, d) /\ Part(s, 18, d) /\ Part(s, 23, d)
      BY <1>6, <1>7
    <2>2. s[8 + 1] = DASH /\ s[13 + 1] = DASH /\ s[18 + 1] = DASH /\ s[23 + 1] = DASH
      BY <1>8, <2>1, Zenon
    <2> QED
      BY <2>2
  <1> QED
    BY <1>5, <1>6, <1>7, <1>9, ZenonT(30) DEF TextOf

(* The dashes are where _uuid_parse expects them, and nowhere else. *)
LEMMA DashesFound ==
    ASSUME NEW s, NEW A, NEW B, NEW C, NEW H, NEW L, NEW N, TextOf(s, A, B, C, H, L, N)
    PROVE  \A i \in 1..36 : s[i] = DASH <=> i \in {9, 14, 19, 24}
  <1>1. \A n \in Nat : n # DASH
    BY DEF DASH
  <1>2. ASSUME NEW q \in Seq(Nat), NEW at \in Nat, Part(s, at, q), NEW i \in 1..36,
               at < i, i <= at + Len(q)
        PROVE  s[i] # DASH
    <2>1. i \in Int
      OBVIOUS
    <2>2. s[i] \in Nat
      BY <1>2, <2>1, PartDigit
    <2> QED
      BY <1>1, <2>2
  <1> SUFFICES ASSUME NEW i \in 1..36
               PROVE  s[i] = DASH <=> i \in {9, 14, 19, 24}
    OBVIOUS
  <1>3. CASE i \in {9, 14, 19, 24}
    BY <1>3 DEF TextOf
  <1>4. CASE i \notin {9, 14, 19, 24}
    <2>1. \/ 0 < i /\ i <= 8
          \/ 9 < i /\ i <= 13
          \/ 14 < i /\ i <= 18
          \/ 19 < i /\ i <= 21
          \/ 21 < i /\ i <= 23
          \/ 24 < i /\ i <= 36
      BY <1>4
    <2>2. CASE 0 < i /\ i <= 8
      <3>1. 0 \in Nat /\ 8 = 0 + 8
        OBVIOUS
      <3>2. A \in Seq(Nat) /\ Part(s, 0, A) /\ Len(A) = 8
        BY DEF TextOf
      <3> QED
        BY <1>2, <1>4, <2>2, <3>1, <3>2, Zenon
    <2>3. CASE 9 < i /\ i <= 13
      <3>1. 9 \in Nat /\ 13 = 9 + 4
        OBVIOUS
      <3>2. B \in Seq(Nat) /\ Part(s, 9, B) /\ Len(B) = 4
        BY DEF TextOf
      <3> QED
        BY <1>2, <1>4, <2>3, <3>1, <3>2, Zenon
    <2>4. CASE 14 < i /\ i <= 18
      <3>1. 14 \in Nat /\ 18 = 14 + 4
        OBVIOUS
      <3>2. C \in Seq(Nat) /\ Part(s, 14, C) /\ Len(C) = 4
        BY DEF TextOf
      <3> QED
        BY <1>2, <1>4, <2>4, <3>1, <3>2, Zenon
    <2>5. CASE 19 < i /\ i <= 21
      <3>1. 19 \in Nat /\ 21 = 19 + 2
        OBVIOUS
      <3>2. H \in Seq(Nat) /\ Part(s, 19, H) /\ Len(H) = 2
        BY DEF TextOf
      <3> QED
        BY <1>2, <1>4, <2>5, <3>1, <3>2, Zenon
    <2>6. CASE 21 < i /\ i <= 23
      <3>1. 21 \in Nat /\ 23 = 21 + 2
        OBVIOUS
      <3>2. L \in Seq(Nat) /\ Part(s, 21, L) /\ Len(L) = 2
        BY DEF TextOf
      <3> QED
        BY <1>2, <1>4, <2>6, <3>1, <3>2, Zenon
    <2>7. CASE 24 < i /\ i <= 36
      <3>1. 24 \in Nat /\ 36 = 24 + 12
        OBVIOUS
      <3>2. N \in Seq(Nat) /\ Part(s, 24, N) /\ Len(N) = 12
        BY DEF TextOf
      <3> QED
        BY <1>2, <1>4, <2>7, <3>1, <3>2, Zenon
    <2> QED
      BY <2>1, <2>2, <2>3, <2>4, <2>5, <2>6, <2>7
  <1> QED
    BY <1>3, <1>4

(* The slices that _uuid_parse converts are the fields that were printed;  *)
(* the two bytes of the clock sequence are read as one number.             *)
LEMMA SlicesFound ==
    ASSUME NEW s, NEW A, NEW B, NEW C, NEW H, NEW L, NEW N, TextOf(s, A, B, C, H, L, N)
    PROVE  /\ SubSeq(s, 1, 8) = A /\ SubSeq(s, 10, 13) = B /\ SubSeq(s, 15, 18) = C
           /\ SubSeq(s, 20, 21) = H /\ SubSeq(s, 22, 23) = L
           /\ \A i \in 1..12 : s[24 + i] = N[i]
  <1>1. ASSUME NEW q \in Seq(Nat), NEW at \in Nat, Part(s, at, q)
        PROVE  SubSeq(s, at + 1, at + Len(q)) = q
    <2>1. s \in Seq(Int) /\ q \in Seq(Int)
      BY NatsAreInts DEF TextOf
    <2> QED
      BY <1>1, <2>1, PartSlice
  <1>3. SubSeq(s, 1, 8) = A
    <2>1. 0 \in Nat /\ 1 = 0 + 1 /\ 8 = 0 + 8
      OBVIOUS
    <2>2. A \in Seq(Nat) /\ Part(s, 0, A) /\ Len(A) = 8
      BY DEF TextOf
    <2> QED
      BY <1>1, <2>1, <2>2, Zenon
  <1>4. SubSeq(s, 10, 13) = B
    <2>1. 9 \in Nat /\ 10 = 9 + 1 /\ 13 = 9 + 4
      OBVIOUS
    <2>2. B \in Seq(Nat) /\ Part(s, 9, B) /\ Len(B) = 4
      BY DEF TextOf
    <2> QED
      BY <1>1, <2>1, <2>2, Zenon
  <1>5. SubSeq(s, 15, 18) = C
    <2>1. 14 \in Nat /\ 15 = 14 + 1 /\ 18 = 14 + 4
      OBVIOUS
    <2>2. C \in Seq(Nat) /\ Part(s, 14, C) /\ Len(C) = 4
      BY DEF TextOf
    <2> QED
      BY <1>1, <2>1, <2>2, Zenon
  <1>6. SubSeq(s, 20, 21) = H
    <2>1. 19 \in Nat /\ 20 = 19 + 1 /\ 21 = 19 + 2
      OBVIOUS
    <2>2. H \in Seq(Nat) /\ Part(s, 19, H) /\ Len(H) = 2
      BY DEF TextOf
    <2> QED
      BY <1>1, <2>1, <2>2, Zenon
  <1>7. SubSeq(s, 22, 23) = L
    <2>1. 21 \in Nat /\ 22 = 21 + 1 /\ 23 = 21 + 2
      OBVIOUS
    <2>2. L \in Seq(Nat) /\ Part(s, 21, L) /\ Len(L) = 2
      BY DEF TextOf
    <2> QED
      BY <1>1, <2>1, <2>2, Zenon
  <1>8. \A i \in 1..12 : s[24 + i] = N[i]
    BY Zenon DEF TextOf, Part
  <1> QED
    BY <1>3, <1>4, <1>5, <1>6, <1>7, <1>8

LEMMA ClockRead ==
    ASSUME NEW s, NEW A, NEW B, NEW C, NEW H, NEW L, NEW N, TextOf(s, A, B, C, H, L, N),
           NEW b \in Nat
    PROVE  Number(b, SubSeq(s, 20, 23)) = Number(b, H) * (b * b) + Number(b, L)
  <1>1. PICK r \in Seq(Nat) :
          /\ r = SubSeq(s, 20, 23) /\ Len(r) = 4
          /\ r[1] = H[1] /\ r[2] = H[2] /\ r[3] = L[1] /\ r[4] = L[2]
    <2>1. SubSeq(s, 20, 23) = [j \in 1..4 |-> s[19 + j]]
      BY DEF TextOf
    <2>2. /\ s[20] = H[1] /\ s[21] = H[2] /\ s[22] = L[1] /\ s[23] = L[2]
      <3>1. /\ 1 \in 1..2 /\ 2 \in 1..2 /\ 20 = 19 + 1 /\ 21 = 19 + 2
            /\ 22 = 21 + 1 /\ 23 = 21 + 2
        OBVIOUS
      <3>2. \A j \in 1..2 : s[19 + j] = H[j] /\ s[21 + j] = L[j]
        BY Zenon DEF TextOf, Part
      <3>3. s[19 + 1] = H[1] /\ s[19 + 2] = H[2] /\ s[21 + 1] = L[1] /\ s[21 + 2] = L[2]
        BY <3>1, <3>2, Zenon
      <3> QED
        BY <3>1, <3>3, Zenon
    <2>3. H[1] \in Nat /\ H[2] \in Nat /\ L[1] \in Nat /\ L[2] \in Nat
      <3>1. 1 \in 1..2 /\ 2 \in 1..2
        OBVIOUS
      <3> QED
        BY <3>1, ElementOfSeq, Zenon DEF TextOf
    <2> DEFINE r == [j \in 1..4 |-> s[19 + j]]
    <2>4. r[1] = s[20] /\ r[2] = s[21] /\ r[3] = s[22] /\ r[4] = s[23]
      OBVIOUS
    <2>5. r \in [1..4 -> Nat]
      <3>1. ASSUME NEW j \in 1..4 PROVE s[19 + j] \in Nat
        <4>1. j = 1 \/ j = 2 \/ j = 3 \/ j = 4
          OBVIOUS
        <4>2. 19 + 1 = 20 /\ 19 + 2 = 21 /\ 19 + 3 = 22 /\ 19 + 4 = 23
          OBVIOUS
        <4> QED
          BY <2>2, <2>3, <4>1, <4>2, Zenon
      <3> QED
        BY <3>1
    <2> HIDE DEF r
    <2>6. r \in Seq(Nat) /\ Len(r) = 4
      BY <2>5, FunctionIsSeq
    <2> QED
      BY <2>1, <2>2, <2>4, <2>6, Zenon DEF r
  <1>2. PICK x \in Nat, y \in Nat : x = H[1] * b + H[2] /\ y = L[1] * b + L[2]
    <2>1. H[1] \in Nat /\ H[2] \in Nat /\ L[1] \in Nat /\ L[2] \in Nat
      <3>1. 1 \in 1..2 /\ 2 \in 1..2
        OBVIOUS
      <3> QED
        BY <3>1, ElementOfSeq, Zenon DEF TextOf
    <2>2. \A i, j \in Nat : i * b + j \in Nat
      OBVIOUS
    <2> QED
      BY <2>1, <2>2, Zenon
  <1>3. Number(b, r) = x * (b * b) + y
    BY <1>1, <1>2, NumberOfFour, Zenon
  <1>4. Number(b, H) = x /\ Number(b, L) = y
    BY <1>2, NumberOfTwo, Zenon DEF TextOf
  <1> QED
    BY <1>1, <1>3, <1>4, Zenon

LEMMA NodeRead ==
    ASSUME NEW s, NEW A, NEW B, NEW C, NEW H, NEW L, NEW N, TextOf(s, A, B, C, H, L, N),
           NEW i \in 1..6, NEW e \in Seq(Int), Len(e) = 2, Part(N, (2 * i) - 2, e)
    PROVE  SubSeq(s, 23 + 2*i, 24 + 2*i) = e
  <1>1. PICK at \in Nat, k \in Nat : at = 22 + 2*i /\ k = (2 * i) - 2
    OBVIOUS
  <1>2. at = 24 + k /\ at + 2 <= 36 /\ at + 1 = 23 + 2*i /\ at + 2 = 24 + 2*i
    BY <1>1
  <1>3. s \in Seq(Int) /\ Len(s) = 36
    BY DEF TextOf
  <1>a. \A n \in 1..12 : s[24 + n] = N[n]
    <2>1. Part(s, 24, N) /\ Len(N) = 12
      BY DEF TextOf
    <2> QED
      BY <2>1 DEF Part
  <1>4. ASSUME NEW j \in 1..2 PROVE s[at + j] = e[j]
    <2>1. k + j \in 1..12 /\ 24 + (k + j) = at + j
      BY <1>1, <1>2
    <2>2. s[24 + (k + j)] = N[k + j]
      BY <1>a, <2>1, Zenon
    <2>3. N[k + j] = e[j]
      BY <1>1 DEF Part
    <2> QED
      BY <2>1, <2>2, <2>3
  <1>5. Part(s, at, e)
    BY <1>2, <1>3, <1>4 DEF Part
  <1>6. SubSeq(s, at + 1, at + Len(e)) = e
    BY <1>3, <1>5, PartSlice
  <1> QED
    BY <1>2, <1>6, Zenon

(* Reading the string back gives the fields that were printed. *)
LEMMA ParseUnparse ==
    ASSUME NEW u \in Fields
    PROVE  _uuid_parse(_uuid_unparse(u)) = u
  <1>1. /\ u.time_low \in 0..(LONG - 1) /\ u.time_mid \in 0..(WORD - 1)
        /\ u.time_hi_and_version \in 0..(WORD - 1)
        /\ u.clock_seq_hi_and_reserved \in 0..(BYTE - 1)
        /\ u.clock_seq_low \in 0..(BYTE - 1)
        /\ u.node \in Nodes
    BY DEF Fields
  <1>0. HEX \in Nat /\ 2 \in Nat /\ 4 \in Nat /\ 8 \in Nat
    BY LongWidths
  <1>2. PICK A \in Seq(Nat) :
          A = InBase(HEX, u.time_low, 8) /\ Len(A) = 8 /\ Number(HEX, A) = u.time_low
    BY <1>0, <1>1, FieldDigits, DigitsAreNats
  <1>3. PICK B \in Seq(Nat) :
          B = InBase(HEX, u.time_mid, 4) /\ Len(B) = 4 /\ Number(HEX, B) = u.time_mid
    BY <1>0, <1>1, FieldDigits, DigitsAreNats
  <1>4. PICK C \in Seq(Nat) :
          /\ C = InBase(HEX, u.time_hi_and_version, 4) /\ Len(C) = 4
          /\ Number(HEX, C) = u.time_hi_and_version
    BY <1>0, <1>1, FieldDigits, DigitsAreNats
  <1>5. PICK H \in Seq(Nat) :
          /\ H = InBase(HEX, u.clock_seq_hi_and_reserved, 2) /\ Len(H) = 2
          /\ Number(HEX, H) = u.clock_seq_hi_and_reserved
    BY <1>0, <1>1, FieldDigits, DigitsAreNats
  <1>6. PICK L \in Seq(Nat) :
          /\ L = InBase(HEX, u.clock_seq_low, 2) /\ Len(L) = 2
          /\ Number(HEX, L) = u.clock_seq_low
    BY <1>0, <1>1, FieldDigits, DigitsAreNats
  <1>7. PICK N \in Seq(Nat) :
          /\ N = FlattenSeq([i \in 1..6 |-> InBase(HEX, u.node[i], 2)]) /\ Len(N) = 12
          /\ \A i \in 1..6 : Part(N, (2 * i) - 2, InBase(HEX, u.node[i], 2))
    <2>1. PICK node \in Nodes : node = u.node
      BY <1>1
    <2>2. PICK N \in Seq(Nat) :
          /\ N = FlattenSeq([i \in 1..6 |-> InBase(HEX, node[i], 2)]) /\ Len(N) = 12
          /\ \A i \in 1..6 : Part(N, (2 * i) - 2, InBase(HEX, node[i], 2))
      BY NodeText, NodeDigits, Zenon
    <2> QED
      BY <2>1, <2>2, Zenon
  <1>8. PICK s : s = _uuid_unparse(u) /\ TextOf(s, A, B, C, H, L, N)
    <2>1. _uuid_unparse(u) = A \o <<DASH>> \o B \o <<DASH>> \o C \o <<DASH>>
                               \o H \o L \o <<DASH>> \o N
      BY <1>2, <1>3, <1>4, <1>5, <1>6, <1>7, Zenon DEF _uuid_unparse
    <2>2. TextOf(A \o <<DASH>> \o B \o <<DASH>> \o C \o <<DASH>>
                   \o H \o L \o <<DASH>> \o N, A, B, C, H, L, N)
      BY <1>2, <1>3, <1>4, <1>5, <1>6, <1>7, LaidText, ZenonT(30)
    <2> QED
      BY <2>1, <2>2, Zenon
  <1>9. /\ Len(s) >= 36
        /\ \A i \in 1..36 : s[i] = DASH <=> i \in {9, 14, 19, 24}
    <2>1. Len(s) >= 36
      BY <1>8 DEF TextOf
    <2> QED
      BY <1>8, <2>1, DashesFound, Zenon
  <1>10. /\ Number(HEX, SubSeq(s, 1, 8)) = u.time_low
         /\ Number(HEX, SubSeq(s, 10, 13)) = u.time_mid
         /\ Number(HEX, SubSeq(s, 15, 18)) = u.time_hi_and_version
    <2>1. SubSeq(s, 1, 8) = A /\ SubSeq(s, 10, 13) = B /\ SubSeq(s, 15, 18) = C
      BY <1>8, SlicesFound, Zenon
    <2> QED
      BY <1>2, <1>3, <1>4, <2>1, Zenon
  <1>11. /\ Number(HEX, SubSeq(s, 20, 23)) \div BYTE = u.clock_seq_hi_and_reserved
         /\ Number(HEX, SubSeq(s, 20, 23)) % BYTE = u.clock_seq_low
    <2>1. PICK b \in Nat \ {0} : b = BYTE
      BY LongWidths
    <2>2. PICK hi \in Nat : hi = u.clock_seq_hi_and_reserved
      BY <1>1, <2>1
    <2>3. PICK lo \in 0..(b - 1) : lo = u.clock_seq_low
      BY <1>1, <2>1
    <2>4. PICK h \in Nat : h = HEX
      BY <1>0
    <2>5. Number(h, SubSeq(s, 20, 23)) = Number(h, H) * (h * h) + Number(h, L)
      BY <1>8, ClockRead
    <2>6. Number(HEX, SubSeq(s, 20, 23)) = hi * b + lo
      BY <1>5, <1>6, <2>1, <2>2, <2>3, <2>4, <2>5, Zenon DEF BYTE
    <2>7. (hi * b + lo) \div b = hi /\ (hi * b + lo) % b = lo
      BY HighLow
    <2> QED
      BY <2>1, <2>2, <2>3, <2>6, <2>7, Zenon
  <1>12. [i \in 1..6 |-> Number(HEX, SubSeq(s, 23 + 2*i, 24 + 2*i))] = u.node
    <2>1. ASSUME NEW i \in 1..6
          PROVE  Number(HEX, SubSeq(s, 23 + 2*i, 24 + 2*i)) = u.node[i]
      <3>1. u.node[i] \in 0..(BYTE - 1)
        BY <1>1 DEF Nodes
      <3>2. PICK e \in Seq(Int) :
              e = InBase(HEX, u.node[i], 2) /\ Len(e) = 2 /\ Number(HEX, e) = u.node[i]
        BY <1>0, <3>1, FieldDigits, DigitsAreInts
      <3>3. Part(N, (2 * i) - 2, e)
        BY <1>7, <3>2
      <3>4. SubSeq(s, 23 + 2*i, 24 + 2*i) = e
        BY <1>8, <3>2, <3>3, NodeRead, Zenon
      <3> QED
        BY <3>2, <3>4, Zenon
    <2>2. u.node = [i \in 1..6 |-> u.node[i]]
      BY <1>1 DEF Nodes
    <2> QED
      BY <2>1, <2>2, Zenon
  <1>13. _uuid_parse(s) = [time_low |-> u.time_low, time_mid |-> u.time_mid,
                           time_hi_and_version |-> u.time_hi_and_version,
                           clock_seq_hi_and_reserved |-> u.clock_seq_hi_and_reserved,
                           clock_seq_low |-> u.clock_seq_low, node |-> u.node]
    BY <1>9, <1>10, <1>11, <1>12, Zenon DEF _uuid_parse
  <1>14. u = [time_low |-> u.time_low, time_mid |-> u.time_mid,
              time_hi_and_version |-> u.time_hi_and_version,
              clock_seq_hi_and_reserved |-> u.clock_seq_hi_and_reserved,
              clock_seq_low |-> u.clock_seq_low, node |-> u.node]
    BY DEF Fields
  <1> QED
    BY <1>8, <1>13, <1>14, Zenon

-----------------------------------------------------------------------------
(* What uuid_generate leaves in the caller's object is in its widths. *)
TextInv ==
    /\ now \in Times
    /\ ClockInv
    /\ last = NoId \/ last \in Fields

LEMMA RestBelow ==
    ASSUME NEW a \in Int, NEW n \in Nat \ {0}
    PROVE  a % n \in 0..(n - 1)
  OBVIOUS

LEMMA ClearedInFields == Cleared \in Fields
  <1>1. /\ 0 \in 0..(LONG - 1) /\ 0 \in 0..(WORD - 1) /\ 0 \in 0..(BYTE - 1)
    BY LongWidths
  <1>2. [i \in 1..6 |-> 0] \in Nodes
    BY <1>1 DEF Nodes
  <1> QED
    BY <1>1, <1>2 DEF Cleared, Fields

(* The version and the variant fit above what they are added to. *)
LEMMA GeneratedInFields ==
    ASSUME NEW node \in Nodes, NEW t \in Nat, NEW s \in Int
    PROVE  _uuid_generate(node, t, s) \in Fields
  <1>1. t % LONG \in 0..(LONG - 1)
    BY LongWidths, RestBelow
  <1>2. (t \div LONG) % WORD \in 0..(WORD - 1)
    <2>1. t \div LONG \in Int
      BY LongWidths, DivMod
    <2> QED
      BY <2>1, LongWidths, RestBelow
  <1>3. ((t \div (LONG * WORD)) % (HEX * BYTE)) + (HEX * BYTE) \in 0..(WORD - 1)
    <2>1. PICK m \in Nat \ {0} : m = HEX * BYTE
      BY LongWidths
    <2>2. PICK q \in Int : q = t \div (LONG * WORD)
      <3>1. LONG * WORD \in Nat \ {0}
        BY LongWidths
      <3> QED
        BY <3>1, DivMod
    <2>3. q % m \in 0..(m - 1)
      BY RestBelow
    <2>4. WORD = HEX * m
      <3>1. (HEX * HEX) * BYTE = HEX * (HEX * BYTE)
        BY LongWidths, Products
      <3> QED
        BY <2>1, <3>1 DEF WORD, BYTE
    <2>5. m + m <= HEX * m
      <3>1. PICK k \in Nat : HEX = k + 2
        BY UuidAssumption, HEX - 2 \in Nat, HEX = (HEX - 2) + 2
      <3>2. (k + 2) * m = (k * m) + m + m /\ k * m \in Nat
        OBVIOUS
      <3> QED
        BY <3>1, <3>2
    <2>6. (q % m) + m \in 0..(WORD - 1)
      BY <2>3, <2>4, <2>5, LongWidths
    <2> QED
      BY <2>1, <2>2, <2>6
  <1>4. s % BYTE \in 0..(BYTE - 1)
    BY LongWidths, RestBelow
  <1>5. ((s \div BYTE) % (BYTE \div 4)) + BYTE \div 2 \in 0..(BYTE - 1)
    <2>1. PICK q \in Int, m \in Nat \ {0} : q = s \div BYTE /\ m = BYTE \div 4
      BY Widths, LongWidths, DivMod
    <2>2. q % m \in 0..(m - 1)
      BY RestBelow
    <2>3. m + BYTE \div 2 <= BYTE /\ BYTE \div 2 \in Nat
      BY <2>1, Widths
    <2>4. (q % m) + BYTE \div 2 \in 0..(BYTE - 1)
      BY <2>2, <2>3, Widths
    <2> QED
      BY <2>1, <2>4
  <1>6. _uuid_generate(node, t, s) =
          [time_low |-> t % LONG,
           time_mid |-> (t \div LONG) % WORD,
           time_hi_and_version |-> ((t \div (LONG * WORD)) % (HEX * BYTE)) + (HEX * BYTE),
           clock_seq_hi_and_reserved |-> ((s \div BYTE) % (BYTE \div 4)) + BYTE \div 2,
           clock_seq_low |-> s % BYTE,
           node |-> node]
    BY DEF _uuid_generate, _uuid_get_time, _uuid_get_clock
  <1>7. \A low \in 0..(LONG - 1), mid \in 0..(WORD - 1), hi \in 0..(WORD - 1),
            chi \in 0..(BYTE - 1), clow \in 0..(BYTE - 1) :
          [time_low |-> low, time_mid |-> mid, time_hi_and_version |-> hi,
           clock_seq_hi_and_reserved |-> chi, clock_seq_low |-> clow,
           node |-> node] \in Fields
    BY DEF Fields
  <1> QED
    BY <1>1, <1>2, <1>3, <1>4, <1>5, <1>6, <1>7, ZenonT(60)

LEMMA StepText == TextInv /\ [Next]_vars => TextInv'
  <1> SUFFICES ASSUME TextInv, [Next]_vars PROVE TextInv'
    OBVIOUS
  <1>1. ClockInv'
    BY StepClock DEF TextInv
  <1>2. now' \in Times
    BY DEF TextInv, Next, Clock, uuid_generate, vars
  <1>3. CASE UNCHANGED last
    BY <1>1, <1>2, <1>3, Zenon DEF TextInv
  <1>4. CASE uuid_generate
    <2>1. PICK ifs \in Interfaces :
            \/ _uuid_get_node(ifs) # NoNode /\ Generate(_uuid_get_node(ifs))
            \/ _uuid_get_node(ifs) = NoNode /\ last' = Cleared
      BY <1>4 DEF uuid_generate
    <2>2. CASE last' = Cleared
      BY <1>1, <1>2, <2>2, ClearedInFields, Zenon DEF TextInv
    <2>3. CASE _uuid_get_node(ifs) # NoNode /\ Generate(_uuid_get_node(ifs))
      <3>1. last' = _uuid_generate(_uuid_get_node(ifs), now, seq')
        BY <2>3 DEF Generate
      <3>2. seq' \in Int /\ now \in Nat
        BY <1>1, UuidAssumption DEF ClockInv, TextInv
      <3>3. last' \in Fields
        BY <2>3, <3>1, <3>2, NodeFound, GeneratedInFields, Zenon
      <3> QED
        BY <1>1, <1>2, <3>3, Zenon DEF TextInv
    <2> QED
      BY <2>1, <2>2, <2>3
  <1> QED
    BY <1>3, <1>4 DEF Next, Clock, vars

(* The string that uuid_unparse gives a browser, for any digit base, clock *)
(* and interfaces, is read by uuid_parse as the very id it was made from.  *)
THEOREM TextNames == Spec => []TextIdentifies
  <1>1. Init => TextInv
    BY InitClock DEF Init, TextInv
  <1>2. TextInv => TextIdentifies
    <2> SUFFICES ASSUME TextInv, last # NoId PROVE TextIdentifies
      BY DEF TextIdentifies
    <2>1. last \in Fields
      BY DEF TextInv
    <2>2. /\ _uuid_unpack(_uuid_pack(last)) = last
          /\ _uuid_parse(_uuid_unparse(last)) = last
      BY <2>1, PackUnpack, ParseUnparse
    <2>3. uuid_parse(uuid_unparse(_uuid_pack(last))) = _uuid_pack(last)
      BY <2>2, Zenon DEF uuid_parse, uuid_unparse
    <2> QED
      BY <2>2, <2>3 DEF TextIdentifies
  <1> QED
    BY <1>1, <1>2, StepText, PTL DEF Spec
=============================================================================
