--------------------------- MODULE PollBodyProofs ---------------------------
(***************************************************************************)
(* Proofs about PollBody, for every threshold and all sizes of chunks: no  *)
(* byte goes unnoticed, no path of Server::onPoll but one loses a block,   *)
(* and how long a body may become.  PollInv is inductive.                  *)
(*                                                                         *)
(* What FoldLeft sums up is found by induction, in the form of a least     *)
(* counterexample: the order of the naturals is well-founded.              *)
(***************************************************************************)
EXTENDS PollBody, SequenceTheorems, WellFoundedInduction, TLAPS

LEMMA LeastNat ==
    ASSUME NEW S, S \subseteq Nat, S # {}
    PROVE  \E n \in S : \A m \in S : n <= m
  <1>1. \A x, y \in Nat : y < x => <<y, x>> \in OpToRel(<, Nat)
    BY DEF OpToRel
  <1>2. \E R : IsWellFoundedOn(R, Nat) /\ \A x, y \in Nat : y < x => <<y, x>> \in R
    BY <1>1, NatLessThanWellFounded, Zenon
  <1>3. PICK R : IsWellFoundedOn(R, Nat) /\ \A x, y \in Nat : y < x => <<y, x>> \in R
    BY <1>2
  <1>4. PICK n \in S : \A m \in S : ~(<<m, n>> \in R)
    BY <1>3, WFMin
  <1>5. ASSUME NEW m \in S PROVE n <= m
    <2>1. n \in Nat /\ m \in Nat
      OBVIOUS
    <2>2. ~(m < n)
      BY <1>3, <1>4, <2>1
    <2> QED
      BY <2>1, <2>2
  <1> QED
    BY <1>5

(* A set of numbers that holds 0, and with each number the next, has all.  *)
LEMMA NatsBy ==
    ASSUME NEW S, 0 \in S, \A n \in Nat : n \in S => n + 1 \in S
    PROVE  Nat \subseteq S
  <1> DEFINE T == Nat \ S
  <1>1. SUFFICES ASSUME T # {} PROVE FALSE
    OBVIOUS
  <1>2. PICK n \in T : \A m \in T : n <= m
    <2>1. T \subseteq Nat
      OBVIOUS
    <2> HIDE DEF T
    <2> QED
      BY <1>1, <2>1, LeastNat
  <1>3. n \in Nat /\ n # 0 /\ n \notin S
    OBVIOUS
  <1>4. n - 1 \in Nat /\ (n - 1) + 1 = n /\ ~(n <= n - 1)
    BY <1>3
  <1>5. n - 1 \in S
    BY <1>2, <1>4
  <1> QED
    BY <1>3, <1>4, <1>5

-----------------------------------------------------------------------------
LEMMA MaxIs ==
    ASSUME NEW S, S \subseteq Int, NEW n \in S, \A m \in S : m <= n
    PROVE  Max(S) = n
  <1>1. ASSUME NEW m \in S PROVE n >= m
    OBVIOUS
  <1>2. Max(S) \in S /\ \A m \in S : Max(S) >= m
    <2>1. \E x \in S : \A m \in S : x >= m
      BY <1>1
    <2> QED
      BY <2>1 DEF Max
  <1>3. PICK x \in S : x = Max(S) /\ x >= n
    BY <1>2
  <1>4. x \in Int /\ n \in Int /\ x <= n
    OBVIOUS
  <1> QED
    BY <1>3, <1>4

(* Bytes: FoldLeft is a function on sets of places, which exists, and adds *)
(* one place after the other.                                              *)
IsFold(f, n, q) ==
    f = [s \in SUBSET (1..n) |-> IF s = {} THEN 0 ELSE f[s \ {Max(s)}] + q[Max(s)]]

LEMMA FoldExists == ASSUME NEW q PROVE \A n \in Nat : \E f : IsFold(f, n, q)
  <1> DEFINE S == {n \in Nat : \E f : IsFold(f, n, q)}
  <1>1. 0 \in S
    <2> DEFINE f == [s \in SUBSET (1..0) |-> 0]
    <2>1. \A s \in SUBSET (1..0) : s = {}
      OBVIOUS
    <2>2. IsFold(f, 0, q)
      BY <2>1 DEF IsFold
    <2> QED
      BY <2>2
  <1>2. ASSUME NEW n \in Nat, n \in S PROVE n + 1 \in S
    <2>1. PICK f : IsFold(f, n, q)
      BY <1>2
    <2> DEFINE g == [s \in SUBSET (1..(n + 1)) |->
                        IF n + 1 \in s THEN f[s \ {n + 1}] + q[n + 1] ELSE f[s]]
               Rest(s) == s \ {Max(s)}
    <2>2. \A s \in SUBSET (1..(n + 1)) : n + 1 \notin s => s \in SUBSET (1..n)
      OBVIOUS
    <2>3. ASSUME NEW s \in SUBSET (1..(n + 1))
          PROVE  g[s] = IF s = {} THEN 0 ELSE g[Rest(s)] + q[Max(s)]
      <3>1. CASE n + 1 \in s
        <4>1. Max(s) = n + 1
          <5>1. s \subseteq Int /\ \A m \in s : m <= n + 1
            OBVIOUS
          <5> QED
            BY <3>1, <5>1, MaxIs
        <4>2. g[Rest(s)] = f[s \ {n + 1}] /\ s # {}
          BY <3>1, <4>1
        <4> QED
          BY <3>1, <4>1, <4>2
      <3>2. CASE n + 1 \notin s
        <4>1. s \in SUBSET (1..n) /\ Rest(s) \in SUBSET (1..n)
          BY <3>2, <2>2
        <4>2. f[s] = IF s = {} THEN 0 ELSE f[Rest(s)] + q[Max(s)]
          BY <4>1, <2>1 DEF IsFold
        <4>3. g[s] = f[s] /\ g[Rest(s)] = f[Rest(s)]
          <5>1. n + 1 \notin Rest(s) /\ Rest(s) \in SUBSET (1..(n + 1))
            BY <3>2
          <5> HIDE DEF Rest
          <5> QED
            BY <3>2, <5>1
        <4> QED
          BY <4>2, <4>3
      <3> QED
        BY <3>1, <3>2
    <2>4. g = [s \in SUBSET (1..(n + 1)) |-> g[s]]
      OBVIOUS
    <2> HIDE DEF g
    <2>5. IsFold(g, n + 1, q)
      BY <2>3, <2>4 DEF IsFold
    <2> QED
      BY <2>5
  <1> HIDE DEF S
  <1>3. Nat \subseteq S
    BY <1>1, <1>2, NatsBy
  <1> QED
    BY <1>3 DEF S

(* The sums of a queue, chunk by chunk. *)
Sums(p, q) ==
    /\ p \in [0..Len(q) -> Nat]
    /\ p[0] = 0
    /\ \A k \in 1..Len(q) : p[k] = p[k - 1] + q[k]

LEMMA BytesAreSums ==
    ASSUME NEW q \in Seq(Nat)
    PROVE  \E p : Sums(p, q) /\ Bytes(q) = p[Len(q)]
  <1>1. PICK n \in Nat : n = Len(q) /\ DOMAIN q = 1..n
    OBVIOUS
  <1> DEFINE f == CHOOSE f : IsFold(f, n, q)
  <1>2. Bytes(q) = f[1..n]
    BY <1>1 DEF Bytes, FoldLeft, MapThenFoldSet, IsFold
  <1>3. IsFold(f, n, q)
    BY <1>1, FoldExists
  <1> HIDE DEF f
  <1>4. \A s \in SUBSET (1..n) : f[s] = IF s = {} THEN 0 ELSE f[s \ {Max(s)}] + q[Max(s)]
    BY <1>3 DEF IsFold
  <1>5. f[1..0] = 0
    <2>1. 1..0 = {} /\ {} \in SUBSET (1..n)
      OBVIOUS
    <2> QED
      BY <1>4, <2>1
  <1>6. ASSUME NEW k \in 1..n PROVE f[1..k] = f[1..(k - 1)] + q[k]
    <2>1. /\ \A i \in 1..k : i \in 1..n /\ i <= k
          /\ k \in 1..k
      BY <1>1
    <2>2. Max(1..k) = k
      <3>1. 1..k \subseteq Int
        OBVIOUS
      <3> QED
        BY <2>1, <3>1, MaxIs
    <2>3. (1..k) \ {k} = 1..(k - 1)
      BY <1>1
    <2> QED
      BY <1>4, <2>1, <2>2, <2>3, Zenon
  <1> DEFINE T == {k \in Nat : k <= n => f[1..k] \in Nat}
  <1>7. Nat \subseteq T
    <2>1. 0 \in T
      BY <1>5
    <2>2. ASSUME NEW k \in Nat, k \in T PROVE k + 1 \in T
      <3>1. SUFFICES ASSUME k + 1 <= n PROVE f[1..(k + 1)] \in Nat
        OBVIOUS
      <3>2. k + 1 \in 1..n /\ (k + 1) - 1 = k /\ k <= n
        BY <1>1, <3>1
      <3>3. f[1..k] \in Nat /\ q[k + 1] \in Nat
        BY <1>1, <2>2, <3>2
      <3>4. f[1..(k + 1)] = f[1..k] + q[k + 1]
        BY <1>6, <3>2
      <3> QED
        BY <3>3, <3>4
    <2> HIDE DEF T
    <2> QED
      BY <2>1, <2>2, NatsBy
  <1> DEFINE p == [k \in 0..n |-> f[1..k]]
  <1>8. p \in [0..n -> Nat]
    BY <1>1, <1>7
  <1>9. Sums(p, q)
    BY <1>1, <1>5, <1>6, <1>8 DEF Sums
  <1> QED
    BY <1>1, <1>2, <1>9

LEMMA BytesEmpty == Bytes(<<>>) = 0
  <1>1. PICK p : Sums(p, <<>>) /\ Bytes(<<>>) = p[Len(<<>>)]
    BY BytesAreSums, <<>> \in Seq(Nat)
  <1> QED
    BY <1>1 DEF Sums

LEMMA BytesAppend ==
    ASSUME NEW q \in Seq(Nat), NEW siz \in Nat
    PROVE  Bytes(Append(q, siz)) = Bytes(q) + siz
  <1>1. PICK p : Sums(p, q) /\ Bytes(q) = p[Len(q)]
    BY BytesAreSums
  <1>2. PICK r : Sums(r, Append(q, siz)) /\ Bytes(Append(q, siz)) = r[Len(Append(q, siz))]
    BY BytesAreSums, Append(q, siz) \in Seq(Nat)
  <1>3. PICK n \in Nat :
          /\ n = Len(q) /\ Len(Append(q, siz)) = n + 1
          /\ \A k \in 1..n : Append(q, siz)[k] = q[k]
          /\ Append(q, siz)[n + 1] = siz
    OBVIOUS
  <1>4. /\ p[0] = 0 /\ \A k \in 1..n : p[k] = p[k - 1] + q[k]
        /\ r[0] = 0 /\ \A k \in 1..n : r[k] = r[k - 1] + q[k]
        /\ r[n + 1] = r[n] + siz
    BY <1>1, <1>2, <1>3 DEF Sums
  <1> DEFINE T == {k \in Nat : k <= n => r[k] = p[k]}
  <1>5. Nat \subseteq T
    <2>1. 0 \in T
      BY <1>4
    <2>2. ASSUME NEW k \in Nat, k \in T PROVE k + 1 \in T
      <3>1. SUFFICES ASSUME k + 1 <= n PROVE r[k + 1] = p[k + 1]
        OBVIOUS
      <3>2. k + 1 \in 1..n /\ (k + 1) - 1 = k /\ k <= n
        BY <1>3, <3>1
      <3> QED
        BY <1>4, <2>2, <3>2
    <2> HIDE DEF T
    <2> QED
      BY <2>1, <2>2, NatsBy
  <1> QED
    BY <1>1, <1>2, <1>3, <1>4, <1>5

LEMMA BytesTail ==
    ASSUME NEW q \in Seq(Nat), q # <<>>
    PROVE  Bytes(q) = Head(q) + Bytes(Tail(q)) /\ Bytes(Tail(q)) \in Nat
  <1>0. Head(q) \in Nat /\ Tail(q) \in Seq(Nat)
    BY HeadTailProperties
  <1>1. PICK p : Sums(p, q) /\ Bytes(q) = p[Len(q)]
    BY BytesAreSums
  <1>2. PICK r : Sums(r, Tail(q)) /\ Bytes(Tail(q)) = r[Len(Tail(q))]
    BY <1>0, BytesAreSums
  <1>3. PICK n \in Nat :
          /\ n + 1 = Len(q) /\ Len(Tail(q)) = n
          /\ \A k \in 1..n : Tail(q)[k] = q[k + 1]
          /\ q[1] = Head(q)
    <2>1. /\ Len(q) \in Nat \ {0}
          /\ Len(Tail(q)) = Len(q) - 1
          /\ \A k \in 1..(Len(q) - 1) : Tail(q)[k] = q[k + 1]
          /\ q[1] = Head(q)
      BY HeadTailProperties, EmptySeq
    <2>2. PICK len \in Nat \ {0} : len = Len(q)
      BY <2>1
    <2>3. len - 1 \in Nat /\ (len - 1) + 1 = len
      BY <2>2
    <2> QED
      BY <2>1, <2>2, <2>3
  <1>4. /\ p[0] = 0 /\ \A k \in 1..(n + 1) : p[k] = p[k - 1] + q[k]
        /\ r[0] = 0 /\ \A k \in 1..n : r[k] = r[k - 1] + q[k + 1]
        /\ \A k \in 0..n : r[k] \in Nat
    BY <1>1, <1>2, <1>3 DEF Sums
  <1>5. \A k \in 1..(n + 1) : q[k] \in Nat
    BY <1>3
  <1> DEFINE T == {k \in Nat : k <= n => p[k + 1] = Head(q) + r[k]}
  <1>6. Nat \subseteq T
    <2>1. 0 \in T
      <3>1. p[1] = p[0] + q[1]
        BY <1>3, <1>4, 1 \in 1..(n + 1), 1 - 1 = 0
      <3> QED
        BY <1>0, <1>3, <1>4, <3>1
    <2>2. ASSUME NEW k \in Nat, k \in T PROVE k + 1 \in T
      <3>1. SUFFICES ASSUME k + 1 <= n PROVE p[(k + 1) + 1] = Head(q) + r[k + 1]
        OBVIOUS
      <3>2. /\ k + 1 \in 1..n /\ (k + 1) - 1 = k /\ k <= n
            /\ (k + 1) + 1 \in 1..(n + 1) /\ ((k + 1) + 1) - 1 = k + 1
            /\ k \in 0..n
        BY <1>3, <3>1
      <3>3. /\ p[(k + 1) + 1] = p[k + 1] + q[(k + 1) + 1]
            /\ r[k + 1] = r[k] + q[(k + 1) + 1]
            /\ p[k + 1] = Head(q) + r[k]
        BY <1>4, <2>2, <3>2
      <3>4. r[k] \in Nat /\ q[(k + 1) + 1] \in Nat
        BY <1>4, <1>5, <3>2
      <3> QED
        BY <1>0, <3>3, <3>4
    <2> HIDE DEF T
    <2> QED
      BY <2>1, <2>2, NatsBy
  <1> QED
    BY <1>1, <1>2, <1>3, <1>4, <1>6

-----------------------------------------------------------------------------
USE PollAssumption

LEMMA LargestIs ==
    /\ Largest \in ChunkSizes
    /\ Largest \in Nat \ {0}
    /\ \A n \in ChunkSizes : n <= Largest
  BY DEF Largest

LEMMA Base64Type == \A n \in Nat : Base64(n) \in Nat
  BY DEF Base64

(* base64 of more is not shorter. *)
LEMMA Base64Monotone == \A m, n \in Nat : m <= n => Base64(m) <= Base64(n)
  BY DEF Base64

LEMMA QueueHead ==
    ASSUME TypeOK, read_queue_ # <<>>
    PROVE  /\ Head(read_queue_) \in ChunkSizes
           /\ Head(read_queue_) \in Nat \ {0}
           /\ Tail(read_queue_) \in Seq(ChunkSizes)
  <1>1. read_queue_ \in Seq(ChunkSizes)
    BY DEF TypeOK
  <1> QED
    BY <1>1, HeadTailProperties

(* The bound of a body, and what a body of up to that many bytes keeps. *)
LEMMA BodyOf ==
    ASSUME NEW n \in Nat, n <= DATA_THRESHOLD - 1 + Largest
    PROVE  Base64(n) <= Base64(DATA_THRESHOLD - 1 + Largest)
  BY LargestIs, Base64Monotone

LEMMA InitPoll == Init => PollInv
  <1> SUFFICES ASSUME Init PROVE PollInv
    OBVIOUS
  <1>1. TypeOK
    BY DEF Init, TypeOK
  <1>2. BlockHeld /\ LeaksOnlyWhenGone
    BY DEF Init, BlockHeld, LeaksOnlyWhenGone
  <1>3. Gathered
    BY LargestIs DEF Init, Gathered
  <1>4. BodyBounded
    BY LargestIs, Base64Type DEF Init, BodyBounded
  <1> QED
    BY <1>1, <1>2, <1>3, <1>4 DEF PollInv

(* Every step of the poll.  What is in the block is freed with it, or      *)
(* counted as aborted.                                                     *)
LEMMA StepPoll == PollInv /\ [Next]_vars => PollInv'
  <1> SUFFICES ASSUME PollInv, [Next]_vars PROVE PollInv'
    OBVIOUS
  <1> USE DEF PollInv
  <1>0. /\ data \in Nat /\ total_siz \in Nat /\ body \in Nat /\ blocks \in Nat
        /\ answered \in Nat /\ aborted \in Nat /\ arrived \in Nat
        /\ data = total_siz
        /\ blocks = (IF data = 0 THEN 0 ELSE 1) + aborted
    BY DEF TypeOK, BlockHeld, LeaksOnlyWhenGone
  <1>1. CASE Server_onPoll
    <2>1. UNCHANGED <<up, chunks, arrived, read_queue_, body, answered, blocks, aborted>>
      BY <1>1 DEF Server_onPoll, backend
    <2>2. pc = "idle" /\ pc' = "read" /\ data' = 0 /\ total_siz' = 0
      BY <1>1 DEF Server_onPoll
    <2>3. TypeOK'
      BY <2>1, <2>2 DEF TypeOK
    <2>4. BlockHeld' /\ Gathered'
      BY <2>2, LargestIs DEF BlockHeld, Gathered
    <2>5. LeaksOnlyWhenGone'
      BY <2>1, <2>2 DEF LeaksOnlyWhenGone, BlockHeld
    <2> QED
      BY <2>1, <2>3, <2>4, <2>5 DEF BodyBounded
  <1>2. CASE ReadGone
    <2>1. UNCHANGED <<up, chunks, arrived, read_queue_, blocks>>
      BY <1>2 DEF ReadGone, backend
    <2>2. /\ pc' = "idle" /\ data' = 0 /\ total_siz' = 0 /\ body' = 0
          /\ answered' = answered + total_siz
          /\ aborted' = aborted + (IF total_siz > 0 THEN 1 ELSE 0)
      BY <1>2 DEF ReadGone, Answer
    <2>3. TypeOK'
      BY <1>0, <2>1, <2>2 DEF TypeOK
    <2>4. BlockHeld' /\ Gathered'
      BY <2>2, LargestIs DEF BlockHeld, Gathered
    <2>5. LeaksOnlyWhenGone'
      BY <1>0, <2>1, <2>2 DEF LeaksOnlyWhenGone
    <2>6. BodyBounded'
      BY <2>2, LargestIs, Base64Type DEF BodyBounded
    <2> QED
      BY <2>3, <2>4, <2>5, <2>6
  <1>3. CASE ReadNothing
    <2>1. UNCHANGED <<up, chunks, arrived, read_queue_, data, total_siz, body, answered,
                      blocks, aborted>>
      BY <1>3 DEF ReadNothing, backend
    <2>2. pc = "read" /\ pc' = "encode"
      BY <1>3 DEF ReadNothing
    <2> QED
      BY <2>1, <2>2 DEF TypeOK, BlockHeld, Gathered, LeaksOnlyWhenGone, BodyBounded
  <1>4. CASE ReadChunk
    <2>1. /\ pc = "read" /\ read_queue_ # <<>>
          /\ read_queue_' = Tail(read_queue_)
          /\ UNCHANGED <<up, chunks, arrived, body, answered, aborted>>
      BY <1>4 DEF ReadChunk, backend
    <2>2. PICK siz \in ChunkSizes : siz = Head(read_queue_) /\ siz \in Nat \ {0}
      BY <2>1, QueueHead
    <2>3. /\ data' = total_siz + siz /\ total_siz' = total_siz + siz
          /\ blocks' = blocks + (IF data = 0 THEN 1 ELSE 0)
          /\ pc' = IF total_siz + siz < DATA_THRESHOLD THEN "read" ELSE "encode"
      BY <1>4, <2>2 DEF ReadChunk, Total, More
    <2>4. TypeOK'
      BY <1>0, <2>1, <2>2, <2>3, QueueHead DEF TypeOK
    <2>5. BlockHeld'
      BY <2>3 DEF BlockHeld
    <2>6. Gathered'
      <3>1. total_siz < DATA_THRESHOLD /\ siz <= Largest
        BY <2>1, <2>2, LargestIs DEF Gathered
      <3> QED
        BY <1>0, <2>2, <2>3, <3>1, LargestIs DEF Gathered
    <2>7. LeaksOnlyWhenGone'
      BY <1>0, <2>1, <2>2, <2>3 DEF LeaksOnlyWhenGone
    <2> QED
      BY <2>1, <2>4, <2>5, <2>6, <2>7 DEF BodyBounded
  <1>5. CASE ReadNoMemory
    <2>1. /\ pc = "read" /\ read_queue_ # <<>>
          /\ read_queue_' = Tail(read_queue_)
          /\ UNCHANGED <<up, chunks, arrived, aborted>>
      BY <1>5 DEF ReadNoMemory, backend
    <2>2. PICK siz \in ChunkSizes : siz = Head(read_queue_) /\ siz \in Nat \ {0}
      BY <2>1, QueueHead
    <2>3. /\ pc' = "idle" /\ total_siz' = 0 /\ body' = 0
          /\ answered' = answered + (total_siz + siz)
          /\ data' = 0 /\ blocks' = aborted
      BY <1>0, <1>5, <2>2 DEF ReadNoMemory, Answer, FreeOnError, Free
    <2>4. TypeOK'
      BY <1>0, <2>1, <2>2, <2>3, QueueHead DEF TypeOK
    <2>5. BlockHeld' /\ Gathered'
      BY <2>3, LargestIs DEF BlockHeld, Gathered
    <2>6. LeaksOnlyWhenGone'
      BY <1>0, <2>1, <2>3 DEF LeaksOnlyWhenGone
    <2>7. BodyBounded'
      BY <2>3, LargestIs, Base64Type DEF BodyBounded
    <2> QED
      BY <2>4, <2>5, <2>6, <2>7
  <1>6. CASE Respond \/ EncodeFails
    <2>1. UNCHANGED <<up, chunks, arrived, read_queue_, aborted>>
      BY <1>6 DEF Respond, EncodeFails, backend
    <2>2. /\ pc' = "idle" /\ total_siz' = 0
          /\ answered' = answered + total_siz
          /\ data' = 0 /\ blocks' = aborted
      BY <1>0, <1>6 DEF Respond, EncodeFails, Answer, FreeOnError, Free
    <2>3. body' \in {0, Base64(total_siz)}
      BY <1>6 DEF Respond, EncodeFails, Answer
    <2>4. TypeOK'
      BY <1>0, <2>1, <2>2, <2>3, Base64Type, SMTT(30) DEF TypeOK
    <2>5. BlockHeld' /\ Gathered'
      BY <2>2, LargestIs DEF BlockHeld, Gathered
    <2>6. LeaksOnlyWhenGone'
      BY <1>0, <2>1, <2>2 DEF LeaksOnlyWhenGone
    <2>7. BodyBounded'
      BY <1>0, <2>3, BodyOf, Base64Type, LargestIs DEF Gathered, BodyBounded
    <2> QED
      BY <2>4, <2>5, <2>6, <2>7
  <1>7. ASSUME NEW siz \in ChunkSizes, ChunkArrives(siz) PROVE PollInv'
    <2>1. UNCHANGED <<up, pc, data, total_siz, body, answered, blocks, aborted>>
      BY <1>7 DEF ChunkArrives
    <2>2. TypeOK'
      BY <1>0, <1>7 DEF TypeOK, ChunkArrives
    <2> QED
      BY <2>1, <2>2 DEF BlockHeld, Gathered, LeaksOnlyWhenGone, BodyBounded
  <1>8. CASE SessionGoes \/ UNCHANGED vars
    <2>1. UNCHANGED <<chunks, arrived, read_queue_, pc, data, total_siz, body,
                      answered, blocks, aborted>> /\ up' \in BOOLEAN
      BY <1>8 DEF SessionGoes, vars, backend, TypeOK
    <2> QED
      BY <2>1 DEF TypeOK, BlockHeld, Gathered, LeaksOnlyWhenGone, BodyBounded
  <1> QED
    BY <1>1, <1>2, <1>3, <1>4, <1>5, <1>6, <1>7, <1>8 DEF Next

(* The invariant: the block holds what the poll has read, and the poll     *)
(* stops reading at the threshold.                                         *)
THEOREM PollInvariant == Spec => []PollInv
  BY InitPoll, StepPoll, PTL DEF Spec

(* Server::onPoll frees each block once, on every path, except where       *)
(* Client::read reports that the session has gone.                         *)
THEOREM BlocksFreed == Spec => []LeaksOnlyWhenGone
  <1>1. PollInv => LeaksOnlyWhenGone
    BY DEF PollInv
  <1> QED
    BY <1>1, PollInvariant, PTL

(* No body is longer than base64 of the threshold and one chunk, less a    *)
(* byte.                                                                   *)
THEOREM BodiesBounded == Spec => []BodyBounded
  <1>1. PollInv => BodyBounded
    BY DEF PollInv
  <1> QED
    BY <1>1, PollInvariant, PTL

(* Each path of the poll moves bytes from the queue to the block and from  *)
(* the block into an answer.                                               *)
LEMMA StepBytes == PollInv /\ BytesAccounted /\ [Next]_vars => BytesAccounted'
  <1> SUFFICES ASSUME PollInv, BytesAccounted, [Next]_vars PROVE BytesAccounted'
    OBVIOUS
  <1>1. /\ total_siz \in Nat /\ answered \in Nat /\ read_queue_ \in Seq(Nat)
        /\ arrived = Bytes(read_queue_) + total_siz + answered
    <2>1. ChunkSizes \subseteq Nat
      OBVIOUS
    <2> QED
      BY <2>1, SeqMonotonic DEF PollInv, TypeOK, BytesAccounted
  <1>2. Bytes(read_queue_) \in Nat
    <2>1. PICK p : Sums(p, read_queue_) /\ Bytes(read_queue_) = p[Len(read_queue_)]
      BY <1>1, BytesAreSums
    <2>2. Len(read_queue_) \in 0..Len(read_queue_)
      BY <1>1
    <2> QED
      BY <2>1, <2>2 DEF Sums
  <1>3. CASE Server_onPoll
    <2>1. /\ total_siz = 0 /\ total_siz' = 0
          /\ UNCHANGED <<arrived, read_queue_, answered>>
      BY <1>3 DEF Server_onPoll, backend, PollInv, BlockHeld
    <2> QED
      BY <2>1 DEF BytesAccounted
  <1>4. CASE ReadGone \/ Respond \/ EncodeFails
    <2>1. /\ total_siz' = 0 /\ answered' = answered + total_siz
          /\ UNCHANGED <<arrived, read_queue_>>
      BY <1>4 DEF ReadGone, Respond, EncodeFails, Answer, backend
    <2> QED
      BY <1>1, <1>2, <2>1 DEF BytesAccounted
  <1>5. CASE ReadChunk \/ ReadNoMemory
    <2>1. /\ read_queue_ # <<>> /\ read_queue_' = Tail(read_queue_) /\ arrived' = arrived
          /\ \/ total_siz' = total_siz + Head(read_queue_) /\ answered' = answered
             \/ total_siz' = 0 /\ answered' = answered + (total_siz + Head(read_queue_))
      BY <1>5 DEF ReadChunk, ReadNoMemory, Answer, Total, backend
    <2>2. /\ Bytes(read_queue_) = Head(read_queue_) + Bytes(read_queue_')
          /\ Bytes(read_queue_') \in Nat /\ Head(read_queue_) \in Nat
      BY <1>1, <2>1, BytesTail, HeadTailProperties
    <2> QED
      BY <1>1, <2>1, <2>2 DEF BytesAccounted
  <1>6. ASSUME NEW siz \in ChunkSizes, ChunkArrives(siz) PROVE BytesAccounted'
    <2>1. /\ read_queue_' = Append(read_queue_, siz) /\ arrived' = arrived + siz
          /\ UNCHANGED <<total_siz, answered>> /\ siz \in Nat
      BY <1>6 DEF ChunkArrives
    <2>2. Bytes(read_queue_') = Bytes(read_queue_) + siz
      BY <1>1, <2>1, BytesAppend
    <2> QED
      BY <1>1, <1>2, <2>1, <2>2 DEF BytesAccounted
  <1>7. CASE ReadNothing \/ SessionGoes \/ UNCHANGED vars
    <2>1. UNCHANGED <<arrived, read_queue_, total_siz, answered>>
      BY <1>7 DEF ReadNothing, SessionGoes, backend, vars
    <2> QED
      BY <2>1 DEF BytesAccounted
  <1> QED
    BY <1>3, <1>4, <1>5, <1>6, <1>7 DEF Next

(* onPoll loses no byte unnoticed: what the backend sent is still queued,  *)
(* in the block, or was answered for.                                      *)
THEOREM BytesFollow == Spec => []BytesAccounted
  <1>1. Init => BytesAccounted
    BY BytesEmpty DEF Init, BytesAccounted
  <1> QED
    BY <1>1, StepBytes, PollInvariant, PTL DEF Spec

=============================================================================
