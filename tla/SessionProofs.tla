--------------------------- MODULE SessionProofs ----------------------------
(***************************************************************************)
(* Proofs about Session: what a session promises for its data follows from *)
(* its few actions, for every number of sessions and of pieces of data.    *)
(***************************************************************************)
EXTENDS Session, SequenceTheorems, TLAPS

(* Sequences put together and taken apart. *)
LEMMA ConcatFacts ==
    ASSUME NEW S, NEW a \in Seq(S), NEW b \in Seq(S)
    PROVE  /\ a \o b \in Seq(S)
           /\ Len(a \o b) = Len(a) + Len(b)
           /\ DOMAIN (a \o b) = 1..(Len(a) + Len(b))
           /\ \A i \in 1..Len(a) : (a \o b)[i] = a[i]
           /\ \A i \in 1..Len(b) : (a \o b)[Len(a) + i] = b[i]
  <1>1. a \o b \in Seq(S) /\ Len(a \o b) = Len(a) + Len(b)
    BY ConcatProperties
  <1> QED BY <1>1


LEMMA DropFacts ==
    ASSUME NEW S, NEW b \in Seq(S), NEW n \in 0..Len(b)
    PROVE  /\ Drop(b, n) \in Seq(S) /\ Len(Drop(b, n)) = Len(b) - n
           /\ \A i \in 1..(Len(b) - n) : Drop(b, n)[i] = b[n + i]
           /\ SubSeq(b, 1, n) \in Seq(S) /\ Len(SubSeq(b, 1, n)) = n
           /\ \A i \in 1..n : SubSeq(b, 1, n)[i] = b[i]
  BY DEF Drop

(* What was delivered, followed by what waits, when a piece is added at    *)
(* its end, when pieces move from one to the other, and when they are      *)
(* dropped between the two.                                                *)
LEMMA ConcatAppend ==
    ASSUME NEW S, NEW a \in Seq(S), NEW b \in Seq(S), NEW e \in S
    PROVE  a \o Append(b, e) = Append(a \o b, e)
  BY ConcatFacts

LEMMA ConcatMove ==
    ASSUME NEW S, NEW a \in Seq(S), NEW b \in Seq(S), NEW n \in 0..Len(b)
    PROVE  (a \o SubSeq(b, 1, n)) \o Drop(b, n) = a \o b
  <1>1. SubSeq(b, 1, n) \in Seq(S) /\ Drop(b, n) \in Seq(S)
    BY DropFacts
  <1>2. SubSeq(b, 1, n) \o SubSeq(b, n + 1, Len(b)) = SubSeq(b, 1, Len(b))
    <2>1. 1 \in 1..(Len(b) + 1) /\ n \in (1 - 1)..Len(b) /\ Len(b) \in n..Len(b)
      OBVIOUS
    <2> QED BY <2>1, ConcatAdjacentSubSeq
  <1>3. SubSeq(b, 1, Len(b)) = b
    BY SubSeqFull
  <1>4. SubSeq(b, 1, n) \o Drop(b, n) = b
    BY <1>2, <1>3 DEF Drop
  <1>5. PICK l \in Seq(S), r \in Seq(S) : l = SubSeq(b, 1, n) /\ r = Drop(b, n)
    BY <1>1
  <1>6. (a \o l) \o r = a \o (l \o r)
    BY ConcatAssociative, SMTT(30)
  <1> QED BY <1>4, <1>5, <1>6

LEMMA TailIsDrop ==
    ASSUME NEW S, NEW b \in Seq(S), b # <<>>
    PROVE  /\ Tail(b) = Drop(b, 1) /\ 1 \in 0..Len(b) /\ Tail(b) \in Seq(S)
           /\ Head(b) \in S /\ SubSeq(b, 1, 1) = <<Head(b)>>
  <1>1. Head(b) \in S /\ Tail(b) \in Seq(S) /\ Len(b) >= 1
    BY HeadTailProperties, EmptySeq
  <1>2. Tail(b) = Drop(b, 1)
    BY TailIsSubSeq DEF Drop
  <1>3. SubSeq(b, 1, 1) \in Seq(S) /\ Len(SubSeq(b, 1, 1)) = 1 /\ SubSeq(b, 1, 1)[1] = Head(b)
    BY <1>1
  <1>4. SubSeq(b, 1, 1) = <<Head(b)>>
    <2> DEFINE l == SubSeq(b, 1, 1)
    <2>1. l \in Seq(S) /\ Len(l) = 1 /\ l[1] = Head(b)
      BY <1>3
    <2> HIDE DEF l
    <2>2. l = <<Head(b)>>
      BY <2>1
    <2> QED BY <2>2 DEF l
  <1> QED BY <1>1, <1>2, <1>4

LEMMA EmptyIsDrop ==
    ASSUME NEW S, NEW b \in Seq(S)
    PROVE  <<>> = Drop(b, Len(b)) /\ Len(b) \in 0..Len(b)
  BY DEF Drop

(* Ordered survives all of these. *)
LEMMA OrderedMore ==
    ASSUME NEW n \in Nat, NEW l \in Seq(Nat), Ordered(l, n)
    PROVE  /\ Ordered(l, n + 1)
           /\ Ordered(Append(l, n + 1), n + 1)
  BY DEF Ordered

LEMMA OrderedDrop ==
    ASSUME NEW m \in Nat, NEW a \in Seq(Nat), NEW b \in Seq(Nat),
           Ordered(a \o b, m), NEW n \in 0..Len(b)
    PROVE  Ordered(a \o Drop(b, n), m)
  <1> DEFINE At(i) == IF i <= Len(a) THEN i ELSE i + n
  <1>1. PICK d \in Seq(Nat) :
            /\ d = Drop(b, n) /\ Len(d) = Len(b) - n
            /\ \A i \in 1..(Len(b) - n) : d[i] = b[n + i]
    BY DropFacts
  <1>2. DOMAIN (a \o d) = 1..(Len(a) + Len(d)) /\ DOMAIN (a \o b) = 1..(Len(a) + Len(b))
    <2>1. d \in Seq(Nat)
      BY <1>1
    <2> QED BY <2>1, ConcatFacts, ZenonT(30)
  <1>3. PICK la \in Nat, lb \in Nat : la = Len(a) /\ lb = Len(b)
    OBVIOUS
  <1>5. n \in Nat /\ n <= lb /\ Len(d) = lb - n
    BY <1>1, <1>3
  <1>6. ASSUME NEW i \in DOMAIN (a \o d)
        PROVE  At(i) \in DOMAIN (a \o b) /\ (a \o d)[i] = (a \o b)[At(i)]
    <2>0. i \in 1..(la + lb - n)
      BY <1>2, <1>3, <1>5
    <2>1. CASE i <= la
      <3>1. i \in 1..Len(a) /\ i \in DOMAIN (a \o b) /\ At(i) = i
        BY <2>0, <2>1, <1>2, <1>3
      <3>2. (a \o d)[i] = a[i] /\ (a \o b)[i] = a[i]
        BY <3>1, <1>1, ConcatFacts
      <3> QED BY <3>1, <3>2
    <2>2. CASE i > la
      <3>1. PICK k \in 1..(lb - n) : i = la + k
        BY <2>0, <2>2, <1>5
      <3>2. (a \o d)[Len(a) + k] = d[k] /\ d[k] = b[n + k]
        <4>1. k \in 1..Len(d) /\ k \in 1..(Len(b) - n)
          BY <3>1, <1>3, <1>5
        <4>2. \A x \in 1..Len(d) : (a \o d)[Len(a) + x] = d[x]
          BY ConcatFacts
        <4> QED BY <4>1, <4>2, <1>1
      <3>3. n + k \in 1..Len(b)
        BY <3>1, <1>3, <1>5
      <3>4. (a \o b)[Len(a) + (n + k)] = b[n + k]
        BY <3>3, ConcatFacts
      <3>5. At(i) = la + (n + k) /\ la + (n + k) \in 1..(la + lb)
        BY <3>1, <3>3, <1>3, <1>5, SMTT(30)
      <3> QED BY <3>1, <3>2, <3>4, <3>5, <1>2, <1>3
    <2> QED BY <2>0, <2>1, <2>2, SMTT(30)
  <1>4. \A i, j \in DOMAIN (a \o d) : i < j => At(i) < At(j)
    BY <1>2, <1>3, <1>5
  <1>7. Ordered(a \o d, m)
    BY <1>6, <1>4 DEF Ordered
  <1> QED BY <1>1, <1>7

(* The same facts, for what the model's sequences hold. *)
LEMMA Moves ==
    \A a, b \in Seq(Nat) :
        /\ \A e \in Nat : a \o Append(b, e) = Append(a \o b, e)
        /\ \A n \in 0..Len(b) : (a \o SubSeq(b, 1, n)) \o Drop(b, n) = a \o b
        /\ b # <<>> => Append(a, Head(b)) \o Tail(b) = a \o b
  <1> SUFFICES ASSUME NEW a \in Seq(Nat), NEW b \in Seq(Nat)
      PROVE  /\ \A e \in Nat : a \o Append(b, e) = Append(a \o b, e)
             /\ \A n \in 0..Len(b) : (a \o SubSeq(b, 1, n)) \o Drop(b, n) = a \o b
             /\ b # <<>> => Append(a, Head(b)) \o Tail(b) = a \o b
    OBVIOUS
  <1>1. \A e \in Nat : a \o Append(b, e) = Append(a \o b, e)
    BY ConcatAppend
  <1>2. \A n \in 0..Len(b) : (a \o SubSeq(b, 1, n)) \o Drop(b, n) = a \o b
    BY ConcatMove
  <1>3. ASSUME b # <<>> PROVE Append(a, Head(b)) \o Tail(b) = a \o b
    <2>1. /\ Tail(b) = Drop(b, 1) /\ 1 \in 0..Len(b)
          /\ Head(b) \in Nat /\ SubSeq(b, 1, 1) = <<Head(b)>>
      BY <1>3, TailIsDrop
    <2>2. Append(a, Head(b)) = a \o <<Head(b)>>
      BY <2>1, AppendIsConcat
    <2>3. (a \o SubSeq(b, 1, 1)) \o Drop(b, 1) = a \o b
      BY <2>1, <1>2
    <2> QED BY <2>1, <2>2, <2>3
  <1> QED BY <1>1, <1>2, <1>3

-----------------------------------------------------------------------------
LEMMA SessionInit == ASSUME Init PROVE SessionInv
  BY DEF Init, SessionInv, Types, Quiet, InOrder, Complete, Ordered

LEMMA TypesNext == ASSUME SessionInv, [Next]_vars PROVE Types'
  <1> USE DEF SessionInv, Types
  <1>1. ASSUME NEW S \in SUBSET Sid, Lose(S) PROVE Types'
    BY <1>1 DEF Lose, downward, upward
  <1>2. ASSUME NEW s \in Sid, Connect(s) \/ Establish(s) \/ Tell(s) PROVE Types'
    BY <1>2 DEF Connect, Establish, Tell, downward, upward
  <1>3. ASSUME NEW s \in Sid, Reclaim(s) PROVE Types'
    BY <1>3 DEF Reclaim
  <1>4. ASSUME NEW s \in Sid, Arrive(s) \/ Post(s) \/ Write(s) PROVE Types'
    <2>1. /\ arrived[s] + 1 \in Nat /\ Append(inbox[s], arrived[s] + 1) \in Seq(Nat)
          /\ posted[s] + 1 \in Nat /\ Append(outbox[s], posted[s] + 1) \in Seq(Nat)
      OBVIOUS
    <2>2. outbox[s] # <<>> =>
              /\ Tail(outbox[s]) \in Seq(Nat)
              /\ Append(written[s], Head(outbox[s])) \in Seq(Nat)
      BY TailIsDrop
    <2>3. CASE Arrive(s)
      BY <2>1, <2>3 DEF Arrive, upward
    <2>4. CASE Post(s)
      BY <2>1, <2>4 DEF Post, downward
    <2>5. CASE Write(s)
      BY <2>2, <2>5 DEF Write, downward
    <2> QED BY <1>4, <2>3, <2>4, <2>5
  <1>5. ASSUME NEW s \in Sid, NEW n \in 0..Len(inbox[s]), Poll(s, n) \/ PollFails(s, n)
        PROVE  Types'
    <2>1. inbox[s] \in Seq(Nat) /\ polled[s] \in Seq(Nat)
      OBVIOUS
    <2>2. Drop(inbox[s], n) \in Seq(Nat) /\ SubSeq(inbox[s], 1, n) \in Seq(Nat)
      BY <2>1, DropFacts
    <2>3. polled[s] \o SubSeq(inbox[s], 1, n) \in Seq(Nat)
      BY <2>1, <2>2, ConcatFacts
    <2> QED BY <1>5, <2>2, <2>3 DEF Poll, PollFails, upward
  <1>6. CASE UNCHANGED vars
    BY <1>6 DEF vars, downward, upward
  <1> QED BY <1>1, <1>2, <1>3, <1>4, <1>5, <1>6 DEF Next

LEMMA QuietNext == ASSUME SessionInv, [Next]_vars PROVE Quiet'
  <1> USE DEF SessionInv, Types, Quiet
  <1>1. ASSUME NEW S \in SUBSET Sid, Lose(S) PROVE Quiet'
    BY <1>1 DEF Lose, downward, upward
  <1>2. ASSUME NEW s \in Sid, Connect(s) \/ Establish(s) \/ Tell(s) \/ Reclaim(s)
        PROVE  Quiet'
    BY <1>2 DEF Connect, Establish, Tell, Reclaim, downward, upward
  <1>3. ASSUME NEW s \in Sid, Arrive(s) \/ Post(s) \/ Write(s) PROVE Quiet'
    BY <1>3 DEF Arrive, Post, Write, downward, upward
  <1>4. ASSUME NEW s \in Sid, NEW n \in 0..Len(inbox[s]), Poll(s, n) \/ PollFails(s, n)
        PROVE  Quiet'
    BY <1>4 DEF Poll, PollFails, upward
  <1>5. CASE UNCHANGED vars
    BY <1>5 DEF vars, downward, upward
  <1> QED BY <1>1, <1>2, <1>3, <1>4, <1>5 DEF Next

LEMMA InOrderNext == ASSUME SessionInv, [Next]_vars PROVE InOrder'
  <1> USE DEF SessionInv, Types, InOrder
  <1>0. /\ Types'
        /\ \A s \in Sid : /\ inbox[s] \in Seq(Nat) /\ polled[s] \in Seq(Nat)
                          /\ outbox[s] \in Seq(Nat) /\ written[s] \in Seq(Nat)
                          /\ arrived[s] \in Nat /\ posted[s] \in Nat
                          /\ polled[s] \o inbox[s] \in Seq(Nat)
                          /\ written[s] \o outbox[s] \in Seq(Nat)
    BY TypesNext, ConcatFacts
  <1>1. ASSUME NEW s \in Sid, Arrive(s) PROVE InOrder'
    <2>1. Ordered(polled[s] \o inbox[s], arrived[s] + 1)
      BY <1>0, OrderedMore
    <2>2. Ordered(polled[s] \o Append(inbox[s], arrived[s] + 1), arrived[s] + 1)
      <3>1. polled[s] \o Append(inbox[s], arrived[s] + 1)
                = Append(polled[s] \o inbox[s], arrived[s] + 1)
        <4>1. PICK a \in Seq(Nat), b \in Seq(Nat), n \in Nat :
                  a = polled[s] /\ b = inbox[s] /\ n = arrived[s] + 1
          BY <1>0
        <4>2. a \o Append(b, n) = Append(a \o b, n)
          BY Moves
        <4> QED BY <4>1, <4>2
      <3> QED BY <3>1, <1>0, OrderedMore
    <2>3. inbox'[s] \in {inbox[s], Append(inbox[s], arrived[s] + 1)} /\ arrived'[s] = arrived[s] + 1
      BY <1>1 DEF Arrive
    <2>4. Ordered(polled[s] \o inbox'[s], arrived'[s])
      BY <2>1, <2>2, <2>3
    <2> QED BY <1>1, <2>4 DEF Arrive, upward
  <1>2. ASSUME NEW s \in Sid, Post(s) PROVE InOrder'
    <2>1. written[s] \o Append(outbox[s], posted[s] + 1)
              = Append(written[s] \o outbox[s], posted[s] + 1)
      <3>1. PICK a \in Seq(Nat), b \in Seq(Nat), n \in Nat :
                a = written[s] /\ b = outbox[s] /\ n = posted[s] + 1
        BY <1>0
      <3>2. a \o Append(b, n) = Append(a \o b, n)
        BY Moves
      <3> QED BY <3>1, <3>2
    <2>2. Ordered(written[s] \o Append(outbox[s], posted[s] + 1), posted[s] + 1)
      BY <2>1, <1>0, OrderedMore
    <2> QED BY <1>2, <2>2 DEF Post, downward
  <1>3. ASSUME NEW s \in Sid, Write(s) PROVE InOrder'
    <2>0. /\ outbox[s] # <<>>
          /\ Tail(outbox[s]) = Drop(outbox[s], 1) /\ 1 \in 0..Len(outbox[s])
          /\ Head(outbox[s]) \in Nat /\ SubSeq(outbox[s], 1, 1) = <<Head(outbox[s])>>
      BY <1>0, <1>3, TailIsDrop DEF Write
    <2>1. Ordered(written[s] \o Tail(outbox[s]), posted[s])
      BY <1>0, <2>0, OrderedDrop
    <2>2. Append(written[s], Head(outbox[s])) \o Tail(outbox[s]) = written[s] \o outbox[s]
      BY <1>0, <2>0, Moves
    <2>3. /\ outbox'[s] = Tail(outbox[s])
          /\ written'[s] \in {written[s], Append(written[s], Head(outbox[s]))}
      BY <1>3 DEF Write
    <2>4. Ordered(written'[s] \o outbox'[s], posted[s])
      BY <2>1, <2>2, <2>3
    <2> QED BY <1>3, <2>4 DEF Write, downward
  <1>4. ASSUME NEW s \in Sid, NEW n \in 0..Len(inbox[s]), Poll(s, n) PROVE InOrder'
    <2>1. (polled[s] \o SubSeq(inbox[s], 1, n)) \o Drop(inbox[s], n) = polled[s] \o inbox[s]
      BY <1>0, Moves
    <2> QED BY <1>4, <2>1 DEF Poll, upward
  <1>5. ASSUME NEW s \in Sid, NEW n \in 0..Len(inbox[s]), PollFails(s, n) PROVE InOrder'
    <2>1. Ordered(polled[s] \o Drop(inbox[s], n), arrived[s])
      BY <1>0, OrderedDrop
    <2> QED BY <1>5, <2>1 DEF PollFails, upward
  <1>6. ASSUME NEW s \in Sid, Reclaim(s) PROVE InOrder'
    <2>1. Ordered(polled[s] \o <<>>, arrived[s]) /\ Ordered(written[s] \o <<>>, posted[s])
      <3>1. /\ <<>> = Drop(inbox[s], Len(inbox[s])) /\ Len(inbox[s]) \in 0..Len(inbox[s])
            /\ <<>> = Drop(outbox[s], Len(outbox[s])) /\ Len(outbox[s]) \in 0..Len(outbox[s])
        BY <1>0, EmptyIsDrop
      <3> QED BY <1>0, <3>1, OrderedDrop
    <2> QED BY <1>6, <2>1 DEF Reclaim
  <1>7. ASSUME NEW s \in Sid, Connect(s) \/ Establish(s) \/ Tell(s) PROVE InOrder'
    BY <1>7 DEF Connect, Establish, Tell, downward, upward
  <1>8. ASSUME NEW S \in SUBSET Sid, Lose(S) PROVE InOrder'
    BY <1>8 DEF Lose, downward, upward
  <1>9. CASE UNCHANGED vars
    BY <1>9 DEF vars, downward, upward
  <1> QED BY <1>1, <1>2, <1>3, <1>4, <1>5, <1>6, <1>7, <1>8, <1>9 DEF Next

LEMMA CompleteNext == ASSUME SessionInv, [Next]_vars PROVE Complete'
  <1> USE DEF SessionInv, Types, Complete
  <1>0. \A s \in Sid : inbox[s] \in Seq(Nat) /\ polled[s] \in Seq(Nat) /\ arrived[s] \in Nat
    OBVIOUS
  <1>1. ASSUME NEW s \in Sid, Arrive(s) PROVE Complete'
    <2>1. polled[s] \o inbox[s] = [i \in 1..arrived[s] |-> i] =>
              polled[s] \o Append(inbox[s], arrived[s] + 1) = [i \in 1..(arrived[s] + 1) |-> i]
      <3>1. polled[s] \o Append(inbox[s], arrived[s] + 1)
                = Append(polled[s] \o inbox[s], arrived[s] + 1)
        BY <1>0, Moves, SMTT(30)
      <3>2. \A n \in Nat : Append([i \in 1..n |-> i], n + 1) = [i \in 1..(n + 1) |-> i]
        OBVIOUS
      <3> QED BY <1>0, <3>1, <3>2
    <2> QED BY <1>1, <2>1 DEF Arrive, upward
  <1>2. ASSUME NEW s \in Sid, Post(s) \/ Write(s) \/ Tell(s) PROVE Complete'
    BY <1>2 DEF Post, Write, Tell, downward, upward
  <1>3. ASSUME NEW s \in Sid, NEW n \in 0..Len(inbox[s]), Poll(s, n) PROVE Complete'
    <2>1. (polled[s] \o SubSeq(inbox[s], 1, n)) \o Drop(inbox[s], n) = polled[s] \o inbox[s]
      BY <1>0, Moves
    <2> QED BY <1>3, <2>1 DEF Poll, upward
  <1>4. ASSUME NEW s \in Sid, NEW n \in 0..Len(inbox[s]), PollFails(s, n) PROVE Complete'
    BY <1>4 DEF PollFails, upward
  <1>5. ASSUME NEW s \in Sid, Establish(s) PROVE Complete'
    <2>1. polled[s] = <<>> /\ inbox[s] = <<>> /\ arrived[s] = 0
      BY <1>5 DEF Establish, Quiet
    <2>2. polled[s] \o inbox[s] = [i \in 1..arrived[s] |-> i]
      BY <2>1
    <2> QED BY <1>5, <2>2 DEF Establish, downward, upward
  <1>6. ASSUME NEW s \in Sid, Connect(s) \/ Reclaim(s) PROVE Complete'
    BY <1>6 DEF Connect, Reclaim, downward, upward
  <1>7. ASSUME NEW S \in SUBSET Sid, Lose(S) PROVE Complete'
    BY <1>7 DEF Lose, downward, upward
  <1>8. CASE UNCHANGED vars
    BY <1>8 DEF vars, downward, upward
  <1> QED BY <1>1, <1>2, <1>3, <1>4, <1>5, <1>6, <1>7, <1>8 DEF Next

(* Whatever becomes of a session, its browser is sent the backend's data   *)
(* and its backend the browser's in order and without duplicates, and      *)
(* while it is up and memory lasts nothing that arrived is missing.        *)
THEOREM SessionInvariant == Spec => []SessionInv
  <1>1. ASSUME SessionInv, [Next]_vars PROVE SessionInv'
    BY <1>1, TypesNext, QuietNext, InOrderNext, CompleteNext DEF SessionInv
  <1> QED BY SessionInit, <1>1, PTL DEF Spec
=============================================================================
