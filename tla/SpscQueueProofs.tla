-------------------------- MODULE SpscQueueProofs ---------------------------
(***************************************************************************)
(* Proofs about SpscQueue, for every set of addresses, every set of values *)
(* and any number of calls: QueueInv is inductive, and memory safety, the  *)
(* exactness of the pointer comparisons, the absence of leaks and the      *)
(* first-in first-out order follow from it.                                *)
(***************************************************************************)
EXTENDS SpscQueue, SequenceTheorems, WellFoundedInduction, TLAPS

USE QueueAssumption

(* The constructor establishes the invariant: one node, all three pointers *)
(* at it.                                                                  *)
LEMMA InitInv == Init => QueueInv
  <1> SUFFICES ASSUME Init PROVE QueueInv
    OBVIOUS
  <1>1. PICK n \in Node :
           /\ heap = {n}
           /\ value = [m \in Node |-> Default]
           /\ next = [m \in Node |-> NULL]
           /\ first = n /\ divider = n /\ last = n
           /\ pp = "idle" /\ cp = "idle"
           /\ result = Default
           /\ chain = <<n>> /\ produced = <<>> /\ consumed = <<>>
           /\ lo = 1 /\ mid = 1 /\ hi = 1
    BY DEF Init
  <1>2. Len(chain) = 1 /\ chain[1] = n /\ chain \in Seq(Node)
    BY <1>1
  <1>3. TypeOK
    BY <1>1, <1>2 DEF TypeOK
  <1>4. Places
    BY <1>1, <1>2 DEF Places, Alive
  <1>5. Links
    BY <1>1, <1>2 DEF Links
  <1>6. Values
    BY <1>1, <1>2 DEF Values
  <1>7. Reader
    BY <1>1 DEF Reader
  <1> QED BY <1>3, <1>4, <1>5, <1>6, <1>7 DEF QueueInv

(* new Node(t), linked behind last: the fresh address is none of the live  *)
(* ones, so no link but last's changes.                                    *)
LEMMA LinkInv ==
    ASSUME QueueInv, NEW t \in Value, ProduceLink(t)
    PROVE  QueueInv'
  <1>1. PICK n \in Node \ heap :
           /\ heap' = heap \cup {n}
           /\ value' = [value EXCEPT ![n] = t]
           /\ next' = [next EXCEPT ![n] = NULL, ![last] = n]
           /\ chain' = Append(chain, n)
    BY DEF ProduceLink
  <1>2. /\ pp = "idle" /\ pp' = "publish"
        /\ produced' = Append(produced, t)
        /\ UNCHANGED <<first, divider, last, cp, result, consumed, lo, mid, hi>>
    BY DEF ProduceLink, pointers
  <1>3. TypeOK /\ Places /\ Links /\ Values /\ Reader
    BY DEF QueueInv
  <1>4. /\ Len(chain') = Len(chain) + 1
        /\ chain'[Len(chain) + 1] = n
        /\ \A i \in 1..Len(chain) : chain'[i] = chain[i]
        /\ chain' \in Seq(Node)
    BY <1>1, <1>3 DEF TypeOK
  <1>5. /\ Len(produced') = Len(produced) + 1
        /\ produced'[Len(produced) + 1] = t
        /\ \A i \in 1..Len(produced) : produced'[i] = produced[i]
        /\ produced' \in Seq(Value)
    BY <1>2, <1>3 DEF TypeOK
  <1>6. TypeOK'
    BY <1>1, <1>2, <1>3, <1>4, <1>5 DEF TypeOK
  <1>7. Len(chain) = hi /\ lo <= mid /\ mid <= hi /\ lo >= 1 /\ hi \in Nat
        /\ lo \in Nat /\ mid \in Nat /\ last = chain[hi] /\ Len(chain) \in Nat
    BY <1>2, <1>3 DEF Places, Alive, TypeOK
  <1>8. Places'
    BY <1>2, <1>3, <1>4, <1>7 DEF Places, Alive
  <1>9. \A i \in lo..Len(chain) : chain[i] \in heap /\ chain[i] # n
    BY <1>1, <1>3 DEF Links
  <1>10. Links'
    <2>1. heap' = {chain'[i] : i \in lo'..Len(chain')}
      <3>1. lo'..Len(chain') = (lo..Len(chain)) \cup {Len(chain) + 1}
        BY <1>2, <1>4, <1>7
      <3>2. \A i \in lo..Len(chain) : chain'[i] = chain[i]
        BY <1>4, <1>7
      <3>3. heap = {chain[i] : i \in lo..Len(chain)}
        BY <1>3 DEF Links
      <3>4. ASSUME NEW x PROVE x \in heap' <=> \E i \in lo'..Len(chain') : x = chain'[i]
        <4>1. x \in heap' <=> x \in heap \/ x = n
          BY <1>1
        <4>2. x \in heap <=> \E i \in lo..Len(chain) : x = chain[i]
          BY <3>3
        <4>3. (\E i \in lo'..Len(chain') : x = chain'[i])
                <=> (\E i \in lo..Len(chain) : x = chain'[i]) \/ x = chain'[Len(chain) + 1]
          BY <3>1
        <4> QED BY <4>1, <4>2, <4>3, <3>2, <1>4
      <3> QED BY <3>4
    <2>2. ASSUME NEW i \in lo'..Len(chain'), NEW j \in lo'..Len(chain'),
                 chain'[i] = chain'[j]
          PROVE  i = j
      <3>1. \A k \in lo'..Len(chain') :
               k = Len(chain) + 1 \/ (k \in lo..Len(chain) /\ chain'[k] = chain[k])
        BY <1>2, <1>4, <1>7
      <3>2. CASE i \in lo..Len(chain) /\ j \in lo..Len(chain)
        BY <3>2, <2>2, <1>3, <1>4, <1>7 DEF Links
      <3>3. CASE ~(i \in lo..Len(chain) /\ j \in lo..Len(chain))
        BY <3>1, <3>3, <2>2, <1>4, <1>9
      <3> QED BY <3>2, <3>3
    <2>3. ASSUME NEW i \in lo'..Len(chain')
          PROVE  next'[chain'[i]] = IF i < Len(chain') THEN chain'[i + 1] ELSE NULL
      <3>1. CASE i = Len(chain) + 1
        BY <3>1, <1>1, <1>3, <1>4, <1>7, <1>9 DEF TypeOK
      <3>2. CASE i = hi
        BY <3>2, <1>1, <1>3, <1>4, <1>7, <1>9 DEF TypeOK
      <3>3. CASE i < hi
        <4>1. i \in lo..Len(chain) /\ hi \in lo..Len(chain)
          BY <3>3, <1>2, <1>4, <1>7
        <4>2. chain[i] # last /\ chain[i] # n /\ chain[i] \in Node
          BY <4>1, <3>3, <1>3, <1>7, <1>9 DEF Links, TypeOK
        <4>3. next'[chain[i]] = chain[i + 1]
          BY <4>1, <4>2, <3>3, <1>1, <1>3, <1>7 DEF Links, TypeOK
        <4> QED BY <4>1, <4>3, <3>3, <1>4, <1>7
      <3> QED BY <3>1, <3>2, <3>3, <1>2, <1>4, <1>7
    <2> QED BY <2>1, <2>2, <2>3 DEF Links
  <1>11. Values'
    <2>1. Len(produced) = Len(chain) - 1 /\ Len(produced) \in Nat
      BY <1>3 DEF Values, TypeOK
    <2>2. ASSUME NEW i \in lo'..Len(chain'), i > 1
          PROVE  value'[chain'[i]] = produced'[i - 1]
      <3>1. CASE i = Len(chain) + 1
        BY <3>1, <2>1, <1>1, <1>3, <1>4, <1>5 DEF TypeOK
      <3>2. CASE i # Len(chain) + 1
        <4>1. i \in lo..Len(chain) /\ i \in Nat
          BY <3>2, <1>2, <1>4, <1>7
        <4>2. chain[i] # n /\ chain[i] \in Node
          BY <4>1, <1>3, <1>7, <1>9 DEF TypeOK
        <4>3. value'[chain[i]] = produced[i - 1]
          BY <4>1, <4>2, <2>2, <1>1, <1>3 DEF Values, TypeOK
        <4>4. i - 1 \in 1..Len(produced)
          BY <4>1, <2>1, <2>2
        <4> QED BY <4>1, <4>3, <4>4, <1>4, <1>5, <1>7, SMTT(30)
      <3> QED BY <3>1, <3>2
    <2>3. \A i \in 1..(mid' - 1) : consumed'[i] = produced'[i]
      BY <2>1, <1>2, <1>3, <1>5, <1>7 DEF Values
    <2> QED BY <2>1, <2>2, <2>3, <1>2, <1>3, <1>4, <1>5, <1>7 DEF Values
  <1>12. Reader'
    <2>1. cp # "idle" => mid \in 1..Len(produced)
      BY <1>3, <1>7 DEF Reader, Values, Places
    <2> QED BY <2>1, <1>2, <1>3, <1>5 DEF Reader, Alive
  <1> QED BY <1>6, <1>8, <1>10, <1>11, <1>12 DEF QueueInv

(* __sync_lock_test_and_set(&last, last->next) *)
LEMMA PublishInv == ASSUME QueueInv, ProducePublish PROVE QueueInv'
  <1>1. TypeOK /\ Places /\ Links /\ Values /\ Reader
    BY DEF QueueInv
  <1>2. /\ pp = "publish" /\ pp' = "trim"
        /\ last' = next[last] /\ hi' = hi + 1
        /\ UNCHANGED <<heap, value, next, first, divider, cp, result, chain,
                       produced, consumed, lo, mid>>
    BY DEF ProducePublish, memory
  <1>3. /\ lo \in Nat /\ mid \in Nat /\ hi \in Nat /\ Len(chain) = hi + 1
        /\ lo >= 1 /\ lo <= mid /\ mid <= hi
    BY <1>1, <1>2 DEF TypeOK, Places, Alive
  <1>4. next[last] = chain[hi + 1] /\ chain[hi + 1] \in Node
    BY <1>1, <1>3 DEF TypeOK, Places, Links
  <1>5. TypeOK'
    BY <1>1, <1>2, <1>3, <1>4 DEF TypeOK
  <1>6. Places'
    BY <1>1, <1>2, <1>3, <1>4 DEF Places, Alive
  <1>7. Links' /\ Values'
    BY <1>1, <1>2 DEF Links, Values
  <1>8. Reader'
    BY <1>1, <1>2, <1>3 DEF Reader, Alive
  <1> QED BY <1>5, <1>6, <1>7, <1>8 DEF QueueInv

(* The trimming loop's test: first != divider only where there is a node   *)
(* before the divider, because live nodes are distinct.                    *)
LEMMA TestInv == ASSUME QueueInv, TrimTest PROVE QueueInv'
  <1>1. TypeOK /\ Places /\ Links /\ Values /\ Reader
    BY DEF QueueInv
  <1>2. /\ pp = "trim" /\ pp' = IF first # divider THEN "delete" ELSE "idle"
        /\ UNCHANGED <<heap, value, next, first, divider, last, cp, result,
                       chain, produced, consumed, lo, mid, hi>>
    BY DEF TrimTest, memory, pointers, history
  <1>3. lo \in Nat /\ mid \in Nat /\ lo <= mid /\ mid <= Len(chain)
    BY <1>1, <1>2 DEF TypeOK, Places, Alive
  <1>4. first # divider => lo < mid
    BY <1>1, <1>3 DEF Places
  <1>5. TypeOK'
    BY <1>1, <1>2 DEF TypeOK
  <1>6. Places'
    BY <1>1, <1>2, <1>3, <1>4 DEF Places, Alive
  <1>7. Links' /\ Values'
    BY <1>1, <1>2 DEF Links, Values
  <1>8. Reader'
    BY <1>1, <1>2 DEF Reader, Alive
  <1> QED BY <1>5, <1>6, <1>7, <1>8 DEF QueueInv

(* Deleting the first node, in the trimming loop or in the destructor,     *)
(* leaves the rest of the chain as it was.                                 *)
LEMMA DeleteFirst ==
    ASSUME TypeOK, Links, Values, lo >= 1, lo <= Len(chain), first = chain[lo],
           heap' = heap \ {first}, lo' = lo + 1,
           UNCHANGED <<value, next, chain, produced, consumed, mid>>
    PROVE  /\ Links' /\ Values'
           /\ next[first] = IF lo' <= Len(chain) THEN chain[lo'] ELSE NULL
           /\ first \in heap
  <1>1. lo \in Nat /\ Len(chain) \in Nat
    BY DEF TypeOK
  <1>2. lo..Len(chain) = (lo'..Len(chain')) \cup {lo} /\ lo \notin lo'..Len(chain')
    BY <1>1
  <1>3. \A i \in lo'..Len(chain') : i \in lo..Len(chain) /\ chain[i] # first
    BY <1>1, <1>2 DEF Links
  <1>4. heap' = {chain'[i] : i \in lo'..Len(chain')}
    <2>1. ASSUME NEW x PROVE x \in heap' <=> \E i \in lo'..Len(chain') : x = chain'[i]
      <3>1. x \in heap <=> \E i \in lo..Len(chain) : x = chain[i]
        BY DEF Links
      <3>2. x \in heap <=> x = first \/ \E i \in lo'..Len(chain') : x = chain[i]
        BY <3>1, <1>2
      <3> QED BY <3>2, <1>3
    <2> QED BY <2>1
  <1>5. Links'
    BY <1>1, <1>3, <1>4 DEF Links
  <1>6. Values'
    BY <1>1, <1>3 DEF Values
  <1>7. next[first] = IF lo' <= Len(chain) THEN chain[lo'] ELSE NULL
    BY <1>1 DEF Links
  <1>8. first \in heap
    BY <1>1 DEF Links
  <1> QED BY <1>5, <1>6, <1>7, <1>8

LEMMA TrimInv == ASSUME QueueInv, TrimDelete PROVE QueueInv'
  <1>1. TypeOK /\ Places /\ Links /\ Values /\ Reader
    BY DEF QueueInv
  <1>2. /\ pp = "delete" /\ pp' = "trim"
        /\ first' = next[first] /\ heap' = heap \ {first} /\ lo' = lo + 1
        /\ UNCHANGED <<value, next, divider, last, cp, result, chain, produced,
                       consumed, mid, hi>>
    BY DEF TrimDelete
  <1>3. /\ lo \in Nat /\ mid \in Nat /\ hi \in Nat /\ Len(chain) = hi
        /\ lo >= 1 /\ lo < mid /\ mid <= hi /\ first = chain[lo]
    BY <1>1, <1>2 DEF TypeOK, Places, Alive
  <1>4. Links' /\ Values' /\ next[first] = chain[lo'] /\ first \in heap
    BY <1>1, <1>2, <1>3, DeleteFirst
  <1>5. TypeOK'
    BY <1>1, <1>2, <1>3, <1>4 DEF TypeOK
  <1>6. Places'
    BY <1>1, <1>2, <1>3, <1>4 DEF Places, Alive
  <1>7. Reader'
    BY <1>1, <1>2 DEF Reader, Alive
  <1> QED BY <1>4, <1>5, <1>6, <1>7 DEF QueueInv

(* divider != last holds only where a published node lies behind divider.  *)
LEMMA ConsumeTestInv == ASSUME QueueInv, ConsumeTest PROVE QueueInv'
  <1>1. TypeOK /\ Places /\ Links /\ Values /\ Reader
    BY DEF QueueInv
  <1>2. /\ Alive /\ divider # last /\ cp' = "copy"
        /\ UNCHANGED <<heap, value, next, first, divider, last, pp, result,
                       chain, produced, consumed, lo, mid, hi>>
    BY DEF ConsumeTest, Alive, memory, pointers, history
  <1>3. mid < hi
    BY <1>1, <1>2 DEF TypeOK, Places
  <1>4. TypeOK'
    BY <1>1, <1>2 DEF TypeOK
  <1>5. Places' /\ Links' /\ Values'
    BY <1>1, <1>2, SMTT(30) DEF Places, Links, Values, Alive
  <1>6. Reader'
    BY <1>2, <1>3 DEF Reader, Alive
  <1> QED BY <1>4, <1>5, <1>6 DEF QueueInv

(* What the reader copies is the oldest value it has not returned yet. *)
LEMMA ConsumeCopyInv == ASSUME QueueInv, ConsumeCopy PROVE QueueInv'
  <1>1. TypeOK /\ Places /\ Links /\ Values /\ Reader
    BY DEF QueueInv
  <1>2. /\ cp = "copy" /\ cp' = "advance" /\ result' = value[next[divider]]
        /\ UNCHANGED <<heap, value, next, first, divider, last, pp,
                       chain, produced, consumed, lo, mid, hi>>
    BY DEF ConsumeCopy, memory, pointers, history
  <1>3. /\ lo \in Nat /\ mid \in Nat /\ hi \in Nat /\ hi <= Len(chain)
        /\ lo >= 1 /\ lo <= mid /\ mid < hi
    BY <1>1, <1>2 DEF TypeOK, Places, Reader
  <1>4. next[divider] = chain[mid + 1] /\ chain[mid + 1] \in Node
    BY <1>1, <1>3 DEF TypeOK, Places, Links
  <1>5. result' = produced[mid]
    BY <1>1, <1>2, <1>3, <1>4 DEF Values
  <1>6. TypeOK'
    BY <1>1, <1>2, <1>4 DEF TypeOK
  <1>7. Places' /\ Links' /\ Values'
    <2>1. Places'
      BY <1>1, <1>2 DEF Places, Alive
    <2>2. Links' /\ Values'
      BY <1>1, <1>2 DEF Links, Values
    <2> QED BY <2>1, <2>2
  <1>8. Reader'
    BY <1>1, <1>2, <1>5 DEF Reader, Alive
  <1> QED BY <1>6, <1>7, <1>8 DEF QueueInv

LEMMA ConsumeAdvanceInv == ASSUME QueueInv, ConsumeAdvance PROVE QueueInv'
  <1>1. TypeOK /\ Places /\ Links /\ Values /\ Reader
    BY DEF QueueInv
  <1>2. /\ cp = "advance" /\ cp' = "idle" /\ divider' = next[divider]
        /\ consumed' = Append(consumed, result) /\ mid' = mid + 1
        /\ UNCHANGED <<heap, value, next, first, last, pp, result, chain,
                       produced, lo, hi>>
    BY DEF ConsumeAdvance, memory
  <1>3. /\ lo \in Nat /\ mid \in Nat /\ hi \in Nat /\ hi <= Len(chain)
        /\ lo >= 1 /\ lo <= mid /\ mid < hi /\ Alive /\ mid >= 1
    BY <1>1, <1>2 DEF TypeOK, Places, Reader
  <1>4. next[divider] = chain[mid + 1] /\ chain[mid + 1] \in Node
    BY <1>1, <1>3, SMTT(30) DEF TypeOK, Places, Links
  <1>5. result = produced[mid] /\ mid \in 1..Len(produced) /\ result \in Value
    BY <1>1, <1>2, <1>3 DEF Reader, Values, TypeOK
  <1>6. /\ Len(consumed') = mid /\ consumed' \in Seq(Value)
        /\ \A i \in 1..mid : consumed'[i] = produced[i]
    BY <1>1, <1>2, <1>3, <1>5 DEF TypeOK, Values
  <1>7. TypeOK'
    BY <1>1, <1>2, <1>3, <1>4, <1>6 DEF TypeOK
  <1>8. Places'
    BY <1>1, <1>2, <1>3, <1>4 DEF Places, Alive
  <1>9. Links' /\ Values'
    BY <1>1, <1>2, <1>3, <1>6 DEF Links, Values
  <1>10. Reader'
    BY <1>2 DEF Reader
  <1> QED BY <1>7, <1>8, <1>9, <1>10 DEF QueueInv

(* The destructor runs after the last call and frees from first on. *)
LEMMA DestructorInv == ASSUME QueueInv, Destructor PROVE QueueInv'
  <1>1. TypeOK /\ Places /\ Links /\ Values /\ Reader
    BY DEF QueueInv
  <1>2. CASE DestroyBegin
    <2>1. /\ pp = "idle" /\ cp = "idle" /\ pp' = "destroy"
          /\ UNCHANGED <<heap, value, next, first, divider, last, cp, result,
                         chain, produced, consumed, lo, mid, hi>>
      BY <1>2 DEF DestroyBegin, memory, pointers, history
    <2>2. TypeOK' /\ Reader' /\ Links' /\ Values'
      BY <1>1, <2>1 DEF TypeOK, Reader, Links, Values
    <2>3. Places'
      BY <1>1, <2>1 DEF Places, Alive
    <2> QED BY <2>2, <2>3 DEF QueueInv
  <1>3. CASE DestroyNode
    <2>1. /\ pp = "destroy" /\ first # NULL
          /\ first' = next[first] /\ heap' = heap \ {first} /\ lo' = lo + 1
          /\ UNCHANGED <<value, next, divider, last, pp, cp, result, chain,
                         produced, consumed, mid, hi>>
      BY <1>3 DEF DestroyNode
    <2>2. /\ lo \in Nat /\ lo >= 1 /\ lo <= Len(chain) /\ first = chain[lo]
          /\ Len(chain) \in Nat
      BY <1>1, <2>1 DEF Places, TypeOK
    <2>3. /\ Links' /\ Values' /\ first \in heap
          /\ next[first] = IF lo' <= Len(chain) THEN chain[lo'] ELSE NULL
      BY <1>1, <2>1, <2>2, DeleteFirst
    <2>4. TypeOK'
      BY <1>1, <2>1, <2>2, <2>3 DEF TypeOK
    <2>5. Places'
      BY <1>1, <2>1, <2>2, <2>3 DEF Places, Alive
    <2>6. Reader'
      BY <1>1, <2>1 DEF Reader, Alive
    <2> QED BY <2>3, <2>4, <2>5, <2>6 DEF QueueInv
  <1>4. CASE DestroyEnd
    <2>1. /\ pp = "destroy" /\ first = NULL /\ pp' = "dead"
          /\ UNCHANGED <<heap, value, next, first, divider, last, cp, result,
                         chain, produced, consumed, lo, mid, hi>>
      BY <1>4 DEF DestroyEnd, memory, pointers, history
    <2>2. lo = Len(chain) + 1
      BY <1>1, <2>1 DEF TypeOK, Places
    <2>3. TypeOK' /\ Reader' /\ Links' /\ Values'
      BY <1>1, <2>1 DEF TypeOK, Reader, Links, Values, Alive
    <2>4. Places'
      BY <1>1, <2>1, <2>2 DEF Places, Alive
    <2> QED BY <2>3, <2>4 DEF QueueInv
  <1> QED BY <1>2, <1>3, <1>4 DEF Destructor

LEMMA NextInv == QueueInv /\ [Next]_vars => QueueInv'
  <1> SUFFICES ASSUME QueueInv, [Next]_vars PROVE QueueInv'
    OBVIOUS
  <1>1. ASSUME NEW t \in Value, ProduceLink(t) PROVE QueueInv'
    BY <1>1, LinkInv
  <1>2. CASE ProducePublish
    BY <1>2, PublishInv
  <1>3. CASE TrimTest
    BY <1>3, TestInv
  <1>4. CASE TrimDelete
    BY <1>4, TrimInv
  <1>5. CASE ConsumeTest
    BY <1>5, ConsumeTestInv
  <1>6. CASE ConsumeCopy
    BY <1>6, ConsumeCopyInv
  <1>7. CASE ConsumeAdvance
    BY <1>7, ConsumeAdvanceInv
  <1>8. CASE Destructor
    BY <1>8, DestructorInv
  <1>9. CASE UNCHANGED vars
    <2>1. UNCHANGED <<heap, value, next, first, divider, last, pp, cp, result,
                      chain, produced, consumed, lo, mid, hi>>
      BY <1>9 DEF vars, memory, pointers, history
    <2>2. TypeOK' /\ Reader'
      BY <2>1 DEF QueueInv, TypeOK, Reader, Alive
    <2>3. Places'
      BY <2>1 DEF QueueInv, Places, Alive
    <2>4. Links' /\ Values'
      BY <2>1 DEF QueueInv, Links, Values
    <2> QED BY <2>2, <2>3, <2>4 DEF QueueInv
  <1> QED BY <1>1, <1>2, <1>3, <1>4, <1>5, <1>6, <1>7, <1>8, <1>9
          DEF Next, Producer, Consumer, Dead

(* The list of linked nodes, the three pointers into it and what the       *)
(* reader holds stay consistent in every interleaving of produce() with    *)
(* consume().                                                              *)
THEOREM QueueInvariant == Spec => []QueueInv
  <1>1. Init => QueueInv
    BY InitInv
  <1>2. QueueInv /\ [Next]_vars => QueueInv'
    BY NextInv
  <1> QED BY <1>1, <1>2, PTL DEF Spec

-----------------------------------------------------------------------------
LEMMA NoDanglingAccessFromInv == QueueInv => NoDanglingAccess
  <1> SUFFICES ASSUME QueueInv PROVE NoDanglingAccess
    OBVIOUS
  <1>1. TypeOK /\ Places /\ Links /\ Reader
    BY DEF QueueInv
  <1>2. \A i \in lo..Len(chain) : chain[i] \in heap
    BY <1>1 DEF Links
  <1>3. lo \in Nat /\ mid \in Nat /\ hi \in Nat /\ Len(chain) \in Nat
    BY <1>1 DEF TypeOK
  <1>4. pp \in {"idle", "publish"} => last \in heap
    BY <1>1, <1>2, <1>3 DEF Places, Alive
  <1>5. pp = "publish" => next[last] \in heap
    <2> SUFFICES ASSUME pp = "publish" PROVE next[last] \in heap
      OBVIOUS
    <2>1. hi \in lo..Len(chain) /\ hi + 1 \in lo..Len(chain) /\ hi < Len(chain)
      BY <1>1, <1>3 DEF Places, Alive
    <2> QED BY <2>1, <1>1, <1>2 DEF Places, Links
  <1>6. pp = "delete" => first \in heap
    BY <1>1, <1>2, <1>3 DEF Places
  <1>7. pp = "destroy" => first \in heap \cup {NULL}
    BY <1>1, <1>2, <1>3 DEF Places
  <1>8. cp \in {"copy", "advance"} => divider \in heap /\ next[divider] \in heap
    <2> SUFFICES ASSUME cp \in {"copy", "advance"}
                 PROVE  divider \in heap /\ next[divider] \in heap
      OBVIOUS
    <2>1. /\ mid \in lo..Len(chain) /\ mid + 1 \in lo..Len(chain)
          /\ mid < Len(chain)
      BY <1>1, <1>3 DEF Places, Reader, Alive
    <2> QED BY <2>1, <1>1, <1>2 DEF Places, Links
  <1> QED BY <1>4, <1>5, <1>6, <1>7, <1>8 DEF NoDanglingAccess

(* No step of produce(), consume() or ~Queue() reads or writes a node that *)
(* has been deleted.                                                       *)
THEOREM MemorySafe == Spec => []NoDanglingAccess
  BY QueueInvariant, NoDanglingAccessFromInv, PTL

LEMMA EmptyExactFromInv == QueueInv => EmptyExact
  <1> SUFFICES ASSUME QueueInv, Alive
               PROVE  (empty <=> mid = hi) /\ (first = divider <=> lo = mid)
    BY DEF EmptyExact
  <1>1. /\ lo \in Nat /\ mid \in Nat /\ hi \in Nat /\ Len(chain) \in Nat
        /\ lo <= mid /\ mid <= hi /\ hi <= Len(chain)
        /\ first = chain[lo] /\ divider = chain[mid] /\ last = chain[hi]
    BY DEF QueueInv, TypeOK, Places
  <1>2. \A i, j \in lo..Len(chain) : chain[i] = chain[j] => i = j
    BY DEF QueueInv, Links
  <1>3. lo \in lo..Len(chain) /\ mid \in lo..Len(chain) /\ hi \in lo..Len(chain)
    BY <1>1
  <1> QED BY <1>1, <1>2, <1>3 DEF empty

(* empty() and the trimming loop's test compare addresses, and an address  *)
(* is reused only after no live pointer holds it.                          *)
THEOREM PointerTestsExact == Spec => []EmptyExact
  BY QueueInvariant, EmptyExactFromInv, PTL

(* ~Queue() together with the trimming loop frees every node. *)
THEOREM NothingLeaks == Spec => []NoLeak
  <1>1. QueueInv => NoLeak
    BY DEF QueueInv, TypeOK, Places, Links, NoLeak
  <1> QED BY <1>1, QueueInvariant, PTL

-----------------------------------------------------------------------------
LEMMA LeastNat ==
    ASSUME NEW S, S \subseteq Nat, S # {}
    PROVE  \E n \in S : \A m \in S : n <= m
  <1>1. \A x, y \in Nat : y < x => <<y, x>> \in OpToRel(<, Nat)
    BY DEF OpToRel
  <1>2. \E R : IsWellFoundedOn(R, Nat) /\ \A x, y \in Nat : y < x => <<y, x>> \in R
    BY <1>1, NatLessThanWellFounded, Zenon
  <1>3. PICK R : IsWellFoundedOn(R, Nat) /\ \A x, y \in Nat : y < x => <<y, x>> \in R
    BY <1>2
  <1>4. PICK n \in S : \A m \in S : ~(<<m, n>> \in R)
    BY <1>3, WFMin
  <1>5. ASSUME NEW m \in S PROVE n <= m
    <2>1. n \in Nat /\ m \in Nat
      OBVIOUS
    <2>2. ~(m < n)
      BY <1>3, <1>4, <2>1
    <2> QED BY <2>1, <2>2
  <1> QED BY <1>5

(* The list from place i on, of the nodes that are allocated, is as long   *)
(* as chain is from there: so size()'s loop ends, and there is one count.  *)
LEMMA CountIsLength ==
    ASSUME QueueInv
    PROVE  /\ count[NULL] = 0
           /\ \A i \in lo..Len(chain) : count[chain[i]] = Len(chain) - i + 1
  <1>1. PICK len \in Nat : len = Len(chain)
    BY DEF QueueInv, TypeOK
  <1>2. /\ lo \in Nat
        /\ heap = {chain[i] : i \in lo..len}
        /\ NULL \notin heap
        /\ \A i, j \in lo..len : chain[i] = chain[j] => i = j
        /\ \A i \in lo..len : next[chain[i]] = IF i < len THEN chain[i + 1] ELSE NULL
    BY <1>1, QueueAssumption DEF QueueInv, TypeOK, Links
  <1> DEFINE Counts(f) == f = [n \in heap \cup {NULL} |->
                                  IF n = NULL THEN 0 ELSE 1 + f[next[n]]]
             place(n) == CHOOSE i \in lo..len : chain[i] = n
             known == [n \in heap \cup {NULL} |->
                         IF n = NULL THEN 0 ELSE len - place(n) + 1]
  <1>3. Counts(known)
    <2>1. \A i \in lo..len : place(chain[i]) = i
      BY <1>2
    <2> HIDE DEF place
    <2>2. ASSUME NEW n \in heap
          PROVE  known[n] = 1 + known[next[n]]
      <3>1. PICK i \in lo..len : n = chain[i]
        BY <1>2
      <3>2. known[n] = len - i + 1
        BY <3>1, <2>1, <1>2
      <3>3. CASE i < len
        <4>1. i + 1 \in lo..len
          BY <3>3, <1>1, <1>2
        <4>2. next[n] = chain[i + 1] /\ next[n] \in heap
          BY <3>1, <3>3, <4>1, <1>2
        <4>3. known[next[n]] = len - (i + 1) + 1
          BY <4>1, <4>2, <2>1, <1>2
        <4> QED BY <3>2, <4>3, <1>1, <1>2
      <3>4. CASE i = len
        <4>1. next[n] = NULL /\ known[NULL] = 0
          BY <3>1, <3>4, <1>1, <1>2
        <4> QED BY <3>2, <3>4, <4>1, <1>1
      <3> QED BY <3>3, <3>4, <1>1, <1>2
    <2>3. known[NULL] = 0
      OBVIOUS
    <2>4. known = [n \in heap \cup {NULL} |-> known[n]]
      OBVIOUS
    <2> HIDE DEF known
    <2> QED BY <2>2, <2>3, <2>4, <1>2
  <1>4. count = CHOOSE f : Counts(f)
    BY DEF count
  <1>5. Counts(count)
    BY <1>3, <1>4
  <1>6. /\ count[NULL] = 0
        /\ \A n \in heap : count[n] = 1 + count[next[n]]
    BY <1>2, <1>5
  <1> DEFINE wrong == {k \in 0..(len - lo) : count[chain[len - k]] # k + 1}
  <1>7. wrong = {}
    <2>1. SUFFICES ASSUME NEW k \in wrong, \A m \in wrong : k <= m
                   PROVE  FALSE
      <3>1. wrong \subseteq Nat
        BY <1>1, <1>2
      <3> HIDE DEF wrong
      <3> QED BY <3>1, LeastNat
    <2>2. k \in 0..(len - lo) /\ count[chain[len - k]] # k + 1
      BY <2>1
    <2>3. \A m \in 0..(len - lo) : m < k => count[chain[len - m]] = m + 1
      BY <2>1, <1>1, <1>2
    <2> HIDE DEF wrong
    <2>4. len - k \in lo..len
      BY <2>2, <1>1, <1>2
    <2>5. chain[len - k] \in heap
      BY <2>4, <1>2
    <2>6. CASE k = 0
      <3>1. next[chain[len]] = NULL /\ len - k = len
        BY <2>4, <2>6, <1>1, <1>2
      <3> QED BY <2>2, <2>5, <2>6, <3>1, <1>6
    <2>7. CASE k > 0
      <3>1. /\ k - 1 \in 0..(len - lo) /\ k - 1 < k
            /\ len - k < len /\ (len - k) + 1 = len - (k - 1)
        BY <2>2, <2>7, <1>1, <1>2
      <3>2. next[chain[len - k]] = chain[len - (k - 1)]
        BY <2>4, <3>1, <1>2
      <3>3. count[chain[len - (k - 1)]] = (k - 1) + 1
        BY <2>3, <3>1
      <3>4. count[chain[len - k]] = 1 + k
        BY <2>5, <3>2, <3>3, <1>6, <2>2
      <3> QED BY <2>2, <3>4
    <2> QED BY <2>2, <2>6, <2>7
  <1>8. ASSUME NEW i \in lo..len PROVE count[chain[i]] = len - i + 1
    <2>1. len - i \in 0..(len - lo) /\ len - (len - i) = i
      BY <1>1, <1>2
    <2> QED BY <2>1, <1>7
  <1> QED BY <1>1, <1>6, <1>8

(* size(), called by the consumer while produce() runs, misses no value    *)
(* that was published, and is at most the one ahead that is linked.        *)
THEOREM SizeIsClose == Spec => []SizeBound
  <1>1. ASSUME QueueInv, Alive
        PROVE  hi - mid <= size /\ size <= hi - mid + 1
    <2>1. PICK len \in Nat : len = Len(chain)
      BY <1>1 DEF QueueInv, TypeOK
    <2>2. /\ lo \in Nat /\ mid \in lo..len /\ hi \in Nat
          /\ mid <= hi /\ hi <= len /\ len <= hi + 1
          /\ divider = chain[mid]
          /\ next[chain[mid]] = IF mid < len THEN chain[mid + 1] ELSE NULL
      BY <1>1, <2>1 DEF QueueInv, TypeOK, Places, Links, Alive
    <2>3. size = len - mid
      <3>1. CASE mid < len
        <4>1. mid + 1 \in lo..len /\ len - (mid + 1) + 1 = len - mid
          BY <2>1, <2>2, <3>1
        <4> QED BY <1>1, <2>1, <2>2, <3>1, <4>1, CountIsLength DEF size
      <3>2. CASE mid = len
        BY <1>1, <2>1, <2>2, <3>2, CountIsLength DEF size
      <3> QED BY <2>1, <2>2, <3>1, <3>2
    <2> QED BY <2>1, <2>2, <2>3
  <1> QED BY <1>1, QueueInvariant, PTL DEF SizeBound

-----------------------------------------------------------------------------
LEMMA FifoInit == Init => F!Init
  BY DEF Init, F!Init, Contents

(* ProducePublish is the abstract Produce, ConsumeAdvance the abstract     *)
(* Consume; every other step leaves the abstract queue alone.              *)
LEMMA FifoStep ==
    QueueInv /\ [Next]_vars => [F!Next]_<<Contents, consumed>>
  <1> SUFFICES ASSUME QueueInv, [Next]_vars
               PROVE  F!Next \/ UNCHANGED <<Contents, consumed>>
    OBVIOUS
  <1>1. TypeOK /\ Places /\ Values /\ Reader
    BY DEF QueueInv
  <1>2. lo \in Nat /\ mid \in Nat /\ hi \in Nat /\ mid >= 1 /\ mid <= hi
    BY <1>1 DEF TypeOK, Places
  <1>3. ASSUME NEW t \in Value, ProduceLink(t)
        PROVE  UNCHANGED <<Contents, consumed>>
    <2>1. produced' = Append(produced, t) /\ UNCHANGED <<consumed, mid, hi>>
      BY <1>3 DEF ProduceLink
    <2>2. Len(produced) = hi - 1
      BY <1>1, <1>2, <1>3 DEF ProduceLink, Places, Values
    <2>3. \A i \in 1..(hi - mid) : produced'[mid + i - 1] = produced[mid + i - 1]
      BY <2>1, <2>2, <1>1, <1>2 DEF TypeOK
    <2> QED BY <2>1, <2>3 DEF Contents
  <1>4. CASE ProducePublish
    <2>1. hi' = hi + 1 /\ UNCHANGED <<consumed, produced, mid>> /\ Len(produced) = hi
      BY <1>1, <1>2, <1>4 DEF ProducePublish, Places, Values
    <2>2. produced[hi] \in Value
      BY <2>1, <1>1, <1>2 DEF TypeOK
    <2>3. Contents' = Append(Contents, produced[hi])
      BY <2>1, <1>2 DEF Contents
    <2>4. F!Produce(produced[hi])
      BY <2>1, <2>3 DEF F!Produce
    <2> QED BY <2>2, <2>4 DEF F!Next
  <1>5. CASE ConsumeAdvance
    <2>1. /\ mid' = mid + 1 /\ consumed' = Append(consumed, result)
          /\ UNCHANGED <<produced, hi>> /\ mid < hi /\ result = produced[mid]
      BY <1>1, <1>5 DEF ConsumeAdvance, Reader
    <2>2. /\ Contents \in Seq(Value) /\ Len(Contents) = hi - mid
          /\ \A i \in 1..(hi - mid) : Contents[i] = produced[mid + i - 1]
      <3>1. Len(produced) >= hi - 1
        BY <1>1, <1>2 DEF Places, Values
      <3>2. \A i \in 1..(hi - mid) : produced[mid + i - 1] \in Value
        BY <3>1, <1>1, <1>2 DEF TypeOK
      <3> QED BY <3>2, <1>2 DEF Contents
    <2>3. Contents # <<>> /\ Head(Contents) = result
      BY <2>1, <2>2, <1>2
    <2>4. /\ Contents' \in Seq(Value) /\ Len(Contents') = hi - mid - 1
          /\ \A i \in 1..(hi - mid - 1) : Contents'[i] = Contents[i + 1]
      <3> DEFINE n == hi - mid - 1
      <3>1. n \in Nat /\ Contents' = [i \in 1..n |-> produced[mid + i]]
        BY <2>1, <1>2 DEF Contents
      <3>2. ASSUME NEW i \in 1..n
            PROVE  produced[mid + i] = Contents[i + 1] /\ Contents[i + 1] \in Value
        <4>1. i + 1 \in 1..(hi - mid) /\ mid + (i + 1) - 1 = mid + i
          BY <2>1, <1>2
        <4> QED BY <4>1, <2>2
      <3> HIDE DEF n
      <3>3. Contents' \in Seq(Value) /\ Len(Contents') = n
        BY <3>1, <3>2
      <3>4. \A i \in 1..n : Contents'[i] = Contents[i + 1]
        BY <3>1, <3>2
      <3> QED BY <3>3, <3>4 DEF n
    <2>5. Contents' = Tail(Contents)
      <3>1. /\ Tail(Contents) \in Seq(Value) /\ Len(Tail(Contents)) = hi - mid - 1
            /\ \A i \in 1..(hi - mid - 1) : Tail(Contents)[i] = Contents[i + 1]
        BY <2>1, <2>2, <2>3, <1>2, HeadTailProperties
      <3> QED BY <3>1, <2>4, SeqEqual
    <2> QED BY <2>1, <2>3, <2>5 DEF F!Next, F!Consume
  <1>6. CASE TrimTest \/ TrimDelete \/ ConsumeTest \/ ConsumeCopy
                \/ Destructor \/ UNCHANGED vars
    <2>1. UNCHANGED <<produced, consumed, mid, hi>>
      BY <1>6 DEF TrimTest, TrimDelete, ConsumeTest, ConsumeCopy, Destructor,
                  DestroyBegin, DestroyNode, DestroyEnd, vars, history
    <2> QED BY <2>1 DEF Contents
  <1> QED BY <1>3, <1>4, <1>5, <1>6 DEF Next, Producer, Consumer, Dead

(* The lock-free list refines the first-in first-out queue. *)
THEOREM RefinesFifo == Spec => FifoSpec
  <1>1. Init => F!Init
    BY FifoInit
  <1>2. QueueInv /\ [Next]_vars => [F!Next]_<<Contents, consumed>>
    BY FifoStep
  <1> QED BY <1>1, <1>2, QueueInvariant, PTL DEF Spec, FifoSpec, F!Spec
=============================================================================
