----------------------------- MODULE SpscQueue ------------------------------
(***************************************************************************)
(* linear_fcgi_queue.h: the lock-free singly linked list through which the *)
(* FastCGI thread and the libuv thread exchange requests and data.  One    *)
(* thread calls produce(), one thread calls consume(); the destructor runs *)
(* when neither does.                                                      *)
(*                                                                         *)
(* Each thread's steps are the loads and stores the other thread can see,  *)
(* in program order: on the builds the code targets                        *)
(* __sync_lock_test_and_set is a full barrier, so memory is sequentially   *)
(* consistent.  Addresses of deleted nodes are reused by new.              *)
(***************************************************************************)
EXTENDS Naturals, Sequences

CONSTANTS Node,        \* addresses a Node can have
          Value,       \* the values produced
          Default,     \* T(), the value of the dummy node
          NULL,        \* the null pointer
          MaxProduce   \* bound: calls of produce()

ASSUME QueueAssumption ==
    /\ NULL \notin Node
    /\ MaxProduce \in Nat

VARIABLES
    heap,      \* addresses of the nodes that are allocated
    value,     \* Node::value
    next,      \* Node::next
    first, divider, last,
    pp,        \* where the producer (or the destructor) is
    cp,        \* where the consumer is
    result,    \* the consumer's out parameter
    \* History, written by no step of the code and read by none:
    chain,     \* every node ever linked, oldest first
    produced,  \* produced[i] is the value of chain[i + 1]
    consumed,  \* what consume() has returned
    lo, mid, hi \* the places of first, divider and last in chain

memory   == <<heap, value, next>>
pointers == <<first, divider, last>>
history  == <<chain, produced, consumed, lo, mid, hi>>
vars == <<memory, pointers, pp, cp, result, history>>

-----------------------------------------------------------------------------
(* Queue() *)
Init ==
    \E n \in Node :
        /\ heap = {n}
        /\ value = [m \in Node |-> Default]
        /\ next = [m \in Node |-> NULL]
        /\ first = n /\ divider = n /\ last = n
        /\ pp = "idle" /\ cp = "idle"
        /\ result = Default
        /\ chain = <<n>> /\ produced = <<>> /\ consumed = <<>>
        /\ lo = 1 /\ mid = 1 /\ hi = 1

-----------------------------------------------------------------------------
(* Mutated forms of the operations below. *)

(* produce() trims up to last, as if nobody were reading. *)
Mut_TrimToLast ==
    /\ pp = "trim"
    /\ pp' = IF first # last THEN "delete" ELSE "idle"
    /\ UNCHANGED <<memory, pointers, cp, result, history>>

(* consume() returns the value of the divider, not of the node after it. *)
Mut_CopyDivider ==
    /\ cp = "copy"
    /\ result' = value[divider]
    /\ cp' = "advance"
    /\ UNCHANGED <<memory, pointers, pp, history>>

(* The trimming loop unlinks nodes and forgets to delete them. *)
Mut_TrimWithoutDelete ==
    /\ pp = "delete"
    /\ first' = next[first]
    /\ lo' = lo + 1
    /\ pp' = "trim"
    /\ UNCHANGED <<memory, divider, last, cp, result, chain, produced,
                   consumed, mid, hi>>

(* The trimming loop deletes nothing and does not advance. *)
Mut_TrimInPlace ==
    /\ pp = "delete"
    /\ pp' = "trim"
    /\ UNCHANGED <<memory, pointers, cp, result, history>>

-----------------------------------------------------------------------------
(* produce(t): link a new node behind last, publish it, trim. *)

(* last->next = new Node(t): only the producer can see the node yet. *)
ProduceLink(t) ==
    /\ pp = "idle"
    /\ Len(produced) < MaxProduce
    /\ \E n \in Node \ heap :
          /\ heap' = heap \cup {n}
          /\ value' = [value EXCEPT ![n] = t]
          /\ next' = [next EXCEPT ![n] = NULL, ![last] = n]
          /\ chain' = Append(chain, n)
    /\ produced' = Append(produced, t)
    /\ pp' = "publish"
    /\ UNCHANGED <<pointers, cp, result, consumed, lo, mid, hi>>

(* __sync_lock_test_and_set(&last, last->next) *)
ProducePublish ==
    /\ pp = "publish"
    /\ last' = next[last]
    /\ hi' = hi + 1
    /\ pp' = "trim"
    /\ UNCHANGED <<memory, first, divider, cp, result, chain, produced,
                   consumed, lo, mid>>

(* while (first != divider): the load of divider ... *)
TrimTest ==
    /\ pp = "trim"
    /\ pp' = IF first # divider THEN "delete" ELSE "idle"
    /\ UNCHANGED <<memory, pointers, cp, result, history>>

(* ... and the loop's body: tmp = first, first = first->next, delete tmp. *)
TrimDelete ==
    /\ pp = "delete"
    /\ first' = next[first]
    /\ heap' = heap \ {first}
    /\ lo' = lo + 1
    /\ pp' = "trim"
    /\ UNCHANGED <<value, next, divider, last, cp, result, chain, produced,
                   consumed, mid, hi>>

-----------------------------------------------------------------------------
(* consume(result).  Returning false because divider == last changes       *)
(* nothing, so it is no step.                                              *)

(* if (divider != last) *)
ConsumeTest ==
    /\ cp = "idle"
    /\ pp \notin {"destroy", "dead"}
    /\ divider # last
    /\ cp' = "copy"
    /\ UNCHANGED <<memory, pointers, pp, result, history>>

(* result = divider->next->value *)
ConsumeCopy ==
    /\ cp = "copy"
    /\ result' = value[next[divider]]
    /\ cp' = "advance"
    /\ UNCHANGED <<memory, pointers, pp, history>>

(* __sync_lock_test_and_set(&divider, divider->next); return true *)
ConsumeAdvance ==
    /\ cp = "advance"
    /\ divider' = next[divider]
    /\ consumed' = Append(consumed, result)
    /\ mid' = mid + 1
    /\ cp' = "idle"
    /\ UNCHANGED <<memory, first, last, pp, result, chain, produced, lo, hi>>

-----------------------------------------------------------------------------
(* ~Queue(), called when the owning object is deleted: no other call is in *)
(* progress and none follows.                                              *)
DestroyBegin ==
    /\ pp = "idle" /\ cp = "idle"
    /\ pp' = "destroy"
    /\ UNCHANGED <<memory, pointers, cp, result, history>>

DestroyNode ==
    /\ pp = "destroy"
    /\ first # NULL
    /\ first' = next[first]
    /\ heap' = heap \ {first}
    /\ lo' = lo + 1
    /\ UNCHANGED <<value, next, divider, last, pp, cp, result, chain,
                   produced, consumed, mid, hi>>

DestroyEnd ==
    /\ pp = "destroy"
    /\ first = NULL
    /\ pp' = "dead"
    /\ UNCHANGED <<memory, pointers, cp, result, history>>

(* The object is gone and nothing happens any more. *)
Dead ==
    /\ pp = "dead"
    /\ UNCHANGED vars

-----------------------------------------------------------------------------
Producer == (\E t \in Value : ProduceLink(t)) \/ ProducePublish
                \/ TrimTest \/ TrimDelete
Consumer == ConsumeTest \/ ConsumeCopy \/ ConsumeAdvance
Destructor == DestroyBegin \/ DestroyNode \/ DestroyEnd

Next == Producer \/ Consumer \/ Destructor \/ Dead

Spec == Init /\ [][Next]_vars

(* Both threads are scheduled; only calling produce() and destroying the   *)
(* queue are up to the program.                                            *)
FairSpec ==
    /\ Spec
    /\ WF_vars(ProducePublish \/ TrimTest \/ TrimDelete)
    /\ WF_vars(Consumer)
    /\ WF_vars(DestroyNode \/ DestroyEnd)

-----------------------------------------------------------------------------
(* The loop of size(): the nodes from n on, up to the null pointer. *)
count[n \in heap \cup {NULL}] ==
    IF n = NULL THEN 0 ELSE 1 + count[next[n]]

(* size() that counts divider itself. *)
Mut_size == count[divider]

(* size(): the nodes behind divider. *)
size == count[next[divider]]

empty == divider = last

Alive == pp \notin {"destroy", "dead"}

-----------------------------------------------------------------------------
(* Every variable keeps its type: pointers are null or addresses of nodes. *)
TypeOK ==
    /\ heap \subseteq Node
    /\ value \in [Node -> Value \cup {Default}]
    /\ next \in [Node -> Node \cup {NULL}]
    /\ first \in Node \cup {NULL}
    /\ divider \in Node
    /\ last \in Node
    /\ pp \in {"idle", "publish", "trim", "delete", "destroy", "dead"}
    /\ cp \in {"idle", "copy", "advance"}
    /\ result \in Value \cup {Default}
    /\ chain \in Seq(Node)
    /\ produced \in Seq(Value)
    /\ consumed \in Seq(Value)
    /\ lo \in Nat /\ mid \in Nat /\ hi \in Nat

(* No thread ever follows a pointer into a node the other one has deleted: *)
(* whatever step produce(), consume() or the destructor is about to take,  *)
(* the nodes it reads or writes are allocated, for every interleaving of   *)
(* the trimming loop with the reader.                                      *)
NoDanglingAccess ==
    /\ pp \in {"idle", "publish"} => last \in heap
    /\ pp = "publish" => next[last] \in heap
    /\ pp = "delete" => first \in heap
    /\ pp = "destroy" => first \in heap \cup {NULL}
    /\ cp \in {"copy", "advance"} => divider \in heap /\ next[divider] \in heap

(* The pointer comparison divider != last, and with it empty(), is exact   *)
(* although addresses are reused: the queue is found empty only when every *)
(* published value has been consumed, and first != divider only fails when *)
(* there is nothing to trim (no ABA).                                      *)
EmptyExact ==
    Alive => /\ empty <=> mid = hi
             /\ first = divider <=> lo = mid

(* size(), called by the consumer at any moment, counts every published    *)
(* value and at most the one that produce() has linked and not published.  *)
SizeBound ==
    Alive => /\ hi - mid <= size
             /\ size <= hi - mid + 1

(* Once the destructor has returned, every node the queue ever allocated   *)
(* has been deleted, whoever deleted it.                                   *)
NoLeak == pp = "dead" => heap = {}

(* The values published and not consumed, oldest first. *)
Contents == [i \in 1..(hi - mid) |-> produced[mid + i - 1]]

F == INSTANCE Fifo WITH q <- Contents, out <- consumed

(* The linked list implements a first-in first-out queue: consume()        *)
(* returns what was produced, once, in order; trimming and destroying do   *)
(* not show.                                                               *)
FifoSpec == F!Spec

(* produce() returns, however fast the consumer moves the divider that the *)
(* trimming loop chases.                                                   *)
ProduceReturns == pp = "publish" ~> pp = "idle"

-----------------------------------------------------------------------------
(* The inductive invariant.                                                *)

(* The three pointers are at their places in chain and in order. *)
Places ==
    /\ lo >= 1 /\ mid >= 1 /\ mid <= hi
    /\ lo <= Len(chain) + 1
    /\ Len(chain) = IF pp = "publish" THEN hi + 1 ELSE hi
    /\ Alive => lo <= mid
    /\ pp = "delete" => lo < mid
    /\ pp = "dead" => lo = Len(chain) + 1
    /\ first = IF lo <= Len(chain) THEN chain[lo] ELSE NULL
    /\ divider = chain[mid]
    /\ last = chain[hi]

(* The nodes that are allocated are those of chain from first on, each     *)
(* linked to its successor.                                                *)
Links ==
    /\ heap = {chain[i] : i \in lo..Len(chain)}
    /\ \A i, j \in lo..Len(chain) : chain[i] = chain[j] => i = j
    /\ \A i \in lo..Len(chain) :
          next[chain[i]] = IF i < Len(chain) THEN chain[i + 1] ELSE NULL

(* Each holds the value it was produced with, and what consume() has       *)
(* copied is a prefix of what was produced.                                *)
Values ==
    /\ Len(produced) = Len(chain) - 1
    /\ \A i \in lo..Len(chain) : i > 1 => value[chain[i]] = produced[i - 1]
    /\ Len(consumed) = mid - 1
    /\ \A i \in 1..(mid - 1) : consumed[i] = produced[i]

Reader ==
    /\ cp # "idle" => Alive /\ mid < hi
    /\ cp = "advance" => result = produced[mid]

(* Where first, divider and last are in the history of linked nodes, what  *)
(* memory holds there and what the reader holds in its hands.              *)
QueueInv == TypeOK /\ Places /\ Links /\ Values /\ Reader
=============================================================================
