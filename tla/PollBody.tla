------------------------------ MODULE PollBody ------------------------------
(***************************************************************************)
(* Server::onPoll with the sizes that ServerThread leaves out: the block   *)
(* that chunks are gathered in, the threshold, base64, and what becomes of *)
(* the block and of the bytes when a poll fails half way.  One session and *)
(* the browser that polls it; its backend sends chunks and may go away at  *)
(* any time.                                                               *)
(***************************************************************************)
EXTENDS Naturals, Sequences, SequencesExt

CONSTANTS
    DATA_THRESHOLD,
    ChunkSizes,  \* bytes one read from the backend may give; never 0
    MaxChunks    \* bound: chunks the backend sends

ASSUME PollAssumption ==
    /\ DATA_THRESHOLD \in Nat \ {0}
    /\ ChunkSizes \subseteq Nat \ {0}
    /\ \E n \in ChunkSizes : \A k \in ChunkSizes : k <= n  \* the size onAlloc gets
    /\ MaxChunks \in Nat

VARIABLES
    up,           \* state_ is CONNECTED
    read_queue_,  \* the sizes of the chunks that wait
    pc,           \* where onPoll is: idle, read, encode
    data,         \* the size of the block that data points to, 0 for NULL
    total_siz,
    body,         \* the size of the last body
    \* History:
    chunks,       \* chunks the backend has sent
    arrived,      \* their bytes
    answered,     \* bytes sent in a body, or lost with an error status
    blocks,       \* blocks that are allocated
    aborted       \* polls that had read something and found the session gone

backend == <<up, chunks, arrived>>
vars == <<backend, read_queue_, pc, data, total_siz, body, answered, blocks, aborted>>

-----------------------------------------------------------------------------
(* Mutated forms of the operations below. *)

(* One more round when the threshold is met exactly. *)
Mut_AtThreshold(siz) == total_siz + siz <= DATA_THRESHOLD

(* The size of the first chunk is forgotten. *)
Mut_FirstForgotten(siz) == IF data = 0 THEN 0 ELSE total_siz + siz

(* The block is freed only when it was encoded. *)
Mut_KeptOnError == data' = data /\ blocks' = blocks

-----------------------------------------------------------------------------
(* The size of n bytes in base64. *)
Base64(n) == 4 * ((n + 2) \div 3)

(* free(data) *)
Free == data' = 0 /\ blocks' = blocks - 1

(* free(data) on the error paths of realloc and base64. *)
FreeOnError == Free

(* total_siz after a chunk is appended; whether the loop goes on. *)
Total(siz) == total_siz + siz
More(siz) == total_siz + siz < DATA_THRESHOLD

(* The response, which accounts for n bytes. *)
Answer(size, n) ==
    /\ body' = size
    /\ answered' = answered + n
    /\ total_siz' = 0
    /\ pc' = "idle"

Server_onPoll ==
    /\ pc = "idle"
    /\ pc' = "read"
    /\ data' = 0 /\ total_siz' = 0
    /\ UNCHANGED <<backend, read_queue_, body, answered, blocks, aborted>>

(* siz < 0: 410, and the handler forgets the block. *)
ReadGone ==
    /\ pc = "read"
    /\ ~up
    /\ Answer(0, total_siz)
    /\ data' = 0
    /\ aborted' = aborted + (IF total_siz > 0 THEN 1 ELSE 0)
    /\ UNCHANGED <<backend, read_queue_, blocks>>

(* siz = 0 *)
ReadNothing ==
    /\ pc = "read" /\ up
    /\ read_queue_ = <<>>
    /\ pc' = "encode"
    /\ UNCHANGED <<backend, read_queue_, data, total_siz, body, answered, blocks, aborted>>

(* siz > 0: malloc or realloc, and memcpy to the end of the block ... *)
ReadChunk ==
    /\ pc = "read" /\ up
    /\ read_queue_ # <<>>
    /\ LET siz == Head(read_queue_) IN
          /\ data' = total_siz + siz
          /\ blocks' = blocks + (IF data = 0 THEN 1 ELSE 0)
          /\ total_siz' = Total(siz)
          /\ pc' = IF More(siz) THEN "read" ELSE "encode"
    /\ read_queue_' = Tail(read_queue_)
    /\ UNCHANGED <<backend, body, answered, aborted>>

(* ... or there is no memory: 500. *)
ReadNoMemory ==
    /\ pc = "read" /\ up
    /\ read_queue_ # <<>>
    /\ read_queue_' = Tail(read_queue_)
    /\ Answer(0, total_siz + Head(read_queue_))
    /\ IF data = 0 THEN UNCHANGED <<data, blocks>> ELSE FreeOnError
    /\ UNCHANGED <<backend, aborted>>

(* After unlock() the block is encoded, if there is one: 200 ... *)
Respond ==
    /\ pc = "encode"
    /\ Answer(Base64(total_siz), total_siz)
    /\ IF total_siz = 0 THEN UNCHANGED <<data, blocks>> ELSE Free
    /\ UNCHANGED <<backend, read_queue_, aborted>>

(* ... or cannot be: 500. *)
EncodeFails ==
    /\ pc = "encode"
    /\ total_siz > 0
    /\ FreeOnError
    /\ Answer(0, total_siz)
    /\ UNCHANGED <<backend, read_queue_, aborted>>

-----------------------------------------------------------------------------
(* Client::onRead *)
ChunkArrives(siz) ==
    /\ up
    /\ chunks < MaxChunks
    /\ read_queue_' = Append(read_queue_, siz)
    /\ chunks' = chunks + 1
    /\ arrived' = arrived + siz
    /\ UNCHANGED <<up, pc, data, total_siz, body, answered, blocks, aborted>>

(* The backend closes the connection, or the idle timeout does. *)
SessionGoes ==
    /\ up
    /\ up' = FALSE
    /\ UNCHANGED <<chunks, arrived, read_queue_, pc, data, total_siz, body,
                   answered, blocks, aborted>>

Init ==
    /\ up = TRUE
    /\ read_queue_ = <<>>
    /\ pc = "idle"
    /\ data = 0 /\ total_siz = 0 /\ body = 0
    /\ chunks = 0 /\ arrived = 0 /\ answered = 0 /\ blocks = 0 /\ aborted = 0

Next ==
    \/ Server_onPoll
    \/ ReadGone
    \/ ReadNothing
    \/ ReadChunk
    \/ ReadNoMemory
    \/ Respond
    \/ EncodeFails
    \/ \E siz \in ChunkSizes : ChunkArrives(siz)
    \/ SessionGoes

Spec == Init /\ [][Next]_vars
-----------------------------------------------------------------------------
Largest == CHOOSE n \in ChunkSizes : \A k \in ChunkSizes : k <= n

(* The bytes of the chunks in a queue. *)
Bytes(q) == FoldLeft(LAMBDA n, siz : n + siz, 0, q)

(* Every byte that arrived is queued, in the block, or was answered for by *)
(* one poll: sent in its body, or lost with its error.  So total_siz never *)
(* falls behind what the reads have consumed.                              *)
BytesAccounted == arrived = Bytes(read_queue_) + total_siz + answered

(* Every block is freed once, on every path but one: the block of a poll   *)
(* that finds the session gone after it has read something is leaked.      *)
LeaksOnlyWhenGone == blocks = (IF data = 0 THEN 0 ELSE 1) + aborted

(* linear_fcgi_server.cc, where DATA_THRESHOLD is defined: 'response body  *)
(* MAX_SIZE = 16k'.  So no body should be longer than that.                *)
BodyWithinMax == body <= DATA_THRESHOLD

(* The bound that the code keeps instead: the threshold is tested after a  *)
(* chunk is appended, so that a body may exceed it by a chunk, less a      *)
(* byte, and base64 adds a third.  It rests on chunks being no larger than *)
(* the block onAlloc is asked for.                                         *)
BodyBounded == body <= Base64(DATA_THRESHOLD - 1 + Largest)

TypeOK ==
    /\ up \in BOOLEAN
    /\ read_queue_ \in Seq(ChunkSizes)
    /\ pc \in {"idle", "read", "encode"}
    /\ data \in Nat /\ total_siz \in Nat /\ body \in Nat
    /\ chunks \in 0..MaxChunks
    /\ arrived \in Nat /\ answered \in Nat /\ blocks \in Nat /\ aborted \in Nat

(* The block holds what the reads gave, and is there only during a poll.   *)
BlockHeld ==
    /\ data = total_siz
    /\ pc = "idle" => total_siz = 0

(* A poll that goes on reading is below the threshold; one that has        *)
(* stopped is at most a chunk beyond that.                                 *)
Gathered ==
    /\ pc = "read" => total_siz < DATA_THRESHOLD
    /\ total_siz <= DATA_THRESHOLD - 1 + Largest

(* The inductive invariant. *)
PollInv == TypeOK /\ BlockHeld /\ Gathered /\ LeaksOnlyWhenGone /\ BodyBounded

=============================================================================
