------------------------------- MODULE RWLock -------------------------------
(***************************************************************************)
(* What the lock of a storage chunk promises: at any time any number of    *)
(* threads share the chunk, or a single one has it for itself.  How the    *)
(* code gets there, with a mutex and a counter of readers, is the module   *)
(* StorageLock, which implements this one.                                 *)
(***************************************************************************)
CONSTANTS Thread, Chunk

VARIABLES readers, writers   \* for each chunk, the threads that hold its lock

rwVars == <<readers, writers>>

Init ==
  /\ readers = [c \in Chunk |-> {}]
  /\ writers = [c \in Chunk |-> {}]

\* StorageChunk::GetSharedLock has returned to p.
AcquireShared(p, c) ==
  /\ writers[c] = {}
  /\ readers' = [readers EXCEPT ![c] = @ \cup {p}]
  /\ UNCHANGED writers

\* StorageChunk::GetExclusiveLock has returned to p.
AcquireExclusive(p, c) ==
  /\ writers[c] = {} /\ readers[c] = {}
  /\ writers' = [writers EXCEPT ![c] = {p}]
  /\ UNCHANGED readers

\* The StorageLock of p is destroyed.
ReleaseShared(p, c) ==
  /\ p \in readers[c]
  /\ readers' = [readers EXCEPT ![c] = @ \ {p}]
  /\ UNCHANGED writers

ReleaseExclusive(p, c) ==
  /\ p \in writers[c]
  /\ writers' = [writers EXCEPT ![c] = @ \ {p}]
  /\ UNCHANGED readers

Next ==
  \E p \in Thread, c \in Chunk :
    \/ AcquireShared(p, c)
    \/ AcquireExclusive(p, c)
    \/ ReleaseShared(p, c)
    \/ ReleaseExclusive(p, c)

Spec == Init /\ [][Next]_rwVars
=============================================================================
