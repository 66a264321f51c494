---------------------------- MODULE StorageLock -----------------------------
(***************************************************************************)
(* The lock of a storage chunk: a mutex, exclusive_lock, and the atomic    *)
(* counter read_count.  A writer keeps the mutex and spins until the       *)
(* readers are gone; a reader holds the mutex just long enough to be       *)
(* counted, and leaves without it.                                         *)
(*                                                                         *)
(* A thread is `running`, or it is inside GetExclusiveLock or              *)
(* GetSharedLock for the chunk target[p].                                  *)
(***************************************************************************)
EXTENDS Naturals, FiniteSets

CONSTANTS
  Thread,
  Chunk,
  Nobody                \* the owner of a free mutex

ASSUME StorageLockAssumption ==
  /\ Nobody \notin Thread
  /\ IsFiniteSet(Thread)
  /\ Chunk # {}

VARIABLES
  exclusive_lock,       \* the owner of the mutex of each chunk
  read_count,
  phase, target,        \* where each thread is in the functions below
  shared, exclusive     \* the chunks each thread has locked

lockVars == <<exclusive_lock, read_count, phase, target, shared, exclusive>>

LockInit ==
  /\ exclusive_lock = [c \in Chunk |-> Nobody]
  /\ read_count = [c \in Chunk |-> 0]
  /\ phase = [p \in Thread |-> "running"]
  /\ target = [p \in Thread |-> CHOOSE c \in Chunk : TRUE]
  /\ shared = [p \in Thread |-> {}]
  /\ exclusive = [p \in Thread |-> {}]

\* p calls GetExclusiveLock: it waits for the mutex.
GetExclusiveLock(p, c) ==
  /\ phase[p] = "running"
  /\ phase' = [phase EXCEPT ![p] = "lock_exclusive"]
  /\ target' = [target EXCEPT ![p] = c]
  /\ UNCHANGED <<exclusive_lock, read_count, shared, exclusive>>

\* exclusive_lock.lock() returns to p.
Lock(p, before, after) ==
  /\ phase[p] = before
  /\ exclusive_lock[target[p]] = Nobody
  /\ exclusive_lock' = [exclusive_lock EXCEPT ![target[p]] = p]
  /\ phase' = [phase EXCEPT ![p] = after]
  /\ UNCHANGED <<read_count, target, shared, exclusive>>

LockForExclusive(p) == Lock(p, "lock_exclusive", "spin")

\* Mutant of Spin: the writer does not wait for the readers.
SpinNot(p) ==
  /\ phase[p] = "spin"
  /\ phase' = [phase EXCEPT ![p] = "running"]
  /\ exclusive' = [exclusive EXCEPT ![p] = @ \cup {target[p]}]
  /\ UNCHANGED <<exclusive_lock, read_count, target, shared>>

\* The writer sees that there is no reader, and returns with the mutex.
Spin(p) ==
  /\ phase[p] = "spin"
  /\ read_count[target[p]] = 0
  /\ phase' = [phase EXCEPT ![p] = "running"]
  /\ exclusive' = [exclusive EXCEPT ![p] = @ \cup {target[p]}]
  /\ UNCHANGED <<exclusive_lock, read_count, target, shared>>

\* p calls GetSharedLock; no caller asks for a chunk that it shares already.
GetSharedLock(p, c) ==
  /\ phase[p] = "running"
  /\ c \notin shared[p]
  /\ phase' = [phase EXCEPT ![p] = "lock_shared"]
  /\ target' = [target EXCEPT ![p] = c]
  /\ UNCHANGED <<exclusive_lock, read_count, shared, exclusive>>

LockForShared(p) == Lock(p, "lock_shared", "count")

\* Mutant of CountReader: the reader keeps the mutex.
CountKeepsMutex(p) ==
  /\ phase[p] = "count"
  /\ read_count' = [read_count EXCEPT ![target[p]] = @ + 1]
  /\ phase' = [phase EXCEPT ![p] = "running"]
  /\ shared' = [shared EXCEPT ![p] = @ \cup {target[p]}]
  /\ UNCHANGED <<exclusive_lock, target, exclusive>>

\* The reader is counted and leaves the mutex.
CountReader(p) ==
  /\ phase[p] = "count"
  /\ read_count' = [read_count EXCEPT ![target[p]] = @ + 1]
  /\ exclusive_lock' = [exclusive_lock EXCEPT ![target[p]] = Nobody]
  /\ phase' = [phase EXCEPT ![p] = "running"]
  /\ shared' = [shared EXCEPT ![p] = @ \cup {target[p]}]
  /\ UNCHANGED <<target, exclusive>>

\* The destructor of the StorageLock.
ReleaseExclusiveLock(p, c) ==
  /\ phase[p] = "running" /\ c \in exclusive[p]
  /\ exclusive_lock' = [exclusive_lock EXCEPT ![c] = Nobody]
  /\ exclusive' = [exclusive EXCEPT ![p] = @ \ {c}]
  /\ UNCHANGED <<read_count, phase, target, shared>>

ReleaseSharedLock(p, c) ==
  /\ phase[p] = "running" /\ c \in shared[p]
  /\ read_count' = [read_count EXCEPT ![c] = @ - 1]
  /\ shared' = [shared EXCEPT ![p] = @ \ {c}]
  /\ UNCHANGED <<exclusive_lock, phase, target, exclusive>>

\* The steps of a thread inside the two functions.
Locking(p) == LockForExclusive(p) \/ Spin(p) \/ LockForShared(p) \/ CountReader(p)

\* Threads that lock and unlock in any order.
LockNext ==
  \E p \in Thread :
    \/ Locking(p)
    \/ \E c \in Chunk :
         \/ GetExclusiveLock(p, c)
         \/ GetSharedLock(p, c)
         \/ ReleaseExclusiveLock(p, c)
         \/ ReleaseSharedLock(p, c)

LockSpec == LockInit /\ [][LockNext]_lockVars

-----------------------------------------------------------------------------
(* Properties.                                                              *)

Phases == {"running", "lock_exclusive", "spin", "lock_shared", "count"}

\* Every variable holds values of its type.
LockTypeOK ==
  /\ exclusive_lock \in [Chunk -> Thread \cup {Nobody}]
  /\ read_count \in [Chunk -> Nat]
  /\ phase \in [Thread -> Phases]
  /\ target \in [Thread -> Chunk]
  /\ shared \in [Thread -> SUBSET Chunk]
  /\ exclusive \in [Thread -> SUBSET Chunk]

Readers(c) == {p \in Thread : c \in shared[p]}
Writers(c) == {p \in Thread : c \in exclusive[p]}

\* p owns the mutex of c: it has the chunk for itself, or is about to.
Owns(p, c) == c \in exclusive[p] \/ (phase[p] \in {"spin", "count"} /\ target[p] = c)

\* The mutex belongs to the thread that is between its lock and unlock, and
\* read_count counts the readers, so that a writer that sees zero is alone.
LockInvariant ==
  /\ \A c \in Chunk, p \in Thread : exclusive_lock[c] = p <=> Owns(p, c)
  /\ \A c \in Chunk : read_count[c] = Cardinality(Readers(c))
  /\ \A c \in Chunk : Writers(c) # {} => Readers(c) = {}
  /\ \A p \in Thread : phase[p] \in {"spin", "count"} => target[p] \notin exclusive[p]
  /\ \A p \in Thread : phase[p] \in {"lock_shared", "count"} => target[p] \notin shared[p]

\* A thread that writes to a chunk is the only one that reads or writes it
\* (StorageChunk::GetExclusiveLock, GetSharedLock).
Exclusion ==
  \A c \in Chunk : Writers(c) # {} => Readers(c) = {} /\ Cardinality(Writers(c)) = 1

\* The mutex and the counter implement the abstract lock.
Abstract == INSTANCE RWLock WITH
  readers <- [c \in Chunk |-> Readers(c)],
  writers <- [c \in Chunk |-> Writers(c)]

\* Every step of the code is a step of the abstract lock, or changes nothing
\* that it shows (GetExclusiveLock, GetSharedLock and the release functions).
ImplementsRWLock == Abstract!Spec
=============================================================================
