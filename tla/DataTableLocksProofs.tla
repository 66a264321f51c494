------------------------ MODULE DataTableLocksProofs ------------------------
(***************************************************************************)
(* Proofs about the chunk locks and the operations of a DataTable, for any *)
(* number of threads and chunks.  First the lock itself: the invariant     *)
(* that ties the mutex and read_count to the holders of the lock, mutual   *)
(* exclusion, and that the mutex and the counter implement the abstract    *)
(* lock of module RWLock.  Then the table: its operations use the locks    *)
(* only through the lock functions, so that what is proved of these holds, *)
(* and concurrent appends fill the chunks in order and lose no row.        *)
(***************************************************************************)
EXTENDS DataTableLocks, FiniteSetTheorems, TLAPS

-----------------------------------------------------------------------------
(* The lock.                                                                *)

\* The threads that read a chunk are finitely many, so that they can be
\* counted.
LEMMA ReadersFinite ==
  ASSUME NEW c \in Chunk
  PROVE  IsFiniteSet(Readers(c)) /\ Cardinality(Readers(c)) \in Nat
<1>1. Readers(c) \subseteq Thread  BY Zenon DEF Readers
<1>2. IsFiniteSet(Readers(c))  BY <1>1, StorageLockAssumption, FS_Subset, Zenon
<1> QED  BY <1>2, FS_CardinalityType, Zenon

\* Initially nobody holds or waits for a lock.
LEMMA InitInvariant == LockInit => LockTypeOK /\ LockInvariant
<1> SUFFICES ASSUME LockInit PROVE LockTypeOK /\ LockInvariant  BY Zenon
<1>1. LockTypeOK
  BY StorageLockAssumption, Zenon DEF LockInit, LockTypeOK, Phases
<1>2. \A c \in Chunk : Readers(c) = {} /\ Writers(c) = {}
  BY Zenon DEF LockInit, Readers, Writers
<1>3. \A c \in Chunk : read_count[c] = Cardinality(Readers(c))
  BY <1>2, FS_EmptySet, Zenon DEF LockInit
<1>4. \A c \in Chunk, p \in Thread : exclusive_lock[c] = p <=> Owns(p, c)
  BY StorageLockAssumption, Zenon DEF LockInit, Owns
<1> QED  BY <1>1, <1>2, <1>3, <1>4, Zenon DEF LockInvariant, LockInit

\* Every step of the lock functions keeps the types.
LEMMA TypeStep == LockTypeOK /\ LockInvariant /\ [LockNext]_lockVars => LockTypeOK'
<1> SUFFICES ASSUME LockTypeOK, LockInvariant, [LockNext]_lockVars PROVE LockTypeOK'  BY Zenon
<1> USE DEF LockTypeOK, Phases
<1>1. ASSUME NEW p \in Thread, LockForExclusive(p) PROVE LockTypeOK'
  BY <1>1, Zenon DEF LockForExclusive, Lock
<1>2. ASSUME NEW p \in Thread, LockForShared(p) PROVE LockTypeOK'
  BY <1>2, Zenon DEF LockForShared, Lock
<1>3. ASSUME NEW p \in Thread, Spin(p) PROVE LockTypeOK'
  BY <1>3, Zenon DEF Spin
<1>4. ASSUME NEW p \in Thread, CountReader(p) PROVE LockTypeOK'
  BY <1>4 DEF CountReader
<1>5. ASSUME NEW p \in Thread, NEW c \in Chunk,
             GetExclusiveLock(p, c) \/ GetSharedLock(p, c)
      PROVE  LockTypeOK'
  BY <1>5 DEF GetExclusiveLock, GetSharedLock
<1>6. ASSUME NEW p \in Thread, NEW c \in Chunk, ReleaseExclusiveLock(p, c)
      PROVE  LockTypeOK'
  BY <1>6, Zenon DEF ReleaseExclusiveLock
<1>7. ASSUME NEW p \in Thread, NEW c \in Chunk, ReleaseSharedLock(p, c)
      PROVE  LockTypeOK'
  <2>1. p \in Readers(c)  BY <1>7, Zenon DEF ReleaseSharedLock, Readers
  <2>2. read_count[c] # 0
    BY <2>1, ReadersFinite, FS_EmptySet, Zenon DEF LockInvariant
  <2>3. read_count[c] - 1 \in Nat  BY <2>2
  <2> QED  BY <1>7, <2>3, Zenon DEF ReleaseSharedLock
<1>8. CASE UNCHANGED lockVars  BY <1>8, Zenon DEF lockVars
<1> QED  BY <1>1, <1>2, <1>3, <1>4, <1>5, <1>6, <1>7, <1>8, Zenon DEF LockNext, Locking

\* The parts of LockInvariant that the proofs below refer to.
OwnerInv == \A c \in Chunk, p \in Thread : exclusive_lock[c] = p <=> Owns(p, c)
CountInv == \A c \in Chunk : read_count[c] = Cardinality(Readers(c))
AloneInv == \A c \in Chunk : Writers(c) # {} => Readers(c) = {}
FreshInv ==
  /\ \A p \in Thread : phase[p] \in {"spin", "count"} => target[p] \notin exclusive[p]
  /\ \A p \in Thread : phase[p] \in {"lock_shared", "count"} => target[p] \notin shared[p]

\* LockInvariant is the conjunction of these parts.
LEMMA Parts == LockInvariant <=> OwnerInv /\ CountInv /\ AloneInv /\ FreshInv
BY Zenon DEF LockInvariant, OwnerInv, CountInv, AloneInv, FreshInv

\* A thread that takes the mutex of a chunk owns it alone (Lock).
LEMMA MutexStep ==
  ASSUME LockTypeOK, LockInvariant, NEW p \in Thread,
         LockForExclusive(p) \/ LockForShared(p)
  PROVE  LockInvariant'
<1> USE StorageLockAssumption DEF LockTypeOK, LockForExclusive, LockForShared, Lock
<1>1. /\ exclusive_lock' = [exclusive_lock EXCEPT ![target[p]] = p]
      /\ phase'[p] \in {"spin", "count"}
      /\ \A q \in Thread \ {p} : phase'[q] = phase[q]
      /\ UNCHANGED <<read_count, target, shared, exclusive>>
  BY Zenon
<1>2. \A q \in Thread : ~Owns(q, target[p])
  BY DEF LockInvariant
<1>3. OwnerInv'
  BY <1>1, <1>2 DEF LockInvariant, OwnerInv, Owns
<1>4. \A c \in Chunk : Readers(c)' = Readers(c) /\ Writers(c)' = Writers(c)
  BY <1>1, Zenon DEF Readers, Writers
<1>5. CountInv' /\ AloneInv'
  BY <1>1, <1>4 DEF LockInvariant, CountInv, AloneInv
<1>6. FreshInv'
  BY <1>1, <1>2 DEF LockInvariant, FreshInv, Owns
<1> QED  BY <1>3, <1>5, <1>6, Parts, Zenon DEF LockInvariant, OwnerInv, CountInv, AloneInv, FreshInv

\* A writer that sees no reader has the chunk for itself (Spin).
LEMMA SpinStep ==
  ASSUME LockTypeOK, LockInvariant, NEW p \in Thread, Spin(p)
  PROVE  LockInvariant'
<1> USE StorageLockAssumption DEF LockTypeOK, Spin
<1>1. Readers(target[p]) = {}
  BY ReadersFinite, FS_EmptySet, Zenon DEF LockInvariant
<1>2. \A c \in Chunk : Readers(c)' = Readers(c)
  BY Zenon DEF Readers
<1>3. \A c \in Chunk : Writers(c)' = IF c = target[p] THEN Writers(c) \cup {p} ELSE Writers(c)
  BY DEF Writers
<1>4. \A q \in Thread, c \in Chunk : Owns(q, c)' <=> Owns(q, c)
  BY Zenon DEF Owns
<1>5. OwnerInv'  BY <1>4, Zenon DEF LockInvariant, OwnerInv
<1>6. CountInv'  BY <1>2, Zenon DEF LockInvariant, CountInv
<1>7. AloneInv'  BY <1>1, <1>2, <1>3, Zenon DEF LockInvariant, AloneInv
<1>8. ASSUME NEW q \in Thread, q # p, phase[q] \in {"spin", "count"}
      PROVE  target[q] \notin exclusive'[q]
  BY <1>8, Zenon DEF LockInvariant
<1>9. FreshInv'  BY <1>8, Zenon DEF LockInvariant, FreshInv
<1> QED  BY <1>5, <1>6, <1>7, <1>9, Zenon DEF LockInvariant, OwnerInv, CountInv, AloneInv, FreshInv

\* A reader is counted while it has the mutex, so no writer is there
\* (CountReader).
LEMMA CountStep ==
  ASSUME LockTypeOK, LockInvariant, NEW p \in Thread, CountReader(p)
  PROVE  LockInvariant'
<1> USE StorageLockAssumption DEF LockTypeOK, CountReader
<1> DEFINE d == target[p]
<1>1. Owns(p, d) /\ d \notin exclusive[p] /\ d \notin shared[p]
  BY Zenon DEF Owns, LockInvariant
<1>2. \A q \in Thread : Owns(q, d) <=> q = p
  BY <1>1 DEF LockInvariant
<1>3. Writers(d) = {}
  BY <1>1, <1>2, Zenon DEF Writers, Owns
<1>4. \A c \in Chunk : Writers(c)' = Writers(c)
  BY Zenon DEF Writers
<1>5. \A c \in Chunk \ {d} : Readers(c)' = Readers(c)
  BY Zenon DEF Readers
<1>6. Readers(d)' = Readers(d) \cup {p} /\ p \notin Readers(d)
  BY <1>1 DEF Readers
<1>7. Cardinality(Readers(d)') = Cardinality(Readers(d)) + 1
  BY <1>6, ReadersFinite, FS_AddElement, Zenon
<1>8. CountInv'
  BY <1>5, <1>7, Zenon DEF LockInvariant, CountInv
<1>9. AloneInv'
  BY <1>3, <1>4, <1>5, Zenon DEF LockInvariant, AloneInv
<1>10. \A q \in Thread, c \in Chunk : Owns(q, c)' <=> Owns(q, c) /\ c # d
  BY <1>1, <1>2 DEF Owns
<1>11. OwnerInv'
  BY <1>2, <1>10 DEF LockInvariant, OwnerInv
<1>12. FreshInv'
  BY Zenon DEF LockInvariant, FreshInv
<1> QED  BY <1>8, <1>9, <1>11, <1>12, Zenon DEF LockInvariant, OwnerInv, CountInv, AloneInv, FreshInv

\* Calling a lock function changes no holder (GetExclusiveLock, GetSharedLock).
LEMMA CallStep ==
  ASSUME LockTypeOK, LockInvariant, NEW p \in Thread, NEW c \in Chunk,
         GetExclusiveLock(p, c) \/ GetSharedLock(p, c)
  PROVE  LockInvariant'
<1> USE StorageLockAssumption DEF LockTypeOK, GetExclusiveLock, GetSharedLock
<1>1. \A d \in Chunk : Readers(d)' = Readers(d) /\ Writers(d)' = Writers(d)
  BY Zenon DEF Readers, Writers
<1>2. \A q \in Thread, d \in Chunk : Owns(q, d)' <=> Owns(q, d)
  BY Zenon DEF Owns
<1>3. OwnerInv' /\ CountInv' /\ AloneInv'
  BY <1>1, <1>2, Zenon DEF LockInvariant, OwnerInv, CountInv, AloneInv
<1>4. FreshInv'
  BY DEF LockInvariant, FreshInv
<1> QED  BY <1>3, <1>4, Zenon DEF LockInvariant, OwnerInv, CountInv, AloneInv, FreshInv

\* A writer gives the mutex back (ReleaseExclusiveLock).
LEMMA ReleaseExclusiveStep ==
  ASSUME LockTypeOK, LockInvariant, NEW p \in Thread, NEW c \in Chunk,
         ReleaseExclusiveLock(p, c)
  PROVE  LockInvariant'
<1> USE StorageLockAssumption DEF LockTypeOK, ReleaseExclusiveLock
<1>1. \A q \in Thread : Owns(q, c) <=> q = p
  BY DEF LockInvariant, Owns
<1>2. \A q \in Thread, d \in Chunk : Owns(q, d)' <=> Owns(q, d) /\ d # c
  BY <1>1, Zenon DEF Owns
<1>3. OwnerInv'
  BY <1>1, <1>2 DEF LockInvariant, OwnerInv
<1>4. \A d \in Chunk : Readers(d)' = Readers(d) /\ Writers(d)' \subseteq Writers(d)
  BY Zenon DEF Readers, Writers
<1>5. CountInv' /\ AloneInv'
  BY <1>4, Zenon DEF LockInvariant, CountInv, AloneInv
<1>6. FreshInv'
  BY Zenon DEF LockInvariant, FreshInv
<1> QED  BY <1>3, <1>5, <1>6, Zenon DEF LockInvariant, OwnerInv, CountInv, AloneInv, FreshInv

\* A reader leaves and is no longer counted (ReleaseSharedLock).
LEMMA ReleaseSharedStep ==
  ASSUME LockTypeOK, LockInvariant, NEW p \in Thread, NEW c \in Chunk,
         ReleaseSharedLock(p, c)
  PROVE  LockInvariant'
<1> USE StorageLockAssumption DEF LockTypeOK, ReleaseSharedLock
<1>1. \A d \in Chunk \ {c} : Readers(d)' = Readers(d)
  BY Zenon DEF Readers
<1>2. Readers(c)' = Readers(c) \ {p} /\ p \in Readers(c)
  BY Zenon DEF Readers
<1>3. Cardinality(Readers(c)') = Cardinality(Readers(c)) - 1
  BY <1>2, ReadersFinite, FS_RemoveElement, Zenon
<1>4. CountInv'
  BY <1>1, <1>3, Zenon DEF LockInvariant, CountInv
<1>5. \A d \in Chunk : Writers(d)' = Writers(d)
  BY Zenon DEF Writers
<1>6. AloneInv'
  BY <1>1, <1>2, <1>5, Zenon DEF LockInvariant, AloneInv
<1>7. \A q \in Thread, d \in Chunk : Owns(q, d)' <=> Owns(q, d)
  BY Zenon DEF Owns
<1>8. OwnerInv'
  BY <1>7, Zenon DEF LockInvariant, OwnerInv
<1>9. FreshInv'
  BY Zenon DEF LockInvariant, FreshInv
<1> QED  BY <1>4, <1>6, <1>8, <1>9, Zenon DEF LockInvariant, OwnerInv, CountInv, AloneInv, FreshInv

\* Every step of the lock functions keeps the invariant.
LEMMA InvariantStep ==
  LockTypeOK /\ LockInvariant /\ [LockNext]_lockVars => LockInvariant'
<1> SUFFICES ASSUME LockTypeOK, LockInvariant, [LockNext]_lockVars PROVE LockInvariant'  BY Zenon
<1>1. CASE UNCHANGED lockVars
  BY <1>1 DEF lockVars, LockInvariant, Owns, Readers, Writers
<1>2. CASE LockNext
  BY <1>2, MutexStep, SpinStep, CountStep, CallStep, ReleaseExclusiveStep, ReleaseSharedStep, Zenon
     DEF LockNext, Locking
<1> QED  BY <1>1, <1>2, Zenon

\* The types, and the invariant that ties exclusive_lock and read_count to the
\* holders of the lock, hold in every reachable state, for any threads, chunks
\* and order of calls (StorageChunk::GetExclusiveLock, GetSharedLock and the
\* release functions).
THEOREM LockCorrect == LockSpec => [](LockTypeOK /\ LockInvariant)
<1>1. LockInit => LockTypeOK /\ LockInvariant  BY InitInvariant, Zenon
<1>2. LockTypeOK /\ LockInvariant /\ [LockNext]_lockVars => (LockTypeOK /\ LockInvariant)'
  BY TypeStep, InvariantStep, Zenon
<1> QED  BY <1>1, <1>2, PTL DEF LockSpec

\* Under the invariant a chunk has no reader beside a writer, and one writer.
LEMMA InvariantExcludes == LockTypeOK /\ LockInvariant => Exclusion
<1> SUFFICES ASSUME LockTypeOK, LockInvariant, NEW c \in Chunk, Writers(c) # {}
             PROVE  Readers(c) = {} /\ Cardinality(Writers(c)) = 1
  BY Zenon DEF Exclusion
<1>1. PICK p \in Thread : p \in Writers(c)  BY Zenon DEF Writers
<1>2. \A q \in Writers(c) : q = p
  BY <1>1 DEF Writers, LockInvariant, Owns
<1>3. Writers(c) = {p}  BY <1>1, <1>2, Zenon
<1>4. Cardinality(Writers(c)) = 1  BY <1>3, FS_Singleton, Zenon
<1> QED  BY <1>4, Zenon DEF LockInvariant

\* A thread that has a chunk exclusively is alone with it, whatever the number
\* of threads (StorageChunk::GetExclusiveLock against GetSharedLock).
THEOREM MutualExclusion == LockSpec => []Exclusion
BY LockCorrect, InvariantExcludes, PTL

\* The initial state is one of the abstract lock.
LEMMA AbstractInit == LockInit => Abstract!Init
BY DEF LockInit, Abstract!Init, Readers, Writers

\* Every step of the code is a step of the abstract lock or a stutter.
LEMMA AbstractStep ==
  ASSUME LockTypeOK, LockInvariant, [LockNext]_lockVars
  PROVE  [Abstract!Next]_(Abstract!rwVars)
<1> USE DEF LockTypeOK
<1>1. ASSUME NEW p \in Thread, Spin(p) PROVE Abstract!Next
  <2>1. Writers(target[p]) = {} /\ Readers(target[p]) = {}
    <3>1. Readers(target[p]) = {}
      BY <1>1, ReadersFinite, FS_EmptySet, Zenon DEF Spin, LockInvariant
    <3>2. \A q \in Thread : Owns(q, target[p]) => q = p
      BY <1>1 DEF Spin, LockInvariant, Owns
    <3> QED  BY <1>1, <3>1, <3>2 DEF Writers, Owns, LockInvariant, Spin
  <2>2. Abstract!AcquireExclusive(p, target[p])
    <3>1. \A c \in Chunk : Writers(c)' = IF c = target[p] THEN {p} ELSE Writers(c)
      <4>1. \A c \in Chunk : Writers(c)' = IF c = target[p] THEN Writers(c) \cup {p} ELSE Writers(c)
        BY <1>1, Zenon DEF Spin, Writers
      <4> QED  BY <2>1, <4>1, Zenon
    <3>2. \A c \in Chunk : Readers(c)' = Readers(c)  BY <1>1, Zenon DEF Spin, Readers
    <3>3. target[p] \in Chunk  BY Zenon
    <3> QED  BY <2>1, <3>1, <3>2, <3>3, Zenon DEF Abstract!AcquireExclusive
  <2> QED  BY <2>2, Zenon DEF Abstract!Next
<1>2. ASSUME NEW p \in Thread, CountReader(p) PROVE Abstract!Next
  <2>1. Writers(target[p]) = {}
    BY <1>2, StorageLockAssumption DEF CountReader, LockInvariant, Owns, Writers
  <2>2. Abstract!AcquireShared(p, target[p])
    <3>1. \A c \in Chunk : Readers(c)' = IF c = target[p] THEN Readers(c) \cup {p} ELSE Readers(c)
      BY <1>2, Zenon DEF CountReader, Readers
    <3>2. \A c \in Chunk : Writers(c)' = Writers(c)  BY <1>2, Zenon DEF CountReader, Writers
    <3>3. target[p] \in Chunk  BY Zenon
    <3> QED  BY <2>1, <3>1, <3>2, <3>3, Zenon DEF Abstract!AcquireShared
  <2> QED  BY <2>2, Zenon DEF Abstract!Next
<1>3. ASSUME NEW p \in Thread, NEW c \in Chunk, ReleaseExclusiveLock(p, c)
      PROVE  Abstract!Next
  <2>1. Abstract!ReleaseExclusive(p, c)
    <3>1. \A d \in Chunk : Writers(d)' = IF d = c THEN Writers(d) \ {p} ELSE Writers(d)
      BY <1>3, Zenon DEF ReleaseExclusiveLock, Writers
    <3>2. \A d \in Chunk : Readers(d)' = Readers(d)  BY <1>3, Zenon DEF ReleaseExclusiveLock, Readers
    <3>3. p \in Writers(c)  BY <1>3, Zenon DEF ReleaseExclusiveLock, Writers
    <3> QED  BY <3>1, <3>2, <3>3, Zenon DEF Abstract!ReleaseExclusive
  <2> QED  BY <2>1, Zenon DEF Abstract!Next
<1>4. ASSUME NEW p \in Thread, NEW c \in Chunk, ReleaseSharedLock(p, c)
      PROVE  Abstract!Next
  <2>1. Abstract!ReleaseShared(p, c)
    <3>1. \A d \in Chunk : Readers(d)' = IF d = c THEN Readers(d) \ {p} ELSE Readers(d)
      BY <1>4, Zenon DEF ReleaseSharedLock, Readers
    <3>2. \A d \in Chunk : Writers(d)' = Writers(d)  BY <1>4, Zenon DEF ReleaseSharedLock, Writers
    <3>3. p \in Readers(c)  BY <1>4, Zenon DEF ReleaseSharedLock, Readers
    <3> QED  BY <3>1, <3>2, <3>3, Zenon DEF Abstract!ReleaseShared
  <2> QED  BY <2>1, Zenon DEF Abstract!Next
<1>5. CASE UNCHANGED <<shared, exclusive>>
  BY <1>5, Zenon DEF Abstract!rwVars, Readers, Writers
<1>6. ASSUME NEW p \in Thread, LockForExclusive(p) \/ LockForShared(p)
      PROVE  UNCHANGED <<shared, exclusive>>
  BY <1>6, Zenon DEF LockForExclusive, LockForShared, Lock
<1>7. ASSUME NEW p \in Thread, NEW c \in Chunk, GetExclusiveLock(p, c) \/ GetSharedLock(p, c)
      PROVE  UNCHANGED <<shared, exclusive>>
  BY <1>7, Zenon DEF GetExclusiveLock, GetSharedLock
<1>8. UNCHANGED lockVars => UNCHANGED <<shared, exclusive>>  BY Zenon DEF lockVars
<1> QED  BY <1>1, <1>2, <1>3, <1>4, <1>5, <1>6, <1>7, <1>8, Zenon DEF LockNext, Locking

\* The mutex and the counter of readers implement the abstract readers-writer
\* lock, for any threads and chunks (StorageChunk::GetExclusiveLock,
\* GetSharedLock, ReleaseExclusiveLock and ReleaseSharedLock).
THEOREM LockImplements == LockSpec => ImplementsRWLock
<1>1. LockInit => Abstract!Init  BY AbstractInit, Zenon
<1>2. LockTypeOK /\ LockInvariant /\ [LockNext]_lockVars => [Abstract!Next]_(Abstract!rwVars)
  BY AbstractStep, Zenon
<1> QED  BY <1>1, <1>2, LockCorrect, PTL DEF LockSpec, ImplementsRWLock, Abstract!Spec

-----------------------------------------------------------------------------
(* The operations of the table.                                             *)

\* A scan or an index build is on a chunk of the list, and an append that makes
\* a new chunk has the lock of the last one, which is full.
CursorInv ==
  \A p \in Thread :
    /\ op[p] = "scan" => cursor[p] \in 0..tail_chunk
    /\ op[p] = "build" => cursor[p] \in 0..tail_chunk \cup {NoChunk}
    /\ op[p] = "append" /\ step[p] = "grow" =>
         /\ cursor[p] \in Chunk /\ cursor[p] = tail_chunk + 1
         /\ tail_chunk \in exclusive[p]
         /\ count[tail_chunk] = STORAGE_CHUNK_SIZE

\* The inductive invariant.
TableInv == LockInvariant /\ TableTypeOK /\ CursorInv /\ ChunksFull /\ NoRowLost

\* A chunk index is a natural number.
LEMMA ChunkFacts ==
  /\ MaxChunks \in Nat \ {0} /\ STORAGE_CHUNK_SIZE \in Nat \ {0}
  /\ \A c : c \in Chunk <=> c \in Nat /\ c < MaxChunks
  /\ NoChunk \notin Chunk
  /\ \A n \in AppendSizes : n \in 1..STORAGE_CHUNK_SIZE
BY DataTableLocksAssumption

\* The smaller of two numbers.
LEMMA MinOfTwo ==
  ASSUME NEW a \in Nat, NEW b \in Nat
  PROVE  /\ Min({a, b}) \in Nat
         /\ Min({a, b}) <= a /\ Min({a, b}) <= b
         /\ Min({a, b}) = a \/ Min({a, b}) = b
<1>1. \E x \in {a, b} : \A y \in {a, b} : x <= y  OBVIOUS
<1> QED  BY <1>1, Zenon DEF Min

\* Two facts of arithmetic.
LEMMA Smaller == ASSUME NEW a \in Nat, NEW b \in Nat, a <= b, a # b PROVE a < b
OBVIOUS

LEMMA Successor ==
  ASSUME NEW b \in Nat, NEW a \in 0..b, a # b
  PROVE  a + 1 \in Nat /\ a + 1 <= b /\ \A m \in Nat : b < m => a + 1 < m
OBVIOUS

\* What an operation does with the locks, the lock functions do.
LEMMA TableStepLocks == ASSUME TableInv, TableNext PROVE [LockNext]_lockVars
<1> USE ChunkFacts DEF TableInv, TableTypeOK, LockTypeOK
<1>1. CASE Finished  BY <1>1, Zenon DEF Finished, vars
<1>2. ASSUME NEW p \in Thread, Step(p) PROVE [LockNext]_lockVars
  <2>1. CASE Locking(p)  BY <2>1, Zenon DEF LockNext
  <2>2. CASE ScanChunk(p)  BY <2>2, Zenon DEF ScanChunk, LockNext
  <2>3. CASE ScanNext(p)
    <3>1. cursor[p] \in Chunk  BY <2>3 DEF ScanNext, Running, CursorInv
    <3> QED  BY <2>3, <3>1, Zenon DEF ScanNext, LockNext
  <2>4. CASE BuildChunk(p)
    <3>1. CASE Next(cursor[p]) = NoChunk  BY <2>4, <3>1, Zenon DEF BuildChunk
    <3>2. CASE Next(cursor[p]) # NoChunk
      <4>1. cursor[p] \in 0..tail_chunk /\ cursor[p] # tail_chunk
        BY <2>4, <3>2, Zenon DEF BuildChunk, Running, CursorInv, Next
      <4>2. tail_chunk \in Nat /\ tail_chunk < MaxChunks  BY Zenon
      <4>3. cursor[p] + 1 \in Nat /\ cursor[p] + 1 < MaxChunks  BY <4>1, <4>2, Successor, Zenon
      <4>4. Next(cursor[p]) = cursor[p] + 1  BY <4>1, Zenon DEF Next
      <4>5. Next(cursor[p]) \in Chunk  BY <4>3, <4>4, Zenon
      <4> QED  BY <2>4, <3>2, <4>5, Zenon DEF BuildChunk, LockNext
    <3> QED  BY <3>1, <3>2, Zenon
  <2>5. CASE EndWrite(p, "delete") \/ EndWrite(p, "update")
    BY <2>5, Zenon DEF EndWrite, MayWrite, LockNext
  <2>6. CASE Relock(p)  BY <2>6, Zenon DEF Relock, LockNext
  <2>7. CASE AppendHere(p)
    <3> DEFINE n == Min({STORAGE_CHUNK_SIZE - count[cursor[p]], rows[p]})
    <3>1. cursor[p] \in Chunk  BY <2>7, Zenon DEF AppendHere, AtTail
    <3>2. rows[p] \in Nat /\ n \in Nat /\ n <= rows[p]
      <4>1. STORAGE_CHUNK_SIZE - count[cursor[p]] \in Nat /\ rows[p] \in Nat  BY <3>1
      <4> QED  BY <4>1, MinOfTwo, Zenon
    <3>3. CASE n = rows[p]  BY <2>7, <3>3, Zenon DEF AppendHere
    <3>4. CASE n # rows[p]
      <4>1. n < rows[p]
        <5> HIDE DEF n
        <5> QED  BY <3>2, <3>4, Smaller, Zenon
      <4>2. cursor[p] + 1 \in Chunk /\ GetExclusiveLock(p, cursor[p] + 1)
        BY <2>7, <3>4, <4>1, Zenon DEF AppendHere
      <4> QED  BY <4>2, Zenon DEF LockNext
    <3> QED  BY <3>3, <3>4, Zenon
  <2>8. CASE AppendRest(p) \/ UnlockIndex(p) \/ \E S \in SUBSET Chunk : LockIndex(p, S)
    BY <2>8, Zenon DEF AppendRest, UnlockIndex, LockIndex
  <2>9. ASSUME NEW c \in Chunk,
               \/ FetchNext(p, c) \/ FetchRelease(p, c) \/ BuildRelease(p, c) \/ ReleaseOld(p, c)
               \/ EndAppend(p, c) \/ CheckEntry(p, c) \/ EntryChecked(p, c)
        PROVE  [LockNext]_lockVars
    BY <2>9, Zenon DEF FetchNext, FetchRelease, BuildRelease, ReleaseOld, EndAppend, CheckEntry,
                EntryChecked, LockNext
  <2> QED  BY <1>2, <2>1, <2>2, <2>3, <2>4, <2>5, <2>6, <2>7, <2>8, <2>9 DEF Step
<1>3. ASSUME NEW p \in Thread, BeginOperation(p) PROVE [LockNext]_lockVars
  <2>1. CASE BeginScan(p) \/ BeginBuild(p)  BY <2>1 DEF BeginScan, BeginBuild, LockNext
  <2>2. ASSUME NEW S \in SUBSET Chunk, BeginFetch(p, S) PROVE [LockNext]_lockVars
    BY <2>2, Zenon DEF BeginFetch, LockNext
  <2>3. ASSUME NEW c \in Chunk, BeginWrite(p, "delete", c) \/ BeginWrite(p, "update", c)
        PROVE  [LockNext]_lockVars
    BY <2>3, Zenon DEF BeginWrite, LockNext
  <2>4. ASSUME NEW n \in AppendSizes, BeginAppend(p, n) PROVE [LockNext]_lockVars
    BY <2>4, Zenon DEF BeginAppend, LockNext
  <2> QED  BY <1>3, <2>1, <2>2, <2>3, <2>4, Zenon DEF BeginOperation
<1> QED  BY <1>1, <1>2, <1>3, Zenon DEF TableNext

\* Only an append changes the chunks.
LEMMA TailSteps ==
  ASSUME TableNext
  PROVE  \/ UNCHANGED <<count, tail_chunk, appended>>
         \/ \E p \in Thread : AppendHere(p) \/ AppendRest(p)
<1>1. CASE Finished  BY <1>1, Zenon DEF Finished, vars, tableVars
<1>2. ASSUME NEW p \in Thread, Step(p), ~AppendHere(p), ~AppendRest(p)
      PROVE  UNCHANGED <<count, tail_chunk, appended>>
  BY <1>2, Zenon DEF Step, tableVars, ScanChunk, ScanNext, BuildChunk, EndWrite, Relock, UnlockIndex,
              LockIndex, FetchNext, FetchRelease, BuildRelease, ReleaseOld, EndAppend,
              CheckEntry, EntryChecked
<1>3. ASSUME NEW p \in Thread, BeginOperation(p) PROVE UNCHANGED <<count, tail_chunk, appended>>
  BY <1>3, Zenon DEF BeginOperation, BeginScan, BeginBuild, BeginFetch, BeginWrite, BeginAppend, Begin,
              tableVars
<1> QED  BY <1>1, <1>2, <1>3, Zenon DEF TableNext

\* The facts about an append in the last chunk.
LEMMA AppendHereFacts ==
  ASSUME TableInv, NEW p \in Thread, AppendHere(p)
  PROVE  \E n \in Nat :
           /\ tail_chunk = cursor[p] /\ exclusive[p] = {tail_chunk}
           /\ n <= rows[p] /\ count[tail_chunk] + n <= STORAGE_CHUNK_SIZE
           /\ n < rows[p] => count[tail_chunk] + n = STORAGE_CHUNK_SIZE
           /\ count' = [count EXCEPT ![tail_chunk] = @ + n]
           /\ rows' = [rows EXCEPT ![p] = @ - n]
           /\ appended' = appended + n
           /\ \/ n = rows[p] /\ step' = [step EXCEPT ![p] = "done"] /\ cursor' = cursor
              \/ /\ n < rows[p] /\ step' = [step EXCEPT ![p] = "grow"]
                 /\ cursor' = [cursor EXCEPT ![p] = @ + 1] /\ cursor[p] + 1 \in Chunk
                 /\ exclusive' = exclusive
           /\ UNCHANGED <<unique, tail_chunk, index_lock, op, todo, left>>
<1> USE ChunkFacts DEF TableInv, TableTypeOK
<1> DEFINE n == Min({STORAGE_CHUNK_SIZE - count[cursor[p]], rows[p]})
<1>1. cursor[p] = tail_chunk /\ exclusive[p] = {cursor[p]}
  BY Zenon DEF AppendHere, AtTail
<1>2. rows[p] \in Nat /\ count[tail_chunk] \in Nat /\ count[tail_chunk] <= STORAGE_CHUNK_SIZE
  OBVIOUS
<1>3. /\ n \in Nat /\ n <= rows[p] /\ n <= STORAGE_CHUNK_SIZE - count[tail_chunk]
      /\ n = STORAGE_CHUNK_SIZE - count[tail_chunk] \/ n = rows[p]
  <2>1. STORAGE_CHUNK_SIZE - count[tail_chunk] \in Nat  BY <1>2
  <2> QED  BY <1>1, <1>2, <2>1, MinOfTwo, Zenon
<1>4. /\ count' = [count EXCEPT ![cursor[p]] = @ + n]
      /\ n < rows[p] => cursor[p] + 1 \in Chunk
      /\ rows' = [rows EXCEPT ![p] = @ - n]
      /\ appended' = appended + n
      /\ IF n = rows[p]
           THEN step' = [step EXCEPT ![p] = "done"] /\ UNCHANGED <<lockVars, cursor>>
           ELSE /\ step' = [step EXCEPT ![p] = "grow"]
                /\ GetExclusiveLock(p, cursor[p] + 1)
                /\ cursor' = [cursor EXCEPT ![p] = @ + 1]
      /\ UNCHANGED <<unique, tail_chunk, index_lock, op, todo, left>>
  BY Zenon DEF AppendHere
<1> HIDE DEF n
<1>5. n < rows[p] => count[tail_chunk] + n = STORAGE_CHUNK_SIZE  BY <1>2, <1>3
<1>6. count[tail_chunk] + n <= STORAGE_CHUNK_SIZE  BY <1>2, <1>3
<1>7. \/ n = rows[p] /\ step' = [step EXCEPT ![p] = "done"] /\ cursor' = cursor
      \/ /\ n < rows[p] /\ step' = [step EXCEPT ![p] = "grow"]
         /\ cursor' = [cursor EXCEPT ![p] = @ + 1] /\ cursor[p] + 1 \in Chunk
         /\ exclusive' = exclusive
  <2>1. CASE n = rows[p]  BY <1>4, <2>1, Zenon
  <2>2. CASE n # rows[p]
    <3>1. n < rows[p]  BY <1>2, <1>3, <2>2
    <3> QED  BY <1>4, <2>2, <3>1, Zenon DEF GetExclusiveLock
  <2> QED  BY <2>1, <2>2, Zenon
<1> QED  BY <1>1, <1>3, <1>4, <1>5, <1>6, <1>7, Zenon

\* Two threads do not have the same chunk for themselves.
LEMMA OneWriter ==
  ASSUME LockInvariant, NEW p \in Thread, NEW q \in Thread, NEW c \in Chunk,
         c \in exclusive[p], c \in exclusive[q]
  PROVE  p = q
BY DEF LockInvariant, Owns

\* Chunks are filled in order, and no row is lost, by every step.
LEMMA TailStep ==
  ASSUME TableInv, TableNext
  PROVE  ChunksFull' /\ NoRowLost'
<1> USE ChunkFacts
<1>1. CASE UNCHANGED <<count, tail_chunk, appended>>
  BY <1>1, Zenon DEF TableInv, ChunksFull, NoRowLost
<1>2. ASSUME NEW p \in Thread, AppendHere(p) PROVE ChunksFull' /\ NoRowLost'
  <2>1. PICK n \in Nat :
           /\ count[tail_chunk] + n <= STORAGE_CHUNK_SIZE
           /\ count' = [count EXCEPT ![tail_chunk] = @ + n]
           /\ appended' = appended + n
           /\ UNCHANGED tail_chunk
    BY <1>2, AppendHereFacts, Zenon
  <2>2. ChunksFull'  BY <2>1, Zenon DEF TableInv, TableTypeOK, ChunksFull
  <2>3. count'[tail_chunk] = count[tail_chunk] + n /\ count[tail_chunk] \in Nat
    BY <2>1 DEF TableInv, TableTypeOK
  <2>4. tail_chunk * STORAGE_CHUNK_SIZE \in Nat
    <3>1. tail_chunk \in Nat /\ STORAGE_CHUNK_SIZE \in Nat  BY Zenon DEF TableInv, TableTypeOK
    <3> QED  BY <3>1
  <2>5. NoRowLost'  BY <2>1, <2>3, <2>4 DEF TableInv, NoRowLost
  <2> QED  BY <2>2, <2>5, Zenon
<1>3. ASSUME NEW p \in Thread, AppendRest(p) PROVE ChunksFull' /\ NoRowLost'
  <2>1. /\ tail_chunk' = tail_chunk + 1 /\ tail_chunk' \in Chunk
        /\ count[tail_chunk] = STORAGE_CHUNK_SIZE
        /\ count' = [count EXCEPT ![tail_chunk + 1] = rows[p]]
        /\ appended' = appended + rows[p]
    BY <1>3, Zenon DEF TableInv, CursorInv, AppendRest, Running
  <2>2. tail_chunk \in Nat /\ STORAGE_CHUNK_SIZE \in Nat /\ rows[p] \in Nat
    BY DEF TableInv, TableTypeOK
  <2>3. ChunksFull'  BY <2>1, <2>2 DEF TableInv, TableTypeOK, ChunksFull
  <2>4. (tail_chunk + 1) * STORAGE_CHUNK_SIZE = tail_chunk * STORAGE_CHUNK_SIZE + STORAGE_CHUNK_SIZE
    BY <2>2
  <2>5. tail_chunk * STORAGE_CHUNK_SIZE \in Nat  BY <2>2
  <2>6. count'[tail_chunk'] = rows[p]  BY <2>1, Zenon DEF TableInv, TableTypeOK
  <2>7. NoRowLost'  BY <2>1, <2>2, <2>4, <2>5, <2>6, Zenon DEF TableInv, NoRowLost
  <2> QED  BY <2>3, <2>7, Zenon
<1> QED  BY <1>1, <1>2, <1>3, TailSteps, Zenon

\* A step of p leaves the other threads where they are.
LEMMA OthersStay ==
  ASSUME TableTypeOK, NEW p \in Thread, Step(p) \/ BeginOperation(p), NEW q \in Thread, q # p
  PROVE  op'[q] = op[q] /\ step'[q] = step[q] /\ cursor'[q] = cursor[q] /\ exclusive'[q] = exclusive[q]
<1> USE DEF TableTypeOK, LockTypeOK, threadVars, lockVars
<1>1. CASE Locking(p) /\ UNCHANGED <<tableVars, threadVars, appended>>
  BY <1>1, Zenon DEF Locking, LockForExclusive, LockForShared, Lock, Spin, CountReader
<1>2. CASE ScanChunk(p) \/ ScanNext(p) \/ BuildChunk(p)
  BY <1>2 DEF ScanChunk, ScanNext, BuildChunk, ReleaseSharedLock, GetSharedLock, End, Move
<1>3. CASE EndWrite(p, "delete") \/ EndWrite(p, "update")
  BY <1>3 DEF EndWrite, ReleaseExclusiveLock, End
<1>4. CASE Relock(p)  BY <1>4, Zenon DEF Relock, GetExclusiveLock, Move
<1>5. CASE AppendHere(p)
  <2>1. UNCHANGED exclusive  BY <1>5, Zenon DEF AppendHere, GetExclusiveLock
  <2>2. op' = op
        /\ (step' = [step EXCEPT ![p] = "done"] \/ step' = [step EXCEPT ![p] = "grow"])
        /\ (cursor' = cursor \/ cursor' = [cursor EXCEPT ![p] = @ + 1])
    BY <1>5, Zenon DEF AppendHere
  <2> QED  BY <2>1, <2>2, Zenon
<1>6. CASE AppendRest(p) \/ UnlockIndex(p)  BY <1>6, Zenon DEF AppendRest, UnlockIndex
<1>7. ASSUME NEW S \in SUBSET Chunk, LockIndex(p, S) \/ BeginFetch(p, S)
      PROVE  op'[q] = op[q] /\ step'[q] = step[q] /\ cursor'[q] = cursor[q] /\ exclusive'[q] = exclusive[q]
  BY <1>7 DEF LockIndex, BeginFetch, Begin, GetSharedLock
<1>8. ASSUME NEW c \in Chunk,
             \/ FetchNext(p, c) \/ FetchRelease(p, c) \/ BuildRelease(p, c) \/ ReleaseOld(p, c)
             \/ EndAppend(p, c) \/ CheckEntry(p, c) \/ EntryChecked(p, c)
      PROVE  op'[q] = op[q] /\ step'[q] = step[q] /\ cursor'[q] = cursor[q] /\ exclusive'[q] = exclusive[q]
  BY <1>8 DEF FetchNext, FetchRelease, BuildRelease, ReleaseOld, EndAppend, CheckEntry,
              EntryChecked, GetSharedLock, ReleaseSharedLock, ReleaseExclusiveLock, End
<1>9. CASE BeginScan(p) \/ BeginBuild(p)
  BY <1>9 DEF BeginScan, BeginBuild, Begin, GetSharedLock
<1>10. ASSUME NEW c \in Chunk, BeginWrite(p, "delete", c) \/ BeginWrite(p, "update", c)
      PROVE  op'[q] = op[q] /\ step'[q] = step[q] /\ cursor'[q] = cursor[q] /\ exclusive'[q] = exclusive[q]
  BY <1>10, Zenon DEF BeginWrite, Begin, GetExclusiveLock
<1>11. ASSUME NEW n \in AppendSizes, BeginAppend(p, n)
      PROVE  op'[q] = op[q] /\ step'[q] = step[q] /\ cursor'[q] = cursor[q] /\ exclusive'[q] = exclusive[q]
  BY <1>11, Zenon DEF BeginAppend, Begin, GetExclusiveLock
<1> QED  BY <1>1, <1>2, <1>3, <1>4, <1>5, <1>6, <1>7, <1>8, <1>9, <1>10, <1>11, Zenon
         DEF Step, BeginOperation

\* The last chunk only moves forward.
LEMMA TailForward ==
  ASSUME TableInv, TableNext PROVE tail_chunk' \in Chunk /\ tail_chunk <= tail_chunk'
<1> USE ChunkFacts DEF TableInv, TableTypeOK
<1>1. CASE UNCHANGED <<count, tail_chunk, appended>>  BY <1>1
<1>2. ASSUME NEW p \in Thread, AppendHere(p) PROVE tail_chunk' = tail_chunk
  BY <1>2, Zenon DEF AppendHere
<1>3. ASSUME NEW p \in Thread, AppendRest(p)
      PROVE  tail_chunk' = tail_chunk + 1 /\ tail_chunk' \in Chunk
  BY <1>3, Zenon DEF AppendRest, Running, CursorInv
<1>4. tail_chunk <= tail_chunk /\ tail_chunk <= tail_chunk + 1  OBVIOUS
<1> QED  BY <1>1, <1>2, <1>3, <1>4, TailSteps, Zenon

\* Where a thread is after a step of its own that leaves it in a scan, in a
\* build, or about to grow the list.
LEMMA OwnStep ==
  ASSUME TableInv, NEW p \in Thread, Step(p) \/ BeginOperation(p)
  PROVE  /\ op'[p] \in {"scan", "build"} =>
              \/ cursor'[p] = 0
              \/ op'[p] = op[p] /\ cursor'[p] = cursor[p]
              \/ op'[p] = "build" /\ cursor'[p] = NoChunk
              \/ /\ op'[p] = op[p] /\ cursor[p] \in Chunk
                 /\ cursor[p] # tail_chunk /\ cursor'[p] = cursor[p] + 1
         /\ op'[p] = "append" /\ step'[p] = "grow" =>
              \/ AppendHere(p)
              \/ /\ op[p] = "append" /\ step[p] = "grow" /\ cursor'[p] = cursor[p]
                 /\ exclusive[p] \subseteq exclusive'[p]
                 /\ UNCHANGED <<count, tail_chunk>>
<1> USE DEF TableInv, TableTypeOK, LockTypeOK, threadVars, lockVars, tableVars
<1>1. CASE Locking(p) /\ UNCHANGED <<tableVars, threadVars, appended>>
  BY <1>1 DEF Locking, LockForExclusive, LockForShared, Lock, Spin, CountReader
<1>2. CASE ScanChunk(p) \/ ScanNext(p) \/ BuildChunk(p)
  BY <1>2, Zenon DEF ScanChunk, ScanNext, BuildChunk, ReleaseSharedLock, GetSharedLock, End, Move,
              Running, Next
<1>3. CASE EndWrite(p, "delete") \/ EndWrite(p, "update")
  BY <1>3, Zenon DEF EndWrite, End
<1>4. CASE Relock(p)  BY <1>4, Zenon DEF Relock, Running, Move
<1>5. CASE AppendHere(p)
  <2>1. op'[p] = "append"  BY <1>5, Zenon DEF AppendHere, AtTail, Running
  <2> QED  BY <1>5, <2>1, Zenon
<1>6. CASE AppendRest(p) \/ UnlockIndex(p)
  BY <1>6, Zenon DEF AppendRest, UnlockIndex, Running
<1>7. ASSUME NEW S \in SUBSET Chunk, LockIndex(p, S)
      PROVE  op' = op /\ cursor' = cursor /\ step'[p] = "index"
  BY <1>7, Zenon DEF LockIndex
<1>8. ASSUME NEW S \in SUBSET Chunk, BeginFetch(p, S) PROVE op'[p] = "fetch"
  BY <1>8, Zenon DEF BeginFetch, Begin
<1>9. ASSUME NEW c \in Chunk, FetchNext(p, c) \/ FetchRelease(p, c) PROVE op'[p] \in {"fetch", "none"}
  BY <1>9 DEF FetchNext, FetchRelease, Running, End
<1>10. ASSUME NEW c \in Chunk,
             BuildRelease(p, c) \/ ReleaseOld(p, c) \/ EndAppend(p, c) \/ CheckEntry(p, c) \/ EntryChecked(p, c)
      PROVE  op'[p] = "none" \/ (op' = op /\ cursor' = cursor /\ step'[p] = step[p]
                                 /\ (op[p] = "build" \/ step[p] # "grow"))
  BY <1>10 DEF BuildRelease, ReleaseOld, EndAppend, CheckEntry, EntryChecked, Running, End
<1>11. CASE BeginScan(p) \/ BeginBuild(p)
  BY <1>11, Zenon DEF BeginScan, BeginBuild, Begin
<1>12. ASSUME NEW c \in Chunk, BeginWrite(p, "delete", c) \/ BeginWrite(p, "update", c)
      PROVE  op'[p] \in {"delete", "update"}
  BY <1>12, Zenon DEF BeginWrite, Begin
<1>13. ASSUME NEW n \in AppendSizes, BeginAppend(p, n)
      PROVE  op'[p] = "append" /\ step'[p] = "start"
  BY <1>13, Zenon DEF BeginAppend, Begin
<1> QED  BY <1>1, <1>2, <1>3, <1>4, <1>5, <1>6, <1>7, <1>8, <1>9, <1>10, <1>11, <1>12, <1>13, Zenon
         DEF Step, BeginOperation

\* The positions of scans and builds, and the locks of an append that grows the
\* list, are kept by every step.
LEMMA CursorStep == ASSUME TableInv, TableNext PROVE CursorInv'
<1>1. tail_chunk \in Nat /\ tail_chunk' \in Nat /\ tail_chunk <= tail_chunk'
  BY TailForward, ChunkFacts, Zenon DEF TableInv, TableTypeOK
<1>2. ASSUME NEW x \in 0..tail_chunk PROVE x \in 0..tail_chunk'  BY <1>1
<1>3. ASSUME NEW x \in 0..tail_chunk, x # tail_chunk PROVE x + 1 \in 0..tail_chunk'
  <2>1. x + 1 \in Nat /\ x + 1 <= tail_chunk  BY <1>1, <1>3, Successor, Zenon
  <2> QED  BY <1>1, <2>1
<1>4. CASE Finished
  BY <1>4, Zenon DEF Finished, vars, tableVars, threadVars, lockVars, TableInv, CursorInv
<1>5. ASSUME NEW p \in Thread, Step(p) \/ BeginOperation(p), NEW q \in Thread
      PROVE /\ op'[q] = "scan" => cursor'[q] \in 0..tail_chunk'
            /\ op'[q] = "build" => cursor'[q] \in 0..tail_chunk' \cup {NoChunk}
  <2>0. NoChunk \notin Chunk  BY ChunkFacts, Zenon
  <2>1. CASE q # p
    BY <1>2, <1>5, <2>1, OthersStay, Zenon DEF TableInv, CursorInv
  <2>2. CASE q = p
    <3>1. cursor[p] \in Chunk => cursor[p] # NoChunk  BY <2>0, Zenon
    <3>2. 0 \in 0..tail_chunk'  BY <1>1
    <3> QED  BY <1>2, <1>3, <1>5, <2>2, <3>1, <3>2, OwnStep, Zenon DEF TableInv, CursorInv
  <2> QED  BY <2>1, <2>2, Zenon
<1>6. ASSUME NEW p \in Thread, Step(p) \/ BeginOperation(p), NEW q \in Thread,
             op'[q] = "append", step'[q] = "grow"
      PROVE /\ cursor'[q] \in Chunk /\ cursor'[q] = tail_chunk' + 1
            /\ tail_chunk' \in exclusive'[q]
            /\ count'[tail_chunk'] = STORAGE_CHUNK_SIZE
  <2>1. CASE q # p
    <3>1. /\ op[q] = "append" /\ step[q] = "grow" /\ cursor'[q] = cursor[q]
          /\ exclusive'[q] = exclusive[q]
      BY <1>6, <2>1, OthersStay, Zenon DEF TableInv
    <3>2. tail_chunk \in exclusive[q] /\ tail_chunk \in Chunk
      BY <3>1, Zenon DEF TableInv, CursorInv, TableTypeOK
    <3>3. tail_chunk \notin exclusive[p]  BY <2>1, <3>2, OneWriter, Zenon DEF TableInv
    <3>4. UNCHANGED <<count, tail_chunk>>
      <4>1. ASSUME NEW r \in Thread, AppendHere(r) \/ AppendRest(r) PROVE r = q
        <5>1. tail_chunk \in exclusive[r]
          BY <4>1, AppendHereFacts, Zenon DEF AppendRest, Running, TableInv, CursorInv
        <5> QED  BY <3>2, <5>1, OneWriter, Zenon DEF TableInv
      <4>2. ~AppendHere(q)  BY <3>1, Zenon DEF AppendHere, MayWrite
      <4>3. ~AppendRest(q)
        <5> SUFFICES ASSUME AppendRest(q) PROVE FALSE  BY Zenon
        <5>1. step' = [step EXCEPT ![q] = "done"]  BY Zenon DEF AppendRest
        <5> QED  BY <1>6, <5>1, Zenon DEF TableInv, TableTypeOK
      <4>4. TableNext  BY <1>6, Zenon DEF TableNext
      <4> QED  BY <4>1, <4>2, <4>3, <4>4, TailSteps, Zenon
    <3> QED  BY <3>1, <3>4, Zenon DEF TableInv, CursorInv
  <2>2. CASE q = p /\ AppendHere(p)
    <3>1. PICK n \in Nat :
             /\ tail_chunk = cursor[p] /\ exclusive[p] = {tail_chunk}
             /\ n < rows[p] => count[tail_chunk] + n = STORAGE_CHUNK_SIZE
             /\ count' = [count EXCEPT ![tail_chunk] = @ + n]
             /\ \/ n = rows[p] /\ step' = [step EXCEPT ![p] = "done"] /\ cursor' = cursor
                \/ /\ n < rows[p] /\ step' = [step EXCEPT ![p] = "grow"]
                   /\ cursor' = [cursor EXCEPT ![p] = @ + 1] /\ cursor[p] + 1 \in Chunk
                   /\ exclusive' = exclusive
             /\ tail_chunk' = tail_chunk
      BY <2>2, AppendHereFacts, Zenon
    <3>2. /\ n < rows[p] /\ cursor' = [cursor EXCEPT ![p] = @ + 1] /\ cursor[p] + 1 \in Chunk
          /\ exclusive' = exclusive
      BY <1>6, <2>2, <3>1, Zenon DEF TableInv, TableTypeOK
    <3> QED  BY <2>2, <3>1, <3>2, Zenon DEF TableInv, TableTypeOK
  <2>3. CASE q = p /\ ~AppendHere(p)
    BY <1>6, <2>3, OwnStep, Zenon DEF TableInv, CursorInv
  <2> QED  BY <2>1, <2>2, <2>3, Zenon
<1>7. ASSUME NEW p \in Thread, Step(p) \/ BeginOperation(p) PROVE CursorInv'
  BY <1>5, <1>6, <1>7, Zenon DEF CursorInv
<1> QED  BY <1>4, <1>7, Zenon DEF TableNext

\* The threads' own variables and the table keep their types.
LEMMA TableTypeStep == ASSUME TableInv, TableNext PROVE TableTypeOK'
<1> DEFINE Threads == /\ op \in [Thread -> {"none", "scan", "fetch", "build", "delete", "update", "append"}]
                      /\ step \in [Thread -> {"start", "index", "checked", "grow", "done"}]
                      /\ cursor \in [Thread -> Chunk \cup {NoChunk}]
                      /\ rows \in [Thread -> 0..STORAGE_CHUNK_SIZE]
                      /\ todo \in [Thread -> SUBSET Chunk]
                      /\ left \in [Thread -> 0..MaxOps]
                      /\ index_lock \in Thread \cup {Nobody}
                      /\ unique \in BOOLEAN
<1>1. LockTypeOK'
  BY TableStepLocks, TypeStep, Zenon DEF TableInv, TableTypeOK
<1>2. tail_chunk' \in Chunk  BY TailForward, Zenon
<1>3. count' \in [Chunk -> 0..STORAGE_CHUNK_SIZE] /\ appended' \in Nat
  <2>1. CASE UNCHANGED <<count, tail_chunk, appended>>  BY <2>1, Zenon DEF TableInv, TableTypeOK
  <2>2. ASSUME NEW p \in Thread, AppendHere(p)
        PROVE  count' \in [Chunk -> 0..STORAGE_CHUNK_SIZE] /\ appended' \in Nat
    <3>1. PICK n \in Nat :
             /\ count[tail_chunk] + n <= STORAGE_CHUNK_SIZE
             /\ count' = [count EXCEPT ![tail_chunk] = @ + n]
             /\ appended' = appended + n
      BY <2>2, AppendHereFacts, Zenon
    <3>2. count[tail_chunk] + n \in 0..STORAGE_CHUNK_SIZE
      BY <3>1, ChunkFacts DEF TableInv, TableTypeOK
    <3> QED  BY <3>1, <3>2 DEF TableInv, TableTypeOK
  <2>3. ASSUME NEW p \in Thread, AppendRest(p)
        PROVE  count' \in [Chunk -> 0..STORAGE_CHUNK_SIZE] /\ appended' \in Nat
    <3>1. rows[p] \in 0..STORAGE_CHUNK_SIZE /\ rows[p] \in Nat  BY ChunkFacts DEF TableInv, TableTypeOK
    <3>2. /\ count' = [count EXCEPT ![cursor[p]] = rows[p]]
          /\ appended' = appended + rows[p]
      BY <2>3, Zenon DEF AppendRest
    <3>3. count \in [Chunk -> 0..STORAGE_CHUNK_SIZE] /\ appended \in Nat
      BY Zenon DEF TableInv, TableTypeOK
    <3>4. appended' \in Nat  BY <3>1, <3>2, <3>3
    <3>5. count' \in [Chunk -> 0..STORAGE_CHUNK_SIZE]  BY <3>1, <3>2, <3>3, Zenon
    <3> QED  BY <3>4, <3>5, Zenon
  <2> QED  BY <2>1, <2>2, <2>3, TailSteps, Zenon
<1>4. Threads'
  <2> USE DEF TableInv, TableTypeOK, threadVars, tableVars
  <2>1. CASE Finished  BY <2>1, Zenon DEF Finished, vars
  <2>2. ASSUME NEW p \in Thread, Step(p) PROVE Threads'
    <3>1. CASE Locking(p) /\ UNCHANGED <<tableVars, threadVars, appended>>  BY <3>1, Zenon
    <3>2. CASE ScanChunk(p) \/ ScanNext(p) \/ BuildChunk(p)
      <4>1. 0 \in 0..STORAGE_CHUNK_SIZE  BY ChunkFacts
      <4>2. Next(cursor[p]) # NoChunk => cursor[p] # tail_chunk /\ Next(cursor[p]) = cursor[p] + 1
        BY Zenon DEF Next
      <4>3. Running(p, "scan") \/ Running(p, "build") => cursor[p] \in 0..tail_chunk \cup {NoChunk}
        BY Zenon DEF CursorInv, Running
      <4>4. cursor[p] \in shared[p] => cursor[p] \in Chunk /\ cursor[p] # NoChunk
        BY ChunkFacts, Zenon DEF LockTypeOK
      <4>5. ASSUME cursor[p] \in 0..tail_chunk, cursor[p] # tail_chunk PROVE cursor[p] + 1 \in Chunk
        <5>1. tail_chunk \in Nat /\ tail_chunk < MaxChunks /\ MaxChunks \in Nat  BY ChunkFacts, Zenon
        <5>2. cursor[p] + 1 \in Nat /\ cursor[p] + 1 < MaxChunks  BY <4>5, <5>1, Successor, Zenon
        <5> QED  BY <5>2, ChunkFacts, Zenon
      <4>6. CASE ScanNext(p)  BY <4>6, Zenon DEF ScanNext
      <4>7. CASE ScanChunk(p)
        BY <4>1, <4>2, <4>3, <4>4, <4>5, <4>7 DEF ScanChunk, End, Move
      <4>8. CASE BuildChunk(p)
        BY <4>1, <4>2, <4>3, <4>4, <4>5, <4>8 DEF BuildChunk, Move
      <4> QED  BY <3>2, <4>6, <4>7, <4>8, Zenon
    <3>3. 0 \in 0..STORAGE_CHUNK_SIZE  BY ChunkFacts
    <3>4. CASE EndWrite(p, "delete") \/ EndWrite(p, "update")
      BY <3>3, <3>4 DEF EndWrite, End
    <3>5. CASE Relock(p)  BY <3>5, Zenon DEF Relock, Move
    <3>6. CASE AppendHere(p)
      <4>1. PICK n \in Nat :
             /\ n <= rows[p]
             /\ rows' = [rows EXCEPT ![p] = @ - n]
             /\ \/ n = rows[p] /\ step' = [step EXCEPT ![p] = "done"] /\ cursor' = cursor
                \/ /\ n < rows[p] /\ step' = [step EXCEPT ![p] = "grow"]
                   /\ cursor' = [cursor EXCEPT ![p] = @ + 1] /\ cursor[p] + 1 \in Chunk
             /\ UNCHANGED <<unique, index_lock, op, todo, left>>
        BY <3>6, AppendHereFacts, Zenon
      <4>2. rows[p] - n \in 0..STORAGE_CHUNK_SIZE  BY <4>1, ChunkFacts
      <4> QED  BY <4>1, <4>2
    <3>7. CASE AppendRest(p)  BY <3>7, Zenon DEF AppendRest
    <3>8. CASE UnlockIndex(p)  BY <3>8, Zenon DEF UnlockIndex
    <3>9. ASSUME NEW S \in SUBSET Chunk, LockIndex(p, S) PROVE Threads'
      BY <3>9, Zenon DEF LockIndex
    <3>10. ASSUME NEW c \in Chunk, FetchNext(p, c) \/ FetchRelease(p, c) \/ BuildRelease(p, c)
           PROVE  Threads'
      <4>1. CASE FetchNext(p, c)  BY <3>3, <4>1, Zenon DEF FetchNext, End
      <4>2. CASE FetchRelease(p, c)  BY <3>3, <4>2 DEF FetchRelease, End
      <4>3. CASE BuildRelease(p, c)  BY <3>3, <4>3 DEF BuildRelease, End
      <4> QED  BY <3>10, <4>1, <4>2, <4>3, Zenon
    <3>11. ASSUME NEW c \in Chunk,
             ReleaseOld(p, c) \/ EndAppend(p, c) \/ CheckEntry(p, c) \/ EntryChecked(p, c)
           PROVE  Threads'
      <4>1. CASE ReleaseOld(p, c)  BY <3>3, <4>1, Zenon DEF ReleaseOld, End
      <4>2. CASE EndAppend(p, c)  BY <3>3, <4>2 DEF EndAppend, End
      <4>3. CASE CheckEntry(p, c)  BY <3>3, <4>3, Zenon DEF CheckEntry, End
      <4>4. CASE EntryChecked(p, c)  BY <3>3, <4>4, Zenon DEF EntryChecked, End
      <4> QED  BY <3>11, <4>1, <4>2, <4>3, <4>4, Zenon
    <3> QED  BY <2>2, <3>1, <3>2, <3>4, <3>5, <3>6, <3>7, <3>8, <3>9, <3>10, <3>11, Zenon DEF Step
  <2>3. ASSUME NEW p \in Thread, BeginOperation(p) PROVE Threads'
    <3>1. ASSUME left[p] > 0 PROVE left[p] - 1 \in 0..MaxOps
      BY <3>1, DataTableLocksAssumption
    <3>2. 0 \in Chunk  BY ChunkFacts
    <3>3. CASE BeginScan(p) \/ BeginBuild(p)
      <4>1. CASE BeginScan(p)  BY <3>1, <3>2, <4>1, Zenon DEF BeginScan, Begin
      <4>2. CASE BeginBuild(p)  BY <3>1, <3>2, <4>2, Zenon DEF BeginBuild, Begin
      <4> QED  BY <3>3, <4>1, <4>2, Zenon
    <3>4. ASSUME NEW S \in SUBSET Chunk, BeginFetch(p, S) PROVE Threads'
      BY <3>1, <3>4 DEF BeginFetch, Begin
    <3>5. ASSUME NEW c \in Chunk, BeginWrite(p, "delete", c) \/ BeginWrite(p, "update", c)
          PROVE  Threads'
      BY <3>1, <3>5 DEF BeginWrite, Begin
    <3>6. ASSUME NEW n \in AppendSizes, BeginAppend(p, n) PROVE Threads'
      BY <3>1, <3>6, ChunkFacts DEF BeginAppend, Begin
    <3> QED  BY <2>3, <3>3, <3>4, <3>5, <3>6, Zenon DEF BeginOperation
  <2> QED  BY <2>1, <2>2, <2>3, Zenon DEF TableNext
<1> QED  BY <1>1, <1>2, <1>3, <1>4, Zenon DEF TableTypeOK

\* A table filled by appends satisfies the invariant.
LEMMA TableInitInv == TableInit => TableInv
<1> SUFFICES ASSUME TableInit PROVE TableInv  BY Zenon
<1>1. LockTypeOK /\ LockInvariant  BY InitInvariant, Zenon DEF TableInit
<1>2. PICK n \in 0..STORAGE_CHUNK_SIZE :
         count = [c \in Chunk |-> IF c < tail_chunk THEN STORAGE_CHUNK_SIZE
                                  ELSE IF c = tail_chunk THEN n ELSE 0]
  BY Zenon DEF TableInit
<1>3. tail_chunk \in Chunk /\ unique \in BOOLEAN
  BY DataTableLocksAssumption, Zenon DEF TableInit
<1>4. count \in [Chunk -> 0..STORAGE_CHUNK_SIZE]  BY <1>2, ChunkFacts
<1>5. NoRowLost  BY Zenon DEF TableInit, NoRowLost
<1>6. appended \in Nat
  <2>1. tail_chunk \in Nat /\ STORAGE_CHUNK_SIZE \in Nat /\ count[tail_chunk] \in Nat
    BY <1>3, <1>4, ChunkFacts
  <2>2. tail_chunk * STORAGE_CHUNK_SIZE \in Nat  BY <2>1
  <2> QED  BY <1>5, <2>1, <2>2 DEF NoRowLost
<1>7. TableTypeOK
  BY <1>1, <1>3, <1>4, <1>6, ChunkFacts, DataTableLocksAssumption DEF TableInit, TableTypeOK
<1>8. ChunksFull  BY <1>2, <1>3, ChunkFacts DEF ChunksFull
<1>9. CursorInv  BY Zenon DEF TableInit, CursorInv
<1> QED  BY <1>1, <1>5, <1>7, <1>8, <1>9, Zenon DEF TableInv

\* Every step keeps the invariant.
LEMMA TableInvStep == TableInv /\ [TableNext]_vars => TableInv'
<1> SUFFICES ASSUME TableInv, [TableNext]_vars PROVE TableInv'  BY Zenon
<1>1. CASE UNCHANGED vars
  BY <1>1 DEF vars, lockVars, tableVars, threadVars, TableInv, TableTypeOK, LockTypeOK, LockInvariant,
              Owns, Readers, Writers, CursorInv, ChunksFull, NoRowLost
<1>2. CASE TableNext
  <2>1. LockInvariant'
    BY <1>2, TableStepLocks, InvariantStep, Zenon DEF TableInv, TableTypeOK
  <2> QED  BY <1>2, <2>1, TableTypeStep, CursorStep, TailStep, Zenon DEF TableInv
<1> QED  BY <1>1, <1>2, Zenon

\* The inductive invariant holds in every reachable state.
THEOREM TableCorrect == TableSpec => []TableInv
BY TableInitInv, TableInvStep, PTL DEF TableSpec

\* Concurrent appends fill the chunks in order, for any number of threads, any
\* chunk size and any length of the list (DataTable::Append).
THEOREM AppendsFillChunks == TableSpec => []ChunksFull
<1>1. TableInv => ChunksFull  BY Zenon DEF TableInv
<1> QED  BY <1>1, TableCorrect, PTL

\* Concurrent appends lose no row and give no row identifier twice
\* (DataTable::Append).
THEOREM AppendsLoseNothing == TableSpec => []NoRowLost
<1>1. TableInv => NoRowLost  BY Zenon DEF TableInv
<1> QED  BY <1>1, TableCorrect, PTL

\* The operations use the locks as StorageLock allows.
THEOREM OperationsLock == TableSpec => LockSpec
<1>1. TableInit => LockInit  BY Zenon DEF TableInit
<1>2. TableInv /\ [TableNext]_vars => [LockNext]_lockVars
  BY TableStepLocks, Zenon DEF vars
<1> QED  BY <1>1, <1>2, TableCorrect, PTL DEF TableSpec, LockSpec

\* A scan, update, delete or append that writes to a chunk is alone with it.
THEOREM TableExclusion == TableSpec => []Exclusion
BY OperationsLock, MutualExclusion, PTL

\* Through the lock functions, the operations of a table see the abstract lock.
THEOREM TableImplements == TableSpec => ImplementsRWLock
BY OperationsLock, LockImplements, PTL
=============================================================================
