--------------------------- MODULE DataTableLocks ---------------------------
(***************************************************************************)
(* The operations of a DataTable as sequences of chunk locks: scans,       *)
(* fetches by row identifier, index builds, deletions, updates and         *)
(* appends, run by concurrent threads on a list of chunks that grows at    *)
(* its end.  What they read and write under the locks is the subject of    *)
(* the module Mvcc; here a chunk only has a number of rows.                *)
(*                                                                         *)
(* Between two locks an operation does nothing that another thread could   *)
(* wait for.  Each thread runs a bounded number of operations.             *)
(***************************************************************************)
EXTENDS StorageLock, FiniteSetsExt

CONSTANTS
  STORAGE_CHUNK_SIZE,   \* rows in a full chunk
  AppendSizes,          \* the sizes of the data chunks that are appended
  Workload,             \* the operations run, without and with UNIQUE keys
  NoChunk,              \* the null pointer of a scan that is over
  MaxChunks,            \* bound on the length of the chunk list
  MaxOps                \* bound on the operations of a thread

ASSUME DataTableLocksAssumption ==
  /\ MaxChunks \in Nat \ {0} /\ Chunk = 0..(MaxChunks - 1)
  /\ STORAGE_CHUNK_SIZE \in Nat \ {0}
  /\ AppendSizes \subseteq 1..STORAGE_CHUNK_SIZE
  /\ DOMAIN Workload \subseteq BOOLEAN
  /\ \A u \in DOMAIN Workload :
       Workload[u] \subseteq {"scan", "fetch", "build", "delete", "update", "append"}
  /\ NoChunk \notin Chunk
  /\ MaxOps \in Nat

VARIABLES
  unique,               \* the table has a PRIMARY KEY or UNIQUE constraint
  count, tail_chunk,    \* the rows of each chunk, and the last chunk
  index_lock,           \* the owner of the mutex of the unique index
  op, step,             \* the operation each thread runs, and where it is in it
  cursor,               \* the chunk it works on
  rows,                 \* an append: the rows still to be written
  todo,                 \* a fetch or an index check: the chunks still to be visited
  left,                 \* the operations each thread may still begin
  appended              \* history: the rows appended by all threads

tableVars == <<unique, count, tail_chunk, index_lock>>
threadVars == <<op, step, cursor, rows, todo, left>>
vars == <<lockVars, tableVars, threadVars, appended>>

\* The table was filled by appends before: only its last chunk has room.
TableInit ==
  /\ LockInit
  /\ unique \in DOMAIN Workload
  /\ tail_chunk \in Chunk
  /\ \E n \in 0..STORAGE_CHUNK_SIZE :
       /\ n = 0 => tail_chunk = 0
       /\ count = [c \in Chunk |-> IF c < tail_chunk THEN STORAGE_CHUNK_SIZE
                                   ELSE IF c = tail_chunk THEN n ELSE 0]
  /\ appended = tail_chunk * STORAGE_CHUNK_SIZE + count[tail_chunk]
  /\ index_lock = Nobody
  /\ op = [p \in Thread |-> "none"]
  /\ step = [p \in Thread |-> "start"]
  /\ cursor = [p \in Thread |-> NoChunk]
  /\ rows = [p \in Thread |-> 0]
  /\ todo = [p \in Thread |-> {}]
  /\ left = [p \in Thread |-> MaxOps]

-----------------------------------------------------------------------------

Next(c) == IF c = tail_chunk THEN NoChunk ELSE c + 1

\* The thread starts an operation at the chunk c.
Begin(p, o, c) ==
  /\ op[p] = "none" /\ left[p] > 0 /\ o \in Workload[unique]
  /\ op' = [op EXCEPT ![p] = o]
  /\ step' = [step EXCEPT ![p] = "start"]
  /\ cursor' = [cursor EXCEPT ![p] = c]
  /\ left' = [left EXCEPT ![p] = @ - 1]
  /\ UNCHANGED <<tableVars, appended>>

\* The operation is over, all its locks released.
End(p) ==
  /\ op' = [op EXCEPT ![p] = "none"]
  /\ step' = [step EXCEPT ![p] = "start"]
  /\ cursor' = [cursor EXCEPT ![p] = NoChunk]
  /\ rows' = [rows EXCEPT ![p] = 0]
  /\ todo' = [todo EXCEPT ![p] = {}]
  /\ UNCHANGED left

\* p runs the operation o and is not inside a lock function.
Running(p, o) == op[p] = o /\ phase[p] = "running"

Move(p, c) ==
  /\ cursor' = [cursor EXCEPT ![p] = c]
  /\ UNCHANGED <<op, step, rows, todo, left>>

-----------------------------------------------------------------------------
(* DataTable::Scan: one shared lock at a time.                              *)

BeginScan(p) == Begin(p, "scan", 0) /\ GetSharedLock(p, 0) /\ UNCHANGED <<rows, todo>>

\* The rows are read, next is read under the lock, and the lock is released.
ScanChunk(p) ==
  /\ Running(p, "scan") /\ cursor[p] \in shared[p]
  /\ ReleaseSharedLock(p, cursor[p])
  /\ IF Next(cursor[p]) = NoChunk THEN End(p) ELSE Move(p, Next(cursor[p]))
  /\ UNCHANGED <<tableVars, appended>>

ScanNext(p) ==
  /\ Running(p, "scan") /\ shared[p] = {}
  /\ GetSharedLock(p, cursor[p])
  /\ UNCHANGED <<tableVars, threadVars, appended>>

-----------------------------------------------------------------------------
(* DataTable::Fetch: the row identifiers are sorted, and the lock of the    *)
(* next chunk is taken before the assignment releases the one before it.    *)

First(c, S) == c \in S /\ \A d \in S : c <= d

BeginFetch(p, S) ==
  \E c \in S :
    /\ First(c, S) /\ \A d \in S : count[d] > 0
    /\ Begin(p, "fetch", c)
    /\ GetSharedLock(p, c)
    /\ todo' = [todo EXCEPT ![p] = S \ {c}]
    /\ UNCHANGED rows

FetchNext(p, c) ==
  /\ Running(p, "fetch") /\ shared[p] = {cursor[p]} /\ First(c, todo[p])
  /\ GetSharedLock(p, c)
  /\ cursor' = [cursor EXCEPT ![p] = c]
  /\ todo' = [todo EXCEPT ![p] = @ \ {c}]
  /\ UNCHANGED <<tableVars, op, step, rows, left, appended>>

FetchRelease(p, c) ==
  /\ Running(p, "fetch") /\ c \in shared[p] /\ cursor[p] \in shared[p]
  /\ c # cursor[p] \/ (shared[p] = {c} /\ todo[p] = {})
  /\ ReleaseSharedLock(p, c)
  /\ IF c = cursor[p] THEN End(p) ELSE UNCHANGED threadVars
  /\ UNCHANGED <<tableVars, appended>>

-----------------------------------------------------------------------------
(* DataTable::CreateIndexScan: the locks of all chunks are kept until the   *)
(* index is built.                                                          *)

BeginBuild(p) == Begin(p, "build", 0) /\ GetSharedLock(p, 0) /\ UNCHANGED <<rows, todo>>

BuildChunk(p) ==
  /\ Running(p, "build") /\ cursor[p] \in shared[p]
  /\ IF Next(cursor[p]) = NoChunk
       THEN Move(p, NoChunk) /\ UNCHANGED lockVars
       ELSE Move(p, Next(cursor[p])) /\ GetSharedLock(p, Next(cursor[p]))
  /\ UNCHANGED <<tableVars, appended>>

BuildRelease(p, c) ==
  /\ Running(p, "build") /\ cursor[p] = NoChunk
  /\ ReleaseSharedLock(p, c)
  /\ IF shared[p] = {c} THEN End(p) ELSE UNCHANGED threadVars
  /\ UNCHANGED <<tableVars, appended>>

-----------------------------------------------------------------------------
(* DataTable::Delete and Update: one exclusive lock; an update of a key     *)
(* checks the unique index under it.                                        *)

BeginWrite(p, o, c) ==
  /\ count[c] > 0
  /\ Begin(p, o, c)
  /\ GetExclusiveLock(p, c)
  /\ UNCHANGED <<rows, todo>>

MayWrite(p, o) ==
  /\ Running(p, o) /\ cursor[p] \in exclusive[p]
  /\ step[p] = IF unique /\ o # "delete" THEN "checked" ELSE "start"

EndWrite(p, o) ==
  /\ MayWrite(p, o)
  /\ ReleaseExclusiveLock(p, cursor[p])
  /\ End(p)
  /\ UNCHANGED <<tableVars, appended>>

-----------------------------------------------------------------------------
(* DataTable::Append.                                                       *)

BeginAppend(p, n) ==
  /\ appended + SumFunction(rows) + n <= MaxChunks * STORAGE_CHUNK_SIZE
  /\ Begin(p, "append", tail_chunk)
  /\ GetExclusiveLock(p, tail_chunk)
  /\ rows' = [rows EXCEPT ![p] = n]
  /\ UNCHANGED todo

\* Mutant of AtTail: last_chunk is not compared with tail_chunk again.
AtAnyTail(p) == Running(p, "append") /\ exclusive[p] = {cursor[p]}

\* p has the lock of the last chunk.
AtTail(p) ==
  /\ Running(p, "append") /\ exclusive[p] = {cursor[p]}
  /\ cursor[p] = tail_chunk

\* Another append made a new last chunk while p waited: p locks that one too.
Relock(p) ==
  /\ Running(p, "append") /\ exclusive[p] = {cursor[p]} /\ step[p] = "start"
  /\ cursor[p] # tail_chunk
  /\ GetExclusiveLock(p, tail_chunk)
  /\ Move(p, tail_chunk)
  /\ UNCHANGED <<tableVars, appended>>

\* The assignment to lock releases the chunk locked before.
ReleaseOld(p, c) ==
  /\ Running(p, "append") /\ step[p] = "start"
  /\ {c, cursor[p]} \subseteq exclusive[p] /\ c # cursor[p]
  /\ ReleaseExclusiveLock(p, c)
  /\ UNCHANGED <<tableVars, threadVars, appended>>

\* What fits goes to the last chunk; for the rest a new chunk is locked.
AppendHere(p) ==
  LET n == Min({STORAGE_CHUNK_SIZE - count[cursor[p]], rows[p]})
  IN  /\ AtTail(p) /\ MayWrite(p, "append")
      /\ n < rows[p] => cursor[p] + 1 \in Chunk
      /\ count' = [count EXCEPT ![cursor[p]] = @ + n]
      /\ rows' = [rows EXCEPT ![p] = @ - n]
      /\ appended' = appended + n
      /\ IF n = rows[p]
           THEN /\ step' = [step EXCEPT ![p] = "done"]
                /\ UNCHANGED <<lockVars, cursor>>
           ELSE /\ step' = [step EXCEPT ![p] = "grow"]
                /\ GetExclusiveLock(p, cursor[p] + 1)
                /\ cursor' = [cursor EXCEPT ![p] = @ + 1]
      /\ UNCHANGED <<unique, tail_chunk, index_lock, op, todo, left>>

\* Mutant of AppendRest: the new chunk is filled but does not become the last.
AppendRestUnlinked(p) ==
  /\ Running(p, "append") /\ step[p] = "grow"
  /\ count' = [count EXCEPT ![cursor[p]] = rows[p]]
  /\ appended' = appended + rows[p]
  /\ step' = [step EXCEPT ![p] = "done"]
  /\ UNCHANGED <<lockVars, unique, tail_chunk, index_lock, op, cursor, rows, todo, left>>

\* The new chunk is linked and gets the rest.
AppendRest(p) ==
  /\ Running(p, "append") /\ step[p] = "grow"
  /\ tail_chunk' = cursor[p]
  /\ count' = [count EXCEPT ![cursor[p]] = rows[p]]
  /\ appended' = appended + rows[p]
  /\ step' = [step EXCEPT ![p] = "done"]
  /\ UNCHANGED <<lockVars, unique, index_lock, op, cursor, rows, todo, left>>

EndAppend(p, c) ==
  /\ Running(p, "append") /\ step[p] = "done"
  /\ ReleaseExclusiveLock(p, c)
  /\ IF exclusive[p] = {c} THEN End(p) ELSE UNCHANGED threadVars
  /\ UNCHANGED <<tableVars, appended>>

-----------------------------------------------------------------------------
(* UniqueIndex::AddEntries: under index_lock, AddEntry looks at the rows of  *)
(* the entries with the same key, with a shared lock unless the row is in   *)
(* the last chunk.                                                          *)

\* S are the chunks of the entries that will be met.
LockIndex(p, S) ==
  /\ unique /\ step[p] = "start" /\ index_lock = Nobody
  /\ AtTail(p) \/ (Running(p, "update") /\ cursor[p] \in exclusive[p])
  /\ \A c \in S : count[c] > 0
  /\ index_lock' = p
  /\ step' = [step EXCEPT ![p] = "index"]
  /\ todo' = [todo EXCEPT ![p] = S]
  /\ UNCHANGED <<lockVars, unique, count, tail_chunk, op, cursor, rows, left, appended>>

CheckEntry(p, c) ==
  /\ step[p] = "index" /\ phase[p] = "running" /\ shared[p] = {} /\ c \in todo[p]
  /\ IF c = tail_chunk THEN UNCHANGED lockVars ELSE GetSharedLock(p, c)
  /\ todo' = [todo EXCEPT ![p] = @ \ {c}]
  /\ UNCHANGED <<tableVars, op, step, cursor, rows, left, appended>>

EntryChecked(p, c) ==
  /\ step[p] = "index"
  /\ ReleaseSharedLock(p, c)
  /\ UNCHANGED <<tableVars, threadVars, appended>>

UnlockIndex(p) ==
  /\ step[p] = "index" /\ phase[p] = "running" /\ shared[p] = {} /\ todo[p] = {}
  /\ index_lock' = Nobody
  /\ step' = [step EXCEPT ![p] = "checked"]
  /\ UNCHANGED <<lockVars, unique, count, tail_chunk, op, cursor, rows, todo, left, appended>>

-----------------------------------------------------------------------------

\* A step of p inside an operation.
Step(p) ==
  \/ Locking(p) /\ UNCHANGED <<tableVars, threadVars, appended>>
  \/ ScanChunk(p) \/ ScanNext(p)
  \/ BuildChunk(p)
  \/ EndWrite(p, "delete") \/ EndWrite(p, "update")
  \/ Relock(p) \/ AppendHere(p) \/ AppendRest(p)
  \/ UnlockIndex(p) \/ \E S \in SUBSET Chunk : LockIndex(p, S)
  \/ \E c \in Chunk :
       \/ FetchNext(p, c)
       \/ FetchRelease(p, c)
       \/ BuildRelease(p, c)
       \/ ReleaseOld(p, c)
       \/ EndAppend(p, c)
       \/ CheckEntry(p, c)
       \/ EntryChecked(p, c)

BeginOperation(p) ==
  \/ BeginScan(p) \/ BeginBuild(p)
  \/ \E S \in SUBSET Chunk : BeginFetch(p, S)
  \/ \E c \in Chunk : BeginWrite(p, "delete", c) \/ BeginWrite(p, "update", c)
  \/ \E n \in AppendSizes : BeginAppend(p, n)

\* All threads have done what they had to do.
Finished == (\A p \in Thread : op[p] = "none" /\ left[p] = 0) /\ UNCHANGED vars

TableNext == (\E p \in Thread : Step(p) \/ BeginOperation(p)) \/ Finished

\* A thread inside an operation keeps running; nothing is assumed of the order
\* in which a mutex serves its waiters.
TableSpec == TableInit /\ [][TableNext]_vars /\ \A p \in Thread : WF_vars(Step(p))

-----------------------------------------------------------------------------
(* Properties.                                                              *)

\* Every variable holds values of its type.
TableTypeOK ==
  /\ LockTypeOK
  /\ unique \in BOOLEAN
  /\ count \in [Chunk -> 0..STORAGE_CHUNK_SIZE]
  /\ tail_chunk \in Chunk
  /\ index_lock \in Thread \cup {Nobody}
  /\ op \in [Thread -> {"none", "scan", "fetch", "build", "delete", "update", "append"}]
  /\ step \in [Thread -> {"start", "index", "checked", "grow", "done"}]
  /\ cursor \in [Thread -> Chunk \cup {NoChunk}]
  /\ rows \in [Thread -> 0..STORAGE_CHUNK_SIZE]
  /\ todo \in [Thread -> SUBSET Chunk]
  /\ left \in [Thread -> 0..MaxOps]
  /\ appended \in Nat

\* "every chunk besides the last has exactly STORAGE_CHUNK_SIZE elements"
\* (data_table.cpp:40-41), and what is beyond the last is empty, although
\* several threads append and the last chunk changes while they wait.
ChunksFull ==
  \A c \in Chunk : /\ c < tail_chunk => count[c] = STORAGE_CHUNK_SIZE
                   /\ c > tail_chunk => count[c] = 0

\* No append overwrites the rows of another: the next row identifier, the start
\* of the last chunk plus its count, is the number of rows ever appended, so
\* that none is given twice (DataTable::Append).
NoRowLost == appended = tail_chunk * STORAGE_CHUNK_SIZE + count[tail_chunk]

\* p waits for q: for a mutex q has, or for q to stop reading.
WaitsFor(p, q) ==
  \/ phase[p] \in {"lock_exclusive", "lock_shared"} /\ exclusive_lock[target[p]] = q
  \/ phase[p] = "spin" /\ target[p] \in shared[q]
  \/ /\ unique /\ step[p] = "start" /\ phase[p] = "running" /\ index_lock = q
     /\ AtTail(p) \/ (op[p] = "update" /\ cursor[p] \in exclusive[p])

\* Threads never wait for each other in a circle, nor for themselves: AddEntry
\* leaves out the last chunk because "locking it again here will cause a
\* deadlock. We only need to lock chunks that are not the last"
\* (unique_index.cpp:43-44).
NoWaitCycle ==
  \A S \in SUBSET Thread \ {{}} : \E p \in S : \A q \in S : ~WaitsFor(p, q)

\* Every operation comes to its end, however the threads interleave, on tables
\* without UNIQUE constraints and, for scans, deletions and appends, also with
\* them (the lock functions of StorageChunk, and the loop of DataTable::Append).
OperationsEnd == \A p \in Thread : op[p] # "none" ~> op[p] = "none"
=============================================================================
