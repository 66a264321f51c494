-------------------------------- MODULE Mvcc --------------------------------
(***************************************************************************)
(* The rows of one DataTable under transactions: base data, deleted flags, *)
(* version chains into the undo buffers, and what a scan reads.  Commit    *)
(* stamps the undo entries with the commit_id, rollback moves them back    *)
(* into the base table, cleanup unlinks them; each happens inside the      *)
(* corresponding step of the transaction manager, which this module        *)
(* extends.                                                                *)
(*                                                                         *)
(* A tuple is a single value.  A statement over several rows is one step   *)
(* per row, since commits and rollbacks take no lock on the chunk and may  *)
(* come between them; a statement that fails half way keeps its first      *)
(* steps until the transaction is rolled back, as in the code.  That       *)
(* Update pushes all its versions before it writes the rows makes no       *)
(* difference: it holds the lock of the chunk, nobody reads in between.    *)
(*                                                                         *)
(* Nothing orders a push, under the lock of the chunk, and the relinking   *)
(* of the same chain by a commit or a rollback, under transaction_lock.    *)
(* The row of a push, or of an undo, that may not be over is remembered    *)
(* (pushing, undoing), and a step of the other side that meets it may end  *)
(* in any of the ways in which the reads and writes can interleave.        *)
(***************************************************************************)
EXTENDS TransactionManager

CONSTANTS
  Val,                 \* tuples as a query sees them
  NULL,                \* the SQL NULL, may be a member of Val
  NullValue,           \* its representation in storage, NullValue<T>()
  Absent,              \* no tuple: "deleted" for this reader
  NoWrite,             \* in the history: the transaction did not write the row
  MaxRows,             \* bound on the rows ever appended
  STORAGE_CHUNK_SIZE,  \* rows in a chunk
  MaxUndo,             \* bound on the undo entries of a transaction
  SizeT,               \* 2^64 in the code: cardinality is a size_t
  FailingRetries       \* bound: transactions whose Commit may throw once more when
                       \* it is tried again

ASSUME MvccAssumption ==
  /\ MaxRows \in Nat /\ MaxUndo \in Nat
  /\ STORAGE_CHUNK_SIZE \in Nat \ {0} /\ SizeT \in Nat \ {0}
  /\ Absent \notin Val /\ NullValue \notin Val
  /\ NoWrite \notin Val /\ Absent \notin {NullValue, NoWrite, NULL}

Row == 0..(MaxRows - 1)

VARIABLES
  count,               \* rows appended so far
  base, deleted,       \* columns and deleted[] of the storage chunks
  version_pointers,    \* the chain of a row, newest first: <<transaction, entry>>
  undo,                \* undo_buffer.entries of each transaction
  cardinality,
  mine,                \* history: what each transaction last wrote to each row
  tainted,             \* history: rows that no longer follow the rules, after a
                       \* write the conflict check missed, a write through the
                       \* identifier of another row, a commit that failed, one
                       \* with a commit_id among the transaction identifiers,
                       \* or a race (below)
  pushing,             \* <<t, r>>: t may still be in PushTuple for the row r
  undoing,             \* rows that StorageChunk::Undo may still be relinking
  raced                \* history: rows whose chain a push and a commit or a
                       \* rollback have changed at the same time

table == <<count, base, deleted, version_pointers, undo, cardinality>>
overlap == <<pushing, undoing, raced>>
history == <<mine, tainted>>
vars == <<tmVars, table, history, overlap>>

MvccInit ==
  /\ TMInit
  /\ count = 0
  /\ base = [r \in Row |-> NullValue]
  /\ deleted = [r \in Row |-> FALSE]
  /\ version_pointers = [r \in Row |-> <<>>]
  /\ undo = [t \in Txn |-> <<>>]
  /\ cardinality = 0
  /\ mine = [t \in Txn |-> [r \in Row |-> NoWrite]]
  /\ tainted = {}
  /\ pushing = {} /\ undoing = {} /\ raced = {}

-----------------------------------------------------------------------------
(* Reading.                                                                 *)

ToStorage(v) == IF v = NULL THEN NullValue ELSE v
FromStorage(s) == IF s = NullValue THEN NULL ELSE s

Entry(p) == undo[p[1]][p[2]]
VersionNumber(p) == Entry(p).version_number

\* Mutant of VersionVisible: a transaction does not recognise its own versions.
CommittedVisible(p, id, start) == VersionNumber(p) < start

\* The version was made by the reader, or committed before it started.
VersionVisible(p, id, start) == VersionNumber(p) = id \/ VersionNumber(p) < start

\* How far the reader follows the chain: the length of the longest prefix of
\* versions it must not see.  Zero means the base table.
ChainDepth(id, start, r) ==
  LET c == version_pointers[r]
  IN  Cardinality({i \in 1..Len(c) : \A j \in 1..i : ~VersionVisible(c[j], id, start)})

\* Base data has its NULLs converted, data from a version is copied raw.
ReadRow(id, start, r) ==
  LET k == ChainDepth(id, start, r)
  IN  CASE r >= count -> Absent
        [] r < count /\ k = 0 -> IF deleted[r] THEN Absent ELSE FromStorage(base[r])
        [] OTHER -> Entry(version_pointers[r][k]).tuple_data

Scan(t, r) == ReadRow(transaction_id[t], start_time[t], r)

\* What a transaction that starts now would read.
FreshScan(r) == ReadRow(current_transaction_id, current_start_timestamp, r)

\* The row identifier that a scan reports for r: RetrieveBaseTableData adds
\* chunk->start, Scan leaves it out for a row that it reads from a version.
ReportedRowId(t, r) ==
  IF ChainDepth(transaction_id[t], start_time[t], r) = 0
    THEN r ELSE r % STORAGE_CHUNK_SIZE

-----------------------------------------------------------------------------
(* Writing.                                                                 *)

Chunk(r) == r \div STORAGE_CHUNK_SIZE

\* The newest version of r is not one of t.
OverOther(t, r) == version_pointers[r] # <<>> /\ Head(version_pointers[r])[1] # t

\* t has the lock of the chunk of r: no other push there goes on any more.  The
\* push of t may, beyond this step: only commits and rollbacks can tell.
Pushing(t, r) ==
  {p \in pushing : p[1] # t /\ Chunk(p[2]) # Chunk(r)}
    \cup {p \in {<<t, r>>} : OverOther(t, r)}

\* meta->next is the head of the chain, and meta the new head.  A rollback that
\* has just made the old head the newest version may still write its chunk and
\* prev, after the push has: cleanup will then take it for the newest again.
Push(t, type, r, data) ==
  /\ undo' = [undo EXCEPT ![t] = Append(@,
       [type |-> type, row |-> r, tuple_data |-> data, version_number |-> transaction_id[t]])]
  /\ version_pointers' = [version_pointers EXCEPT ![r] = <<<<t, Len(undo[t]) + 1>>>> \o @]
  /\ pushing' = Pushing(t, r)
  /\ raced' \in {raced, raced \cup {x \in undoing \cap {r} : OverOther(t, r)}}
  /\ UNCHANGED undoing

CanPush(t) == t \in active_transactions /\ Len(undo[t]) < MaxUndo

\* The write of t goes over a version committed after t started.
Stale(t, r) ==
  /\ version_pointers[r] # <<>>
  /\ VersionNumber(Head(version_pointers[r])) \in start_time[t]..(TRANSACTION_ID_START - 1)

\* t writes v to the row id, where its scan found r.
Remember(t, r, id, v) ==
  /\ mine' = [mine EXCEPT ![t][id] = v]
  /\ tainted' = raced' \cup IF Stale(t, id) \/ id # r THEN tainted \cup {id} ELSE tainted

\* The row gets a version without tuple data: deleted, for everyone else.
DataTableAppend(t, v) ==
  /\ CanPush(t) /\ count < MaxRows
  /\ Push(t, "INSERT_TUPLE", count, Absent)
  /\ base' = [base EXCEPT ![count] = ToStorage(v)]
  /\ count' = count + 1
  /\ Remember(t, count, count, v)
  /\ UNCHANGED <<tmVars, deleted, cardinality>>

\* Mutant of Conflict: nobody checks for a concurrent writer.
NoConflict(t, r) == FALSE

\* The newest version belongs to another transaction that has not committed.
Conflict(t, r) ==
  /\ version_pointers[r] # <<>>
  /\ VersionNumber(Head(version_pointers[r])) >= TRANSACTION_ID_START
  /\ VersionNumber(Head(version_pointers[r])) # transaction_id[t]

\* The scan of t returned r, under the identifier id.  Raced rows are not followed
\* any further: their chains may lead into memory that is free.
Matches(t, r, id) == r \notin raced /\ id \notin raced /\ Scan(t, r) # Absent

\* t deletes the row r that its scan returned; a conflict throws.
Delete(t, r) ==
  LET id == ReportedRowId(t, r)
  IN  /\ CanPush(t) /\ Matches(t, r, id)
      /\ ~Conflict(t, id)
      /\ Push(t, "DELETE_TUPLE", id, base[id])
      /\ deleted' = [deleted EXCEPT ![id] = TRUE]
      /\ Remember(t, r, id, Absent)
      /\ UNCHANGED <<tmVars, count, base, cardinality>>

Update(t, r, v) ==
  LET id == ReportedRowId(t, r)
  IN  /\ CanPush(t) /\ Matches(t, r, id)
      /\ ~Conflict(t, id)
      /\ Push(t, "UPDATE_TUPLE", id, base[id])
      /\ base' = [base EXCEPT ![id] = ToStorage(v)]
      /\ Remember(t, r, id, v)
      /\ UNCHANGED <<tmVars, count, deleted, cardinality>>

-----------------------------------------------------------------------------
(* The end of a transaction.                                                *)

\* t takes transaction_lock, so the rollback of another is over, and so are its
\* own pushes.
EndOverlap(t) == pushing' = {p \in pushing : p[1] # t}

Start(t) ==
  /\ StartTransaction(t)
  /\ undoing' = {}
  /\ UNCHANGED <<table, history, pushing, raced>>

\* Mutant of Staying: cleanup and rollback leave the chains alone.
AllStay(r, S) == 1..Len(version_pointers[r])

\* Where the versions are in the chain of r that are not of transactions in S.
Staying(r, S) == {i \in 1..Len(version_pointers[r]) : version_pointers[r][i][1] \notin S}

\* The versions of the chain c at the places in keep: the k-th is the one with k
\* of these places up to its own.
Only(c, keep) ==
  LET nth(k) == CHOOSE i \in keep : Cardinality({j \in keep : j <= i}) = k
  IN  [k \in 1..Cardinality(keep) |-> c[nth(k)]]

\* The rows where a push over a version of S may not be over, or has left that
\* version with the chunk and prev of a newest one.
Overlaps(S) ==
  {r \in raced \cup {p[2] : p \in pushing} : LET c == version_pointers[r] IN
     Len(c) > 1 /\ c[1][1] \notin S /\ c[2][1] \in S}

\* UndoBuffer::Cleanup and Rollback take the versions of S out of the chains.
\* Where a push overlaps it may store meta after its next was taken out, which
\* stays in the chain; or the new head is overwritten by what followed that next
\* version, and is not in the chain any more.
Unlink(S) ==
  \E lost \in SUBSET Overlaps(S) : \E dangling \in SUBSET (Overlaps(S) \ lost) :
    LET kept(r) == (Staying(r, S) \ {i \in {1} : r \in lost})
                     \cup {i \in {2} : r \in dangling}
    IN  /\ version_pointers' = [r \in Row |-> Only(version_pointers[r], kept(r))]
        /\ raced' = raced \cup dangling \cup lost

\* Transactions whose undo buffers are cleaned up when n are, in a removal of t.
CleanedBy(t, cids, n) == Elems(SubSeq(Committed(t, cids), 1, n))

\* UndoBuffer::Commit on the first k entries of t.
Stamped(t, cid, k) ==
  [undo EXCEPT ![t] = [i \in DOMAIN @ |->
     IF i <= k THEN [@[i] EXCEPT !.version_number = cid] ELSE @[i]]]

RowsOf(t) == {undo[t][i].row : i \in 1..Len(undo[t])}

EntriesOfType(t, k, type) == Cardinality({i \in 1..k : undo[t][i].type = type})

\* Mutant of CardinalityAfter: deletions do not count.
CardinalityInserted(t, k) ==
  (cardinality + EntriesOfType(t, k, "INSERT_TUPLE")) % SizeT

\* The changes UndoBuffer::Commit makes to cardinality, in size_t arithmetic.
CardinalityAfter(t, k) ==
  (cardinality + EntriesOfType(t, k, "INSERT_TUPLE")
     + SizeT - EntriesOfType(t, k, "DELETE_TUPLE")) % SizeT

\* The versions of t on top of the chain of r, which StorageChunk::Undo moves
\* back into the base table, newest first; any other is only unlinked.
OnTop(t, r) ==
  LET c == version_pointers[r]
  IN  {i \in 1..Len(c) : \A j \in 1..i : c[j][1] = t}

\* Those that hold a tuple: all but an insertion, which can only be the oldest.
WithData(t, r) ==
  {i \in OnTop(t, r) : Entry(version_pointers[r][i]).tuple_data # Absent}

\* Mutant of UndoneBase: the newest version is moved back last, not the oldest.
UndoneBaseNewest(t, r) ==
  IF WithData(t, r) = {} THEN base[r] ELSE Entry(version_pointers[r][1]).tuple_data

\* base[r] and deleted[r] after UndoBuffer::Rollback.
UndoneBase(t, r) ==
  IF WithData(t, r) = {} THEN base[r]
    ELSE Entry(version_pointers[r][Cardinality(WithData(t, r))]).tuple_data

UndoneDeleted(t, r) ==
  IF OnTop(t, r) = {} THEN deleted[r] ELSE WithData(t, r) # OnTop(t, r)

\* The undo buffers of destroyed transactions are gone; those rolled back hold
\* empty entries only.
Kept(buffers, gone) == [u \in Txn |-> IF u \in gone THEN <<>> ELSE buffers[u]]

Commit(t) ==
  \E n \in 0..(Len(recently_committed_transactions) + 1) :
    /\ CommitTransactionCleaning(t, n)
    /\ undo' = Kept(Stamped(t, current_start_timestamp, Len(undo[t])), freed')
    /\ cardinality' = CardinalityAfter(t, Len(undo[t]))
    /\ Unlink(CleanedBy(t, [commit_id EXCEPT ![t] = current_start_timestamp], n))
    /\ tainted' = raced' \cup IF current_start_timestamp < TRANSACTION_ID_START
                                THEN tainted ELSE tainted \cup RowsOf(t)
    /\ EndOverlap(t) /\ undoing' = {}
    /\ UNCHANGED <<count, base, deleted, mine>>

\* UndoBuffer::Commit throws at the catalog entry of a CREATE INDEX: the k
\* entries before it keep their stamps.
CommitFails(t) ==
  \E k \in 0..Len(undo[t]) :
    /\ CommitTransactionFails(t)
    /\ commit_id[t] = 0 \/ t \in FailingRetries
    /\ undo' = Stamped(t, current_start_timestamp, k)
    /\ cardinality' = CardinalityAfter(t, k)
    /\ tainted' = tainted \cup RowsOf(t)
    /\ EndOverlap(t) /\ undoing' = {}
    /\ UNCHANGED <<count, base, deleted, version_pointers, mine, raced>>

Rollback(t) ==
  \E n \in 0..(Len(recently_committed_transactions) + 1) :
    /\ RollbackTransactionCleaning(t, n)
    /\ base' = [r \in Row |-> UndoneBase(t, r)]
    /\ deleted' = [r \in Row |-> UndoneDeleted(t, r)]
    /\ Unlink({t} \cup CleanedBy(t, commit_id, n))
    /\ undo' = Kept(undo, freed' \cup {t})
    /\ mine' = [mine EXCEPT ![t] = [r \in Row |-> NoWrite]]
    /\ tainted' = tainted \cup raced'
    /\ EndOverlap(t)
    /\ undoing' = {r \in Row : OnTop(t, r) # {} /\ version_pointers'[r] # <<>>}
    /\ UNCHANGED <<count, cardinality>>

MvccNext ==
  \E t \in Txn :
    \/ Start(t)
    \/ \E v \in Val : DataTableAppend(t, v)
    \/ \E r \in Row : Delete(t, r)
    \/ \E r \in Row, v \in Val : Update(t, r, v)
    \/ Commit(t)
    \/ CommitFails(t)
    \/ Rollback(t)

MvccSpec == MvccInit /\ [][MvccNext]_vars

-----------------------------------------------------------------------------
(* Properties.                                                              *)

Stored == (Val \ {NULL}) \cup {NullValue}

UndoEntry ==
  [type : {"INSERT_TUPLE", "DELETE_TUPLE", "UPDATE_TUPLE"}, row : Row,
   tuple_data : Stored \cup {Absent}, version_number : Nat]

\* Every variable holds values of its type.
MvccTypeOK ==
  /\ count \in 0..MaxRows
  /\ base \in [Row -> Stored]
  /\ deleted \in [Row -> BOOLEAN]
  /\ version_pointers \in [Row -> Seq(Txn \X Nat)]
  /\ undo \in [Txn -> Seq(UndoEntry)]
  /\ cardinality \in 0..(SizeT - 1)
  /\ mine \in [Txn -> [Row -> Val \cup {Absent, NoWrite}]]
  /\ tainted \subseteq Row
  /\ pushing \subseteq Txn \X Row /\ undoing \subseteq Row /\ raced \subseteq tainted

HasCommitted(u) == u \in Started \ active_transactions /\ commit_id[u] # 0

\* What the transactions that committed before the time stamp s left in row r.
CommittedBefore(r, s) ==
  LET writers == {u \in Txn : HasCommitted(u) /\ commit_id[u] < s /\ mine[u][r] # NoWrite}
      last(u) == \A w \in writers : commit_id[w] <= commit_id[u]
  IN  IF writers = {} THEN Absent ELSE mine[CHOOSE u \in writers : last(u)][r]

\* Snapshot isolation: a scan returns the transaction's own last write, else
\* what was committed before it started, however other transactions write,
\* commit, roll back and are cleaned up meanwhile (DataTable::Scan).
SnapshotReads ==
  \A t \in active_transactions, r \in Row \ tainted :
    Scan(t, r) = IF mine[t][r] # NoWrite THEN mine[t][r] ELSE CommittedBefore(r, start_time[t])

\* A transaction that starts now reads the last committed state, also after
\* rollbacks moved old tuples back into the base table and cleanup cut chains.
LatestCommittedRead ==
  current_start_timestamp < TRANSACTION_ID_START =>
    \A r \in Row \ tainted : FreshScan(r) = CommittedBefore(r, current_start_timestamp)

LeadToEntries(r) ==
  \A i \in 1..Len(version_pointers[r]) :
    LET p == version_pointers[r][i]
    IN  p[1] \notin freed /\ p[2] \in 1..Len(undo[p[1]]) /\ Entry(p).row = r

\* No chain leads into the undo buffer of a destroyed transaction, whatever
\* order transactions are cleaned up in, unless a commit or rollback has relinked
\* it during a push (StorageChunk::Cleanup and Undo).
ChainsLeadToEntries == \A r \in Row \ raced : LeadToEntries(r)

\* The same for all rows: "we can only safely do the actual memory cleanup when
\* all the currently active queries have finished" (transaction_manager.cpp:119),
\* and later ones do not get there.
ChainsAlwaysLead == \A r \in Row : LeadToEntries(r)

\* The newest version of a row that a running transaction wrote is that of this
\* transaction: "assert(version_pointers[entry] == info)" (storage_chunk.cpp:36).
UndoFindsVersion ==
  \A t \in active_transactions : commit_id[t] = 0 =>
    \A r \in RowsOf(t) : version_pointers[r] # <<>> /\ Head(version_pointers[r])[1] = t

\* A chain runs from newer to older versions, and only one transaction has
\* uncommitted versions in it, on top; the scan loops stop at the first visible
\* version because of that (data_table.cpp:403-417).
ChainsDescend ==
  \A r \in Row \ tainted : LET c == version_pointers[r] IN
    \A i \in 1..Len(c), j \in 1..Len(c) : i < j =>
      \/ VersionNumber(c[i]) > VersionNumber(c[j])
      \/ c[i][1] = c[j][1] /\ c[i][2] > c[j][2]

VisibleRows == {r \in Row : FreshScan(r) # Absent}

\* The cardinality kept by UndoBuffer::Commit is the number of committed rows,
\* as long as no row is tainted and transactions can start.
CardinalityCounts ==
  tainted = {} /\ current_start_timestamp < TRANSACTION_ID_START =>
    cardinality = Cardinality(VisibleRows)

\* The same with rows that are tainted, when no transaction runs: "this number
\* signifies the amount of COMMITTED entries in the table" (data_table.hpp:74).
CardinalityExact ==
  raced = {} /\ active_transactions = {} => cardinality = Cardinality(VisibleRows)

\* A committed deletion is final: row identifiers are not used again, and
\* undoing another transaction undoes "the changes made by a tuple"
\* (storage_chunk.hpp:56), not those of someone else.
CommittedDeleteKept ==
  \A r \in Row \ raced, u \in Txn :
    HasCommitted(u) /\ mine[u][r] = Absent => FreshScan(r) = Absent

\* The identifiers a scan reports are those of the rows it returns, so that
\* DELETE and UPDATE change the rows they matched, all in the chunk they lock
\* (data_table.cpp:209-211, "assert that all ids in the vector belong to the
\* same storage chunk").
RowIdsIdentify ==
  \A t \in active_transactions, r \in Row \ raced :
    Scan(t, r) # Absent => ReportedRowId(t, r) = r
=============================================================================
