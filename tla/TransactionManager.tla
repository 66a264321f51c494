------------------------- MODULE TransactionManager -------------------------
(***************************************************************************)
(* The transaction manager: time stamps and identifiers, the three lists   *)
(* of transaction objects, and garbage collection in two stages.  Cleanup  *)
(* unlinks the undo buffer of a committed transaction that no running      *)
(* transaction needs.  The object itself is only destroyed once every      *)
(* query that may still hold a pointer into that undo buffer is over.      *)
(*                                                                         *)
(* StartTransaction, CommitTransaction and RollbackTransaction hold        *)
(* transaction_lock from entry to exit, so each is one step.  The query    *)
(* number of a statement is fetched and stored without that lock, in two   *)
(* steps (ClientContext::Query).  An appender (Appender) reads version     *)
(* chains while it checks UNIQUE constraints and never sets active_query.  *)
(***************************************************************************)
EXTENDS Naturals, Sequences, FiniteSets

CONSTANTS
  Txn,                  \* the transaction objects the program will allocate
  Appenders,            \* those that belong to an Appender, not to queries
  CheckpointTxns,       \* those started by StorageManager::CreateCheckpoint
  FailingCommits,       \* those whose Commit throws while writing the WAL
  TRANSACTION_ID_START, \* 2^32 in the code
  MAXIMUM_QUERY_ID,     \* 2^64 - 1 in the code
  MaxTimestamp          \* bound on failing commits, each takes a time stamp

ASSUME ConstantsAssumption ==
  /\ Appenders \subseteq Txn
  /\ CheckpointTxns \subseteq Txn
  /\ FailingCommits \subseteq Txn
  /\ TRANSACTION_ID_START \in Nat \ {0}
  /\ MAXIMUM_QUERY_ID \in Nat \ {0}
  /\ MaxTimestamp \in Nat

VARIABLES
  current_query_number,
  current_start_timestamp,
  current_transaction_id,
  active_transactions,             \* a vector, but its order is never used
  recently_committed_transactions,
  old_transactions,
  freed,                \* transaction objects erased from old_transactions
  start_time, transaction_id, commit_id, highest_active_query, active_query,
  linked,               \* transactions whose undo entries are in version chains
  query,                \* what the client of each transaction is doing
  fetched,              \* the query number returned, not yet stored
  reachable             \* history: undo buffers the running query may point into

counters == <<current_query_number, current_start_timestamp, current_transaction_id>>
lists == <<active_transactions, recently_committed_transactions, old_transactions, freed>>
fields == <<start_time, transaction_id, commit_id, highest_active_query, active_query>>
clients == <<query, fetched, reachable>>
tmVars == <<counters, lists, fields, clients, linked>>

-----------------------------------------------------------------------------

Elems(s) == {s[i] : i \in 1..Len(s)}

Started == active_transactions \cup Elems(recently_committed_transactions)
             \cup Elems(old_transactions) \cup freed

\* The statement or the append of t is between its first and its last read.
Reading(t) == query[t] \in {"running", "appending"}

\* The constructor: query numbers start at 1, so that a highest_active_query of
\* 0 means that the transaction is not retired.
TMInit ==
  /\ current_query_number = 1
  /\ current_start_timestamp = 0
  /\ current_transaction_id = TRANSACTION_ID_START
  /\ active_transactions = {}
  /\ recently_committed_transactions = <<>>
  /\ old_transactions = <<>>
  /\ freed = {}
  /\ start_time = [t \in Txn |-> 0]
  /\ transaction_id = [t \in Txn |-> 0]
  /\ commit_id = [t \in Txn |-> 0]
  /\ highest_active_query = [t \in Txn |-> 0]
  /\ active_query = [t \in Txn |-> MAXIMUM_QUERY_ID]
  /\ linked = {}
  /\ query = [t \in Txn |-> "none"]
  /\ fetched = [t \in Txn |-> 0]
  /\ reachable = [t \in Txn |-> {}]

\* CreateCheckpoint runs while the database is opened: the transactions of the
\* WAL replay are over, and clients only start once it returns.
MayStart(t) ==
  /\ t \notin Started
  /\ CheckpointTxns \cap linked = {}
  /\ t \in CheckpointTxns => active_transactions = {}

\* A new transaction object.  From here on t may push undo entries, which
\* running queries can meet.
NewTransaction(t) ==
  /\ MayStart(t)
  /\ start_time' = [start_time EXCEPT ![t] = current_start_timestamp]
  /\ transaction_id' = [transaction_id EXCEPT ![t] = current_transaction_id]
  /\ current_start_timestamp' = current_start_timestamp + 1
  /\ current_transaction_id' = current_transaction_id + 1
  /\ active_transactions' = active_transactions \cup {t}
  /\ linked' = linked \cup {t}
  /\ reachable' = [u \in Txn |-> IF Reading(u) THEN reachable[u] \cup {t} ELSE reachable[u]]
  /\ UNCHANGED <<current_query_number, recently_committed_transactions, old_transactions,
                 freed, commit_id, highest_active_query, active_query, query, fetched>>

\* Mutant of StartTransaction: the check for exhausted time stamps is gone.
StartTransactionUnchecked(t) == NewTransaction(t)

\* Throws, and changes nothing, when the time stamps reach the identifiers.
StartTransaction(t) ==
  /\ current_start_timestamp < TRANSACTION_ID_START
  /\ NewTransaction(t)

-----------------------------------------------------------------------------
(* RemoveTransaction.  lowest_start_time and lowest_active_query are minima *)
(* over the other active transactions, with TRANSACTION_ID_START and        *)
(* MAXIMUM_QUERY_ID as the values of the empty minimum; the comparisons     *)
(* with them are written out over the set.                                  *)

\* Mutant of BelowLowestStart: the minimum ignores the running transactions.
BelowTransactionIds(c, others) == c < TRANSACTION_ID_START

\* c < lowest_start_time
BelowLowestStart(c, others) ==
  c < TRANSACTION_ID_START /\ \A u \in others : c < start_time[u]

\* q >= lowest_active_query
StillQueried(q, others) ==
  q >= MAXIMUM_QUERY_ID \/ \E u \in others : q >= active_query[u]

\* Where the object of t goes first, and the list of committed transactions
\* with which the collection then starts.  cids is commit_id after the commit.
Committed(t, cids) ==
  IF cids[t] # 0 THEN Append(recently_committed_transactions, t)
                 ELSE recently_committed_transactions

\* Mutant of Aborted: a committed transaction is stored as an aborted one too.
AbortedAlways(t, cids) == Append(old_transactions, t)

Aborted(t, cids) ==
  IF cids[t] # 0 THEN old_transactions ELSE Append(old_transactions, t)

\* The first n committed transactions may be cleaned up, the next may not.
CanCleanup(rc, n, cids, others) ==
  /\ n <= Len(rc)
  /\ \A i \in 1..n : BelowLowestStart(cids[rc[i]], others)
  /\ n < Len(rc) => ~BelowLowestStart(cids[rc[n + 1]], others)

\* The loop over old_transactions, stopped at the first one still in use.
FreeUnused(old, m, haq, others) ==
  /\ \A i \in 1..m : ~StillQueried(haq[old[i]], others)
  /\ m < Len(old) => StillQueried(haq[old[m + 1]], others)

\* Mutant of CanFree: the special case of the last transaction is inverted.
FreeNoneWhenLast(old, m, haq, others) ==
  IF others = {} THEN m = 0 ELSE FreeUnused(old, m, haq, others)

\* The first m old transactions are destroyed: all of them when no transaction
\* is active.
CanFree(old, m, haq, others) ==
  IF others = {} THEN m = Len(old) ELSE FreeUnused(old, m, haq, others)

\* The transactions that RemoveTransaction retires in this step, the aborted
\* one and those just cleaned up, get the current query number.
Retire(retired) ==
  [u \in Txn |-> IF u \in retired THEN current_query_number ELSE highest_active_query[u]]

\* The removal of t, cleaning up the first n committed transactions.  unlinked
\* is what leaves the version chains beside them: t itself after a rollback.
RemoveTransaction(t, cids, unlinked, n) ==
  LET others == active_transactions \ {t}
      rc     == Committed(t, cids)
      clean  == SubSeq(rc, 1, n)
      old    == Aborted(t, cids) \o clean
      haq    == Retire(Elems(clean) \cup (IF cids[t] # 0 THEN {} ELSE {t}))
  IN  /\ CanCleanup(rc, n, cids, others)
      /\ active_transactions' = others
      /\ recently_committed_transactions' = SubSeq(rc, n + 1, Len(rc))
      /\ highest_active_query' = haq
      /\ linked' = linked \ (unlinked \cup Elems(clean))
      /\ \E m \in 0..Len(old) :
           /\ CanFree(old, m, haq, others)
           /\ old_transactions' = SubSeq(old, m + 1, Len(old))
           /\ freed' = freed \cup Elems(SubSeq(old, 1, m))
      /\ query' = [query EXCEPT ![t] = "none"]
      /\ reachable' = [reachable EXCEPT ![t] = {}]
      /\ UNCHANGED <<current_query_number, current_transaction_id, start_time,
                     transaction_id, active_query, fetched>>

\* The statement that ends a transaction runs inside it (COMMIT), or is over
\* (auto commit, and the destructor of the context).
MayEnd(t) == t \in active_transactions /\ query[t] \in {"none", "running"}

\* The transaction gets its commit_id, its undo buffer is stamped with it (the
\* module Mvcc models that part), and it is removed.
CommitTransactionCleaning(t, n) ==
  LET cids == [commit_id EXCEPT ![t] = current_start_timestamp]
  IN  /\ MayEnd(t)
      /\ t \notin CheckpointTxns
      /\ commit_id' = cids
      /\ current_start_timestamp' = current_start_timestamp + 1
      /\ RemoveTransaction(t, cids, {}, n)

CommitTransaction(t) ==
  \E n \in 0..(Len(recently_committed_transactions) + 1) : CommitTransactionCleaning(t, n)

\* Transaction::Commit throws: commit_id is set, a time stamp is used, and the
\* transaction stays in the list of active transactions.
CommitTransactionFails(t) ==
  /\ MayEnd(t)
  /\ t \in FailingCommits
  /\ current_start_timestamp < MaxTimestamp
  /\ commit_id' = [commit_id EXCEPT ![t] = current_start_timestamp]
  /\ current_start_timestamp' = current_start_timestamp + 1
  /\ UNCHANGED <<current_query_number, current_transaction_id, lists, start_time,
                 transaction_id, highest_active_query, active_query, clients, linked>>

\* Rolls back the undo buffer, which unlinks it, and removes t.  After a commit
\* that threw, commit_id is not zero and t joins the committed transactions.
RollbackTransactionCleaning(t, n) ==
  /\ MayEnd(t)
  /\ t \notin CheckpointTxns
  /\ RemoveTransaction(t, commit_id, {t}, n)
  /\ UNCHANGED <<current_start_timestamp, commit_id>>

RollbackTransaction(t) ==
  \E n \in 0..(Len(recently_committed_transactions) + 1) : RollbackTransactionCleaning(t, n)

\* CreateCheckpoint ends with transaction->Rollback(), past the manager: the
\* undo buffer is rolled back and the transaction stays active.
EndCheckpoint(t) ==
  /\ t \in active_transactions \cap CheckpointTxns \cap linked
  /\ linked' = linked \ {t}
  /\ UNCHANGED <<counters, lists, fields, clients>>

-----------------------------------------------------------------------------
(* The clients: what ClientContext and Appender do to active_query.         *)

\* The right-hand side of active_query = GetQueryNumber(), no lock held.  The
\* counter never gets to MAXIMUM_QUERY_ID: the guard is the bound.
GetQueryNumber(t) ==
  /\ t \in active_transactions \ (Appenders \cup CheckpointTxns)
  /\ query[t] = "none"
  /\ current_query_number + 1 < MAXIMUM_QUERY_ID
  /\ fetched' = [fetched EXCEPT ![t] = current_query_number]
  /\ current_query_number' = current_query_number + 1
  /\ query' = [query EXCEPT ![t] = "numbered"]
  /\ UNCHANGED <<current_start_timestamp, current_transaction_id, lists, fields,
                 linked, reachable>>

\* The catalog and the tables are read from here on.
BeginReading(t, state) ==
  /\ query' = [query EXCEPT ![t] = state]
  /\ reachable' = [reachable EXCEPT ![t] = linked]

\* Mutant of StartQuery: the number is not stored in the transaction.
StartQueryUnannounced(t) ==
  /\ query[t] = "numbered"
  /\ BeginReading(t, "running")
  /\ UNCHANGED <<counters, lists, fields, linked, fetched>>

\* The assignment, and the start of the statement.
StartQuery(t) ==
  /\ query[t] = "numbered"
  /\ active_query' = [active_query EXCEPT ![t] = fetched[t]]
  /\ fetched' = [fetched EXCEPT ![t] = 0]
  /\ BeginReading(t, "running")
  /\ UNCHANGED <<counters, lists, start_time, transaction_id, commit_id,
                 highest_active_query, linked>>

\* FinalizeQuery resets active_query; the scans are over.
EndQuery(t) ==
  /\ query[t] = "running"
  /\ active_query' = [active_query EXCEPT ![t] = MAXIMUM_QUERY_ID]
  /\ query' = [query EXCEPT ![t] = "none"]
  /\ reachable' = [reachable EXCEPT ![t] = {}]
  /\ UNCHANGED <<counters, lists, start_time, transaction_id, commit_id,
                 highest_active_query, linked, fetched>>

\* Appender::Flush enters DataTable::Append: UniqueIndex::Append follows
\* version chains.  active_query still is MAXIMUM_QUERY_ID.
BeginAppend(t) ==
  /\ t \in active_transactions \cap Appenders
  /\ query[t] = "none"
  /\ BeginReading(t, "appending")
  /\ UNCHANGED <<counters, lists, fields, linked, fetched>>

EndAppend(t) ==
  /\ query[t] = "appending"
  /\ query' = [query EXCEPT ![t] = "none"]
  /\ reachable' = [reachable EXCEPT ![t] = {}]
  /\ UNCHANGED <<counters, lists, fields, linked, fetched>>

TMNext ==
  \E t \in Txn :
    \/ StartTransaction(t)
    \/ CommitTransaction(t)
    \/ CommitTransactionFails(t)
    \/ RollbackTransaction(t)
    \/ EndCheckpoint(t)
    \/ GetQueryNumber(t)
    \/ StartQuery(t)
    \/ EndQuery(t)
    \/ BeginAppend(t)
    \/ EndAppend(t)

TMSpec == TMInit /\ [][TMNext]_tmVars

-----------------------------------------------------------------------------
(* Properties.                                                              *)

QueryStates == {"none", "numbered", "running", "appending"}

\* Every variable holds values of its type.
TMTypeOK ==
  /\ current_query_number \in Nat \ {0}
  /\ current_start_timestamp \in Nat
  /\ current_transaction_id \in Nat
  /\ active_transactions \subseteq Txn
  /\ recently_committed_transactions \in Seq(Txn)
  /\ old_transactions \in Seq(Txn)
  /\ freed \subseteq Txn
  /\ start_time \in [Txn -> Nat]
  /\ transaction_id \in [Txn -> Nat]
  /\ commit_id \in [Txn -> Nat]
  /\ highest_active_query \in [Txn -> Nat]
  /\ active_query \in [Txn -> Nat]
  /\ linked \subseteq Txn
  /\ query \in [Txn -> QueryStates]
  /\ fetched \in [Txn -> Nat]
  /\ reachable \in [Txn -> SUBSET Txn]

NoRepeats(s) == \A i, j \in 1..Len(s) : i # j => s[i] # s[j]

\* Each transaction object has one owner at a time: the three vectors of
\* unique_ptr and the destroyed objects never share one, and no vector holds
\* one twice, through the moves and erases of RemoveTransaction.
OwnedOnce ==
  LET rc == recently_committed_transactions
      old == old_transactions
  IN  /\ NoRepeats(rc) /\ NoRepeats(old)
      /\ active_transactions \cap (Elems(rc) \cup Elems(old) \cup freed) = {}
      /\ Elems(rc) \cap (Elems(old) \cup freed) = {}
      /\ Elems(old) \cap freed = {}

\* The version numbers a scan compares: start times stay below the identifier
\* space even when the time stamps run out, so the versions of one running
\* transaction are never below the start time of another ("uncommited data
\* could be read", transaction_manager.cpp:19-22); and no two transactions
\* share an identifier.
UncommittedInvisible ==
  \A t, u \in active_transactions :
    /\ start_time[t] < transaction_id[u]
    /\ t # u => transaction_id[t] # transaction_id[u]

\* The strengthening of UncommittedInvisible: start times below, identifiers
\* above TRANSACTION_ID_START, every number already handed out below its counter.
Stamps ==
  /\ current_transaction_id >= TRANSACTION_ID_START
  /\ \A t \in active_transactions :
       /\ start_time[t] < TRANSACTION_ID_START
       /\ start_time[t] < current_start_timestamp
       /\ TRANSACTION_ID_START <= transaction_id[t]
       /\ transaction_id[t] < current_transaction_id
  /\ \A t, u \in active_transactions : t # u => transaction_id[t] # transaction_id[u]
  /\ \A u \in Txn : commit_id[u] # 0 => commit_id[u] < current_start_timestamp

\* The transactions whose undo buffer has been cleaned up after a commit.
CleanedUp == {u \in Elems(old_transactions) \cup freed : commit_id[u] # 0}

\* Cleanup is safe for snapshots: an undo buffer is only dropped when every
\* transaction that runs, now or later, started after that commit
\* (undo_buffer.cpp:33-34, "there is no active transaction with start_id <
\* commit_id of this transaction").
CleanupSafe ==
  \A u \in CleanedUp, t \in active_transactions : commit_id[u] < start_time[t]

\* Reclamation is safe for running queries: no transaction object is destroyed
\* while a query that may hold a pointer into its undo buffer runs, although
\* active_query is set without the lock (transaction_manager.cpp:113-121).
ReclaimSafe ==
  \A t \in Txn : query[t] = "running" => reachable[t] \cap freed = {}

\* The same for the reads of an appender, which follow version chains too.
AppendReclaimSafe ==
  \A t \in Txn : query[t] = "appending" => reachable[t] \cap freed = {}

\* Collection is complete: once the last transaction has left, every object
\* has been cleaned up and destroyed; only a commit_id that ran into the
\* identifier space blocks it (RemoveTransaction, transaction_manager.cpp:105-153).
QuiescentReclaimed ==
  active_transactions = {} =>
    /\ old_transactions = <<>>
    /\ \/ recently_committed_transactions = <<>>
       \/ commit_id[Head(recently_committed_transactions)] >= TRANSACTION_ID_START

\* active_transactions is the "Set of currently running transactions"
\* (transaction_manager.hpp:48): a transaction that was rolled back is not in it.
ActiveAreRunning == active_transactions \subseteq linked
=============================================================================
