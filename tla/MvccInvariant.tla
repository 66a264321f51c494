--------------------------- MODULE MvccInvariant ----------------------------
(***************************************************************************)
(* The inductive invariant of the version chains (Mvcc). It relates a      *)
(* chain of version entries, the undo buffers the entries are in, and the  *)
(* lists of the transaction manager, row by row, so that a proof can treat *)
(* one row at a time.                                                      *)
(*                                                                         *)
(* Pointers and WritesLinked tie chains to buffers, in both directions.    *)
(* Ordered gives the entries of a row the numbers their writers have,      *)
(* latest first. Recorded says what a row holds: every tuple in the chain, *)
(* and the one in the table, is the tuple that the transaction which wrote *)
(* it left there, and everything older is still found by a transaction     *)
(* that may look for it.                                                   *)
(***************************************************************************)
EXTENDS Mvcc

-----------------------------------------------------------------------------
(* The inductive invariant.                                                 *)

\* Transactions whose undo buffers may be in the chains.
InUse == active_transactions \cup Elems(recently_committed_transactions)

Positions(r) == 1..Len(version_pointers[r])
Writer(r, i) == version_pointers[r][i][1]

\* The tuple, as stored, of a reader who goes k versions down the chain of r.
State(r, k) ==
  IF k = 0 THEN (IF r >= count \/ deleted[r] THEN Absent ELSE base[r])
           ELSE Entry(version_pointers[r][k]).tuple_data

\* The version at i is the newest one of its transaction.
Newest(r, i) == i = 1 \/ Writer(r, i - 1) # Writer(r, i)

\* Committed transactions that wrote r and whose versions are gone.
Retired(r) == {u \in CleanedUp : mine[u][r] # NoWrite}

\* p leads to an entry for r, of a transaction that wrote r and is in use.
LeadsTo(p, r) ==
  /\ p[1] \in InUse /\ p[2] \in 1..Len(undo[p[1]])
  /\ Entry(p).row = r /\ mine[p[1]][r] # NoWrite

\* So do the pointers of the chain of r; a version without a tuple is the oldest.
Pointers ==
  \A r \in Row \ raced : \A i \in Positions(r) :
    /\ LeadsTo(version_pointers[r][i], r)
    /\ Entry(version_pointers[r][i]).tuple_data = Absent => i = Len(version_pointers[r])

\* In all rows, those of running transactions lead to their entries, and the
\* others are of transactions that have run.
OwnEntry(r, i) ==
  LET p == version_pointers[r][i]
  IN  /\ p[2] \in 1..Len(undo[p[1]])
      /\ Entry(p).tuple_data = Absent => i = Len(version_pointers[r])

OwnEntries ==
  \A r \in Row : \A i \in Positions(r) :
    Writer(r, i) \in Started /\ (Writer(r, i) \in active_transactions => OwnEntry(r, i))

\* Every transaction in use that wrote a row is in its chain.
WritesLinked ==
  \A r \in Row \ raced : \A u \in InUse :
    mine[u][r] # NoWrite => \E i \in Positions(r) : Writer(r, i) = u

\* Nothing is known of rows not appended yet.
Unborn ==
  \A r \in Row : r >= count =>
    version_pointers[r] = <<>> /\ ~deleted[r] /\ \A u \in Txn : mine[u][r] = NoWrite

\* The writes that are remembered are those of running or committed transactions.
WritersKnown ==
  \A u \in Txn, r \in Row : mine[u][r] # NoWrite =>
    u \in active_transactions \/ HasCommitted(u)

Writes(u) == \E r \in Row : mine[u][r] # NoWrite

\* Writers are in the order of their commits in the list from whose front
\* RemoveTransaction cleans up; a transaction rolled back after a failed commit
\* may be out of order, but its writes are gone.
ListOrder(rc) ==
  /\ \A i \in 1..Len(rc) : commit_id[rc[i]] # 0
  /\ \A i, j \in 1..Len(rc) : i < j /\ Writes(rc[j]) => commit_id[rc[i]] < commit_id[rc[j]]

CommitsDiffer ==
  \A u, w \in Txn : HasCommitted(u) /\ HasCommitted(w) /\ Writes(u) /\ Writes(w) /\ u # w
    => commit_id[u] # commit_id[w]

\* The version number that the entry at i should have.
Number(r, i) ==
  IF Writer(r, i) \in active_transactions
    THEN transaction_id[Writer(r, i)] ELSE commit_id[Writer(r, i)]

\* The versions of r carry their numbers, in descending order; at most one running
\* transaction has versions there, and those cleaned up were older.
Ordered(r) ==
  /\ \A i \in Positions(r) : VersionNumber(version_pointers[r][i]) = Number(r, i)
  /\ \A i \in Positions(r) : Writer(r, i) \notin active_transactions =>
       /\ commit_id[Writer(r, i)] < TRANSACTION_ID_START
       /\ \A w \in Retired(r) : commit_id[w] < commit_id[Writer(r, i)]
  /\ \A i, j \in Positions(r) :
       Writer(r, i) \in active_transactions /\ Writer(r, j) \in active_transactions =>
         Writer(r, i) = Writer(r, j)
  /\ \A i, j \in Positions(r) : i < j =>
       \/ Number(r, i) > Number(r, j)
       \/ Writer(r, i) = Writer(r, j) /\ version_pointers[r][i][2] > version_pointers[r][j][2]

\* Above the versions of a transaction is what it wrote last; below the oldest
\* version is what the transactions cleaned up have left.
Recorded(r) ==
  /\ \A i \in Positions(r) : Newest(r, i) =>
       FromStorage(State(r, i - 1)) = mine[Writer(r, i)][r]
  /\ LET last == FromStorage(State(r, Len(version_pointers[r])))
     IN  \/ Retired(r) = {} /\ last = Absent
         \/ \E u \in Retired(r) :
              last = mine[u][r] /\ \A w \in Retired(r) : commit_id[w] <= commit_id[u]

MvccInv ==
  /\ MvccTypeOK /\ Pointers /\ OwnEntries /\ WritesLinked /\ Unborn /\ WritersKnown
  /\ ListOrder(recently_committed_transactions) /\ CommitsDiffer
  /\ \A r \in Row \ tainted : Ordered(r) /\ Recorded(r)

Manager == TMTypeOK /\ OwnedOnce /\ Stamps /\ CleanupSafe

\* What DELETE and UPDATE have in common: the scan of t found r and reports id, and
\* unless id is another row or t overwrites a later commit, t reads the table.
Found(t, r, id) ==
  /\ id \in Row /\ id < count /\ ~Conflict(t, id)
  /\ id = r /\ ~Stale(t, id) => ~deleted[id]

\* The chain d has the versions of c at the places in keep, in their order.
Thinned(c, d, keep) ==
  /\ d \in Seq(Txn \X Nat)
  /\ \E f \in [1..Len(d) -> 1..Len(c)] :
       /\ \A k \in 1..Len(d) : d[k] = c[f[k]] /\ f[k] \in keep
       /\ \A k, l \in 1..Len(d) : k < l => f[k] < f[l]
       /\ \A i \in keep : \E k \in 1..Len(d) : f[k] = i

\* The chain d is c without the versions of the transactions in S, in their order.
Shortened(c, d, S) ==
  /\ d \in Seq(Txn \X Nat)
  /\ \E f \in [1..Len(d) -> 1..Len(c)] :
       /\ \A k \in 1..Len(d) : d[k] = c[f[k]] /\ c[f[k]][1] \notin S
       /\ \A k, l \in 1..Len(d) : k < l => f[k] < f[l]
       /\ \A i \in 1..Len(c) : c[i][1] \notin S => \E k \in 1..Len(d) : f[k] = i

-----------------------------------------------------------------------------
(* Reads, for every set of values.                                          *)

\* x is the tuple v, or a NULL as a version stores it.
ReadAs(x, v) == x = v \/ (v = NULL /\ x = NullValue)

\* What t should see in r.
Snapshot(t, r) ==
  IF mine[t][r] # NoWrite THEN mine[t][r] ELSE CommittedBefore(r, start_time[t])

\* SnapshotReads where tuples may be NULL: a scan that finds a tuple in a version
\* returns the NULL of the storage (DataTable::RetrieveVersionedData).
SnapshotReadsUpToNull ==
  \A t \in active_transactions, r \in Row \ tainted : ReadAs(Scan(t, r), Snapshot(t, r))

\* LatestCommittedRead where tuples may be NULL.
LatestCommittedUpToNull ==
  current_start_timestamp < TRANSACTION_ID_START =>
    \A r \in Row \ tainted :
      ReadAs(FreshScan(r), CommittedBefore(r, current_start_timestamp))
=============================================================================
