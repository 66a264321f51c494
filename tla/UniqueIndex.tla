---------------------------- MODULE UniqueIndex -----------------------------
(***************************************************************************)
(* The index behind PRIMARY KEY and UNIQUE on the versioned table of Mvcc. *)
(* It is a binary tree of (key, row) nodes.  Nodes stay when their row is  *)
(* deleted or changed, so a node only says where a key may be: AddEntry    *)
(* looks at the row, and at the versions of it that the transaction does   *)
(* not see.                                                                *)
(*                                                                         *)
(* INSERT and UPDATE hold the lock of a chunk from their first step to     *)
(* their last and add their nodes under index_lock; in between, other      *)
(* transactions commit, roll back and are cleaned up, and statements on    *)
(* other chunks run.  A tuple of Mvcc is its key.  The races of Mvcc on a  *)
(* chain take three transactions, and are looked at there.                 *)
(***************************************************************************)
EXTENDS Mvcc, SequencesExt

CONSTANTS
  allow_nulls,         \* UNIQUE, not PRIMARY KEY
  Key,                 \* the keys other than NULL, integers
  InitialRows,         \* how many rows the table may have initially
  StatementSize,       \* bound on the rows of a statement
  MaxNodes,            \* bound on the nodes of the tree
  NoJob,               \* between two statements
  Nobody

ASSUME IndexAssumption ==
  /\ allow_nulls \in BOOLEAN
  /\ Val \ {NULL} = Key /\ Key \subseteq Nat
  /\ \A n \in InitialRows : 1..n \subseteq Key /\ n <= MaxRows

VARIABLES
  tree, root,          \* the nodes, numbered in the order of their creation; 0 is nullptr
  index_lock,          \* who holds it
  job                  \* the INSERT or UPDATE each transaction executes

indexVars == <<vars, tree, root, index_lock, job>>

\* A table with the keys 1, 2, ... inserted in this order by a transaction that
\* is long gone.
IndexInit ==
  \E n \in InitialRows :
    /\ TMInit
    /\ count = n /\ cardinality = n
    /\ base = [r \in Row |-> IF r < n THEN r + 1 ELSE NullValue]
    /\ deleted = [r \in Row |-> FALSE]
    /\ version_pointers = [r \in Row |-> <<>>]
    /\ undo = [t \in Txn |-> <<>>]
    /\ mine = [t \in Txn |-> [r \in Row |-> NoWrite]]
    /\ tainted = {}
    /\ pushing = {} /\ undoing = {} /\ raced = {}
    /\ tree = [i \in 1..n |->
         [key |-> i, row |-> i - 1, parent |-> i - 1, left |-> (i + 1) % (n + 1), right |-> 0]]
    /\ root = IF n = 0 THEN 0 ELSE 1
    /\ index_lock = Nobody
    /\ job = [t \in Txn |-> NoJob]

TailChunk == IF count = 0 THEN 0 ELSE Chunk(count - 1)

\* Mutant of Locked: statements take no lock.
Unlocked(c) == FALSE

\* Some statement holds the exclusive lock of the chunk c.
Locked(c) == \E t \in Txn : job[t] # NoJob /\ job[t].chunk = c

-----------------------------------------------------------------------------
(* The tree.                                                                *)

Lesser(i, k) == tree[i].key < k

\* The nodes that AddEntry passes on its way to the place of the key k.
Path(k) ==
  LET walk[i \in 0..Len(tree)] ==
        IF i = 0 THEN <<>>
          ELSE <<i>> \o walk[IF Lesser(i, k) THEN tree[i].left ELSE tree[i].right]
  IN  walk[root]

\* The tree with a new node at the end of that path.
WithNode(k, r) ==
  LET p == IF root = 0 THEN 0 ELSE Last(Path(k))
      n == Len(tree) + 1
      all == Append(tree, [key |-> k, row |-> r, parent |-> p, left |-> 0, right |-> 0])
  IN  CASE p = 0 -> all
        [] p # 0 /\ Lesser(p, k) -> [all EXCEPT ![p].left = n]
        [] OTHER -> [all EXCEPT ![p].right = n]

\* The number of the newest node is free again when that node is removed.
Reclaimed(s, i) == IF i = Len(s) THEN Front(s) ELSE s

\* The root is removed: its left child takes its place.  The parents of the
\* nodes that move stay as they are.
RemoveRoot(i) ==
  LET l == tree[i].left
      r == tree[i].right
      leftmost[n \in 1..Len(tree)] == IF tree[n].left = 0 THEN n ELSE leftmost[tree[n].left]
      moved == IF tree[l].right = 0 THEN tree ELSE [tree EXCEPT ![leftmost[r]].left = tree[l].right]
  IN  /\ root' = IF l # 0 THEN l ELSE r
      /\ tree' = Reclaimed(IF l # 0 /\ r # 0 THEN [moved EXCEPT ![l].right = r] ELSE tree, i)

\* Mutant of RemoveEntry: the left child of the parent goes if it has one.
RemoveLeftChild(i) ==
  LET p == tree[i].parent
      cut == IF tree[p].left # 0 THEN [tree EXCEPT ![p].left = 0] ELSE [tree EXCEPT ![p].right = 0]
  IN  IF p = 0 THEN RemoveRoot(i) ELSE tree' = cut /\ UNCHANGED root

\* A leaf is cut off its parent.  Nothing is done for an inner node, where
\* builds with assertions stop ("we don't handle this case yet!").
RemoveEntry(i) ==
  LET p == tree[i].parent
      leaf == tree[i].left = 0 /\ tree[i].right = 0
      cut == IF tree[p].left = i THEN [tree EXCEPT ![p].left = 0] ELSE [tree EXCEPT ![p].right = 0]
  IN  IF p = 0 THEN RemoveRoot(i)
        ELSE tree' = (IF leaf THEN Reclaimed(cut, i) ELSE tree) /\ UNCHANGED root

-----------------------------------------------------------------------------
(* The check of a key.                                                      *)

\* The base table has the key in this row.
InBase(r, k) == ~deleted[r] /\ base[r] = k

\* The versions that t would have to skip to get to the one it sees, that one
\* included, have the key.
InVersions(t, r, k) ==
  \E i \in 1..ChainDepth(transaction_id[t], start_time[t], r) :
    Entry(version_pointers[r][i]).tuple_data = k

\* Mutant of Refuses: the versions of a row are not looked at.
RefusesBase(t, i) ==
  LET r == tree[i].row
  IN  r >= count \/ (r \notin Elems(job[t].ignored) /\ InBase(r, tree[i].key))

\* The node i of the key that t adds makes AddEntry fail: a conflict, or
\* GetChunk throws because the row is not in the table yet.
Refuses(t, i) ==
  LET r == tree[i].row
      k == tree[i].key
  IN  \/ r >= count
      \/ r \notin Elems(job[t].ignored) /\ InBase(r, k)
      \/ InVersions(t, r, k)

\* The nodes with the key k that AddEntry looks at, up to the first that makes
\* it fail.
LookedAt(t, k) ==
  LET met == SelectSeq(Path(k), LAMBDA i : tree[i].key = k)
      bad == SelectInSeq(met, LAMBDA i : Refuses(t, i))
  IN  IF bad = 0 THEN met ELSE SubSeq(met, 1, bad)

\* AddEntry takes a shared lock for every node it looks at, except for the last
\* chunk, and waits while the chunk is locked, by its own statement as well.
Readable(i) ==
  LET c == Chunk(tree[i].row)
  IN  tree[i].row >= count \/ c = TailChunk \/ ~Locked(c)

-----------------------------------------------------------------------------
(* INSERT and UPDATE, step by step.                                         *)

Idle(t) == t \in active_transactions /\ job[t] = NoJob
In(t, step) == job[t] # NoJob /\ job[t].step = step
Pos(t) == job[t].pos
Advanced(t) == [job EXCEPT ![t].pos = @ + 1]
Ended(t) == [job EXCEPT ![t] = NoJob]

\* A row with a NULL in the key of a PRIMARY KEY throws before anything is done.
NullsAllowed(keys) == allow_nulls \/ NULL \notin Elems(keys)

\* The statement takes the lock of its chunk c.  Its rows get the new keys; the
\* base table versions of the ignored rows are no conflict.
Begin(t, c, op, rows, keys, ignored) ==
  /\ ~Locked(c)
  /\ Len(undo[t]) + Len(rows) <= MaxUndo /\ Len(tree) + Len(rows) <= MaxNodes
  /\ NullsAllowed(keys)
  /\ job' = [job EXCEPT ![t] = [step |-> "index", op |-> op, chunk |-> c, rows |-> rows, keys |-> keys,
                                ignored |-> ignored, pos |-> 1, added |-> <<>>]]
  /\ UNCHANGED <<vars, tree, root, index_lock>>

BeginInsert(t, keys) ==
  /\ Idle(t) /\ count + Len(keys) <= MaxRows
  /\ Begin(t, TailChunk, "append", [i \in DOMAIN keys |-> count + i - 1], keys, <<>>)

\* The order in which a scan returns rows: those of the base table come first.
ScanOrder(t, r, s) ==
  LET versioned(x) == ChainDepth(transaction_id[t], start_time[t], x) > 0
  IN  IF versioned(r) = versioned(s) THEN r < s ELSE versioned(s)

\* Keys that occur twice in one UPDATE throw.  What the key of a NULL looks like
\* to that check is not defined: two of them may pass or throw.
DistinctKeys(keys) ==
  \A i, j \in DOMAIN keys : i # j /\ keys[i] = keys[j] => keys[i] = NULL

\* The rows S are rows of one chunk that t sees, the identifiers reported for
\* them are right (see RowIdsIdentify in Mvcc), and new has their new keys.
BeginUpdate(t, S, new) ==
  LET rows == SetToSortSeq(S, LAMBDA r, s : ScanOrder(t, r, s))
      keys == [i \in DOMAIN rows |-> new[rows[i]]]
  IN  /\ Idle(t)
      /\ \A r \in S : Scan(t, r) # Absent /\ ReportedRowId(t, r) = r
      /\ DistinctKeys(keys)
      /\ \E c \in {Chunk(r) : r \in S} :
           /\ \A r \in S : Chunk(r) = c
           /\ Begin(t, c, "update", rows, keys, rows)

\* AddEntries on the next row of the statement.
AddEntry(t) ==
  LET k == job[t].keys[Pos(t)]
      seen == LookedAt(t, k)
  IN  /\ In(t, "index") /\ Pos(t) <= Len(job[t].rows)
      /\ index_lock \in {Nobody, t}
      /\ \/ /\ k = NULL
            /\ index_lock' = t
            /\ job' = Advanced(t)
            /\ UNCHANGED <<tree, root>>
         \/ /\ k # NULL
            /\ \A i \in Elems(seen) : Readable(i) /\ ~Refuses(t, i)
            /\ index_lock' = t
            /\ tree' = WithNode(k, job[t].rows[Pos(t)])
            /\ root' = IF root = 0 THEN Len(tree') ELSE root
            /\ job' = [Advanced(t) EXCEPT ![t].added = Append(@, Len(tree'))]
         \/ /\ k # NULL
            /\ \A i \in Elems(seen) : Readable(i)
            /\ \E i \in Elems(seen) : Refuses(t, i)
            /\ index_lock' = Nobody
            /\ job' = [job EXCEPT ![t].step = "remove"]
            /\ UNCHANGED <<tree, root>>
      /\ UNCHANGED vars

\* AddEntries is done, and the nodes stay; or another unique index of the table,
\* which comes next, refuses its key.
AddedEntries(t) ==
  /\ In(t, "index") /\ Pos(t) > Len(job[t].rows)
  /\ index_lock' = Nobody
  /\ \/ job' = [job EXCEPT ![t].step = job[t].op, ![t].pos = 1, ![t].added = <<>>]
     \/ job' = [job EXCEPT ![t].step = "remove"]
  /\ UNCHANGED <<vars, tree, root>>

\* ~UniqueIndexAddedEntries after an exception, without index_lock: the newest
\* node first.  Then the exception ends the statement.
RemoveAdded(t) ==
  /\ In(t, "remove")
  /\ \/ /\ job[t].added # <<>>
        /\ RemoveEntry(Last(job[t].added))
        /\ job' = [job EXCEPT ![t].added = Front(@)]
     \/ job[t].added = <<>> /\ job' = Ended(t) /\ UNCHANGED <<tree, root>>
  /\ UNCHANGED <<vars, index_lock>>

\* The rows of an INSERT go into the table, one after the other.
AppendRow(t) ==
  /\ In(t, "append")
  /\ DataTableAppend(t, job[t].keys[Pos(t)])
  /\ job' = IF Pos(t) = Len(job[t].keys) THEN Ended(t) ELSE Advanced(t)
  /\ UNCHANGED <<tree, root, index_lock>>

\* The old tuple of the next row goes into the undo buffer; a conflict throws
\* and leaves the index, and the tuples pushed so far, as they are.
PushRow(t) ==
  LET r == job[t].rows[Pos(t)]
  IN  /\ In(t, "update") /\ Pos(t) <= Len(job[t].rows)
      /\ \/ /\ ~Conflict(t, r)
            /\ Push(t, "UPDATE_TUPLE", r, base[r])
            /\ Remember(t, r, r, mine[t][r])
            /\ job' = Advanced(t)
         \/ Conflict(t, r) /\ job' = Ended(t) /\ UNCHANGED <<undo, version_pointers, history, overlap>>
      /\ UNCHANGED <<tmVars, count, base, deleted, cardinality, tree, root, index_lock>>

\* Then the new keys are written, and the statement ends.
WriteRows(t) ==
  LET new(r) == job[t].keys[CHOOSE i \in DOMAIN job[t].rows : job[t].rows[i] = r]
      S == Elems(job[t].rows)
  IN  /\ In(t, "update") /\ Pos(t) > Len(job[t].rows)
      /\ base' = [r \in Row |-> IF r \in S THEN ToStorage(new(r)) ELSE base[r]]
      /\ mine' = [mine EXCEPT ![t] = [r \in Row |-> IF r \in S THEN new(r) ELSE mine[t][r]]]
      /\ job' = Ended(t)
      /\ UNCHANGED <<tmVars, count, deleted, version_pointers, undo, cardinality, tainted, overlap,
                     tree, root, index_lock>>

\* What does not touch the index.  DELETE locks the chunk too.
Other(t) ==
  /\ \/ Start(t)
     \/ Idle(t) /\ (Commit(t) \/ Rollback(t))
     \/ \E r \in Row : Idle(t) /\ ReportedRowId(t, r) = r /\ ~Locked(Chunk(r)) /\ Delete(t, r)
  /\ UNCHANGED <<tree, root, index_lock, job>>

Keys == UNION {[1..n -> Val] : n \in 1..StatementSize}
RowSets == {S \in SUBSET Row : Cardinality(S) \in 1..StatementSize}

IndexNext ==
  \E t \in Txn :
    \/ \E keys \in Keys : BeginInsert(t, keys)
    \/ \E S \in RowSets : \E new \in [S -> Val] : BeginUpdate(t, S, new)
    \/ AddEntry(t)
    \/ AddedEntries(t)
    \/ RemoveAdded(t)
    \/ AppendRow(t)
    \/ PushRow(t)
    \/ WriteRows(t)
    \/ Other(t)

IndexSpec == IndexInit /\ [][IndexNext]_indexVars

-----------------------------------------------------------------------------
(* Properties.                                                              *)

Reached ==
  LET below[n \in 0..Len(tree)] ==
        IF n = 0 THEN {} ELSE {n} \cup below[tree[n].left] \cup below[tree[n].right]
  IN  below[root]

\* No two rows of a table have the same key, for no transaction that runs and for
\* none that starts now, whatever order nodes are added, rows written, deleted and
\* restored in, except where a write went past the conflict check
\* (UniqueIndex::AddEntry, unique_index.cpp:18-134).
UniqueKeys ==
  \A r, s \in Row \ tainted : r # s =>
    /\ \A t \in active_transactions : Scan(t, r) = Scan(t, s) => Scan(t, r) \notin Key
    /\ FreshScan(r) = FreshScan(s) => FreshScan(r) \notin Key

\* The index forgets no key: each key that the base table or some version has for
\* a row leads to a node of that row, also after failed statements took their
\* nodes out of the tree again (unique_index.cpp:136-179).
NoKeyForgotten ==
  \A r \in Row :
    LET versions == {Entry(version_pointers[r][i]).tuple_data : i \in DOMAIN version_pointers[r]}
    IN  r < count => \A k \in ({base[r]} \cup versions) \cap Key :
          \E i \in Elems(Path(k)) : tree[i].key = k /\ tree[i].row = r

\* A node that a failed statement takes out of the tree is the root or a leaf in
\* it: the case RemoveEntry does not handle ("we don't handle this case yet!",
\* unique_index.cpp:175-176) does not happen.
RemovesLeaves ==
  \A t \in Txn : In(t, "remove") /\ job[t].added # <<>> =>
    LET n == Last(job[t].added)
    IN  n \in Reached /\ (n = root \/ (tree[n].left = 0 /\ tree[n].right = 0))
=============================================================================
