------------------------------ MODULE Catalog -------------------------------
(***************************************************************************)
(* The catalog: schemas, and the tables, views and functions in them, as   *)
(* versioned entries.  Every name of a CatalogSet heads a chain of entries *)
(* linked by child and parent pointers, and the undo buffer of the         *)
(* transaction that replaced an entry points to it.  Commit stamps the     *)
(* entry above it, rollback puts it back, cleanup destroys it.             *)
(*                                                                         *)
(* The set 0 holds the schemas.  The sets of a schema are numbered by its  *)
(* entry: dropping a schema and creating it again gives new, empty sets,   *)
(* and destroying the entry destroys what its sets own.  Table and         *)
(* function names are disjoint, so that one map stands for the sets tables,*)
(* table_functions and scalar_functions of a schema.                       *)
(*                                                                         *)
(* Create, alter and drop hold catalog_lock, and the schema they work in   *)
(* is looked up in the transaction's own snapshot, so each is one step.    *)
(* Commit and Cleanup do not take catalog_lock: a lookup that walks down a *)
(* chain is therefore one step per entry.                                  *)
(***************************************************************************)
EXTENDS TransactionManager, SequencesExt

CONSTANTS
  SchemaNames, TableNames, FunctionNames,
  NoTxn,                \* the writer of the entries of an initial database
  MaxNodes              \* bound on the entries ever created

ASSUME CatalogAssumption ==
  /\ NoTxn \notin Txn
  /\ MaxNodes \in Nat
  /\ SchemaNames \cap (TableNames \cup FunctionNames) = {}
  /\ TableNames \cap FunctionNames = {}

Names == SchemaNames \cup TableNames \cup FunctionNames

VARIABLES
  nodes,                \* the catalog entries in the order of their creation
  destroyed,            \* those whose memory is gone
  data,                 \* the newest entry of each name in each set, 0: none
  undo,                 \* the catalog entries in the undo buffer of each transaction
  at                    \* where the lookup of each transaction is, 0: no lookup

catalog == <<nodes, destroyed, data, undo>>
catalogVars == <<tmVars, catalog, at>>

\* A catalog entry; `by` is history, the transaction that made the entry.
Node(t, k, n, type, ts, child) ==
  [set |-> k, name |-> n, type |-> type, deleted |-> type \in {"INVALID", "DELETED_ENTRY"},
   timestamp |-> ts, child |-> child, parent |-> 0, by |-> t]

\* An opened database has its schemas, and nothing of their creation is left
\* to undo or to clean up.
CatalogInit ==
  /\ TMInit
  /\ \E names \in SetToSeqs(SchemaNames) :
       /\ nodes = [i \in DOMAIN names |-> Node(NoTxn, 0, names[i], "SCHEMA", 0, 0)]
       /\ data = [k \in 0..MaxNodes |-> [n \in Names |->
            IF k = 0 /\ n \in SchemaNames THEN SelectInSeq(names, LAMBDA m : m = n) ELSE 0]]
  /\ destroyed = {}
  /\ undo = [t \in Txn |-> <<>>]
  /\ at = [t \in Txn |-> 0]

-----------------------------------------------------------------------------
(* Reading.                                                                 *)

\* Mutant of StopsAt: a transaction does not recognise its own versions.
StopsAtCommitted(t, e) == nodes[e].child = 0 \/ nodes[e].timestamp < start_time[t]

\* The loop of GetEntryForTransaction ends at e.
StopsAt(t, e) ==
  \/ nodes[e].child = 0
  \/ nodes[e].timestamp = transaction_id[t]
  \/ nodes[e].timestamp < start_time[t]

\* The entry of the chain at e that t sees; it may be a deleted one.
GetEntryForTransaction(t, e) ==
  LET walk[i \in 0..MaxNodes] == IF StopsAt(t, i) THEN i ELSE walk[nodes[i].child]
  IN  walk[e]

\* The entry with that name, 0 if t sees none.
GetEntry(t, k, n) ==
  IF data[k][n] = 0 THEN 0
    ELSE LET e == GetEntryForTransaction(t, data[k][n])
         IN  IF nodes[e].deleted THEN 0 ELSE e

GetSchema(t, s) == GetEntry(t, 0, s)

\* The transaction waits for no lookup of its own, and catalog_lock of the set
\* k is free.
MayWrite(t, k) ==
  /\ t \in active_transactions
  /\ at[t] = 0
  /\ \A u \in Txn : at[u] # 0 => nodes[at[u]].set # k

\* GetEntry step by step: with catalog_lock of the set held, and with nothing
\* that keeps the transaction manager from committing and cleaning up.
BeginLookup(t, k, n) ==
  /\ MayWrite(t, k)
  /\ k = 0 \/ \E s \in SchemaNames : GetSchema(t, s) = k
  /\ data[k][n] # 0
  /\ at' = [at EXCEPT ![t] = data[k][n]]
  /\ UNCHANGED <<tmVars, catalog>>

LookupStep(t) ==
  /\ at[t] # 0
  /\ at' = [at EXCEPT ![t] = IF StopsAt(t, at[t]) THEN 0 ELSE nodes[at[t]].child]
  /\ UNCHANGED <<tmVars, catalog>>

-----------------------------------------------------------------------------
(* Writing: operators on the catalog as a record, so that one statement can *)
(* replace several entries in a row.                                        *)

Now == [nodes |-> nodes, destroyed |-> destroyed, data |-> data, undo |-> undo]

Become(c) ==
  /\ nodes' = c.nodes
  /\ destroyed' = c.destroyed
  /\ data' = c.data
  /\ undo' = c.undo

\* A new version on top of the newest entry of the name, which goes to the
\* undo buffer of t.
Replace(c, t, k, n, type) ==
  LET old == c.data[k][n]
      new == Len(c.nodes) + 1
  IN  [c EXCEPT !.nodes = Append([@ EXCEPT ![old].parent = new],
                                 Node(t, k, n, type, transaction_id[t], old)),
                !.data[k][n] = new,
                !.undo[t] = Append(@, old)]

\* The name gets a deleted entry that older transactions find, unless the set
\* already knows the name.
WithDummy(c, k, n) ==
  IF c.data[k][n] # 0 THEN c
    ELSE [c EXCEPT !.nodes = Append(@, Node(NoTxn, k, n, "INVALID", 0, 0)),
                   !.data[k][n] = Len(c.nodes) + 1]

\* Mutant of Conflicts: nobody checks for a concurrent writer.
NeverConflicts(c, t, k, n) == FALSE

\* The newest entry belongs to another transaction that has not committed: the
\* operation throws.
Conflicts(c, t, k, n) ==
  /\ c.data[k][n] # 0
  /\ c.nodes[c.data[k][n]].timestamp >= TRANSACTION_ID_START
  /\ c.nodes[c.data[k][n]].timestamp # transaction_id[t]

\* The newest entry of the name is not deleted.
Exists(c, k, n) == c.data[k][n] # 0 /\ ~c.nodes[c.data[k][n]].deleted

\* CreateEntry and DropEntry return true: where they throw or return false
\* nothing changes.
CanCreate(c, t, k, n) == ~Conflicts(c, t, k, n) /\ ~Exists(c, k, n)
CanDrop(c, t, k, n) == ~Conflicts(c, t, k, n) /\ Exists(c, k, n)

Created(c, t, k, n, type) == Replace(WithDummy(c, k, n), t, k, n, type)
Dropped(c, t, k, n) == Replace(c, t, k, n, "DELETED_ENTRY")

\* One statement of t, with c as the catalog it leaves.
Write(c) ==
  /\ Len(c.nodes) <= MaxNodes
  /\ Become(c)
  /\ UNCHANGED <<tmVars, at>>

\* A statement on the sets of the schema that t sees under the name s.
MayWriteIn(t, s) == GetSchema(t, s) # 0 /\ MayWrite(t, GetSchema(t, s))

CreateTable(t, s, n) ==
  LET k == GetSchema(t, s)
  IN  /\ MayWriteIn(t, s)
      /\ CanCreate(Now, t, k, n)
      /\ Write(Created(Now, t, k, n, "TABLE"))

\* With OR REPLACE, the type of the entry in t's snapshot is checked and the
\* newest entry is dropped; a view already deleted is just created again.
CreateView(t, s, n, replace) ==
  LET k    == GetSchema(t, s)
      old  == GetEntry(t, k, n)
      over == replace /\ old # 0
      base == IF over /\ Exists(Now, k, n) THEN Dropped(Now, t, k, n) ELSE Now
  IN  /\ MayWriteIn(t, s)
      /\ over => nodes[old].type = "VIEW"
      /\ ~Conflicts(Now, t, k, n)
      /\ CanCreate(base, t, k, n)
      /\ Write(Created(base, t, k, n, "VIEW"))

DropView(t, s, n) ==
  LET k   == GetSchema(t, s)
      old == GetEntry(t, k, n)
  IN  /\ MayWriteIn(t, s)
      /\ old # 0 => nodes[old].type = "VIEW"
      /\ CanDrop(Now, t, k, n)
      /\ Write(Dropped(Now, t, k, n))

\* The type is only checked with IF EXISTS.  Prepared statements, the
\* dependents of a table, are not modelled: there are none.
DropTable(t, s, n, if_exists) ==
  LET k   == GetSchema(t, s)
      old == GetEntry(t, k, n)
  IN  /\ MayWriteIn(t, s)
      /\ if_exists /\ old # 0 => nodes[old].type = "TABLE"
      /\ CanDrop(Now, t, k, n)
      /\ Write(Dropped(Now, t, k, n))

\* RENAME COLUMN on the newest entry of the name, whether t sees it or not; an
\* entry that is not a table throws, a deleted one included.
AlterTable(t, s, n) ==
  LET k == GetSchema(t, s)
  IN  /\ MayWriteIn(t, s)
      /\ ~Conflicts(Now, t, k, n)
      /\ Exists(Now, k, n) /\ nodes[data[k][n]].type = "TABLE"
      /\ Write(Replace(Now, t, k, n, "TABLE"))

\* CREATE OR REPLACE FUNCTION drops an existing function and creates it again.
CreateFunction(t, s, n, or_replace) ==
  LET k    == GetSchema(t, s)
      base == IF Exists(Now, k, n) THEN Dropped(Now, t, k, n) ELSE Now
  IN  /\ MayWriteIn(t, s)
      /\ ~Conflicts(Now, t, k, n)
      /\ Exists(Now, k, n) => or_replace
      /\ Write(Created(base, t, k, n, "FUNCTION"))

CreateSchema(t, s) ==
  /\ MayWrite(t, 0)
  /\ CanCreate(Now, t, 0, s)
  /\ Write(Created(Now, t, 0, s, "SCHEMA"))

\* Mutant of HasDependents: only tables count.
HasTables(t, k) == \E n \in TableNames : GetEntry(t, k, n) # 0

\* IsEmpty looks with the eyes of t at every set of the schema.
HasDependents(t, k) == \E n \in TableNames \cup FunctionNames : GetEntry(t, k, n) # 0

\* DropAllEntries over the sets of the schema k, in any order of the names.
\* An entry another transaction is writing throws, and what was dropped before
\* stays dropped.
DropDependents(t, k, names) ==
  FoldLeft(LAMBDA c, n : IF Exists(c, k, n) THEN Dropped(c, t, k, n) ELSE c, Now, names)

\* The orders in which the names are visited: tables before functions.
VisitOrders ==
  {a \o b : a \in SetToSeqs(TableNames), b \in SetToSeqs(FunctionNames)}

DropSchema(t, s) ==
  LET k == data[0][s]
  IN  /\ MayWrite(t, 0) /\ MayWrite(t, k)
      /\ CanDrop(Now, t, 0, s)
      /\ ~HasDependents(t, k)
      /\ Write(Dropped(Now, t, 0, s))

DropSchemaCascade(t, s) ==
  LET k == data[0][s]
  IN  /\ MayWrite(t, 0) /\ MayWrite(t, k)
      /\ CanDrop(Now, t, 0, s)
      /\ \E names \in VisitOrders :
           LET stop == SelectInSeq(names, LAMBDA n : Conflicts(Now, t, k, n))
           IN  Write(IF stop = 0 THEN Dropped(DropDependents(t, k, names), t, 0, s)
                                 ELSE DropDependents(t, k, SubSeq(names, 1, stop - 1)))

-----------------------------------------------------------------------------
(* The end of a transaction.                                                *)

\* Destroying the entry of a schema destroys all the entries its sets own.
Owned(ns, e) ==
  {e} \cup {i \in DOMAIN ns : ns[e].type = "SCHEMA" /\ ns[i].set = e}

Destroy(c, e) == [c EXCEPT !.destroyed = @ \cup Owned(c.nodes, e)]

\* UndoBuffer::Commit: the entry above each undo entry gets the commit_id.
Stamp(c, t, cid) ==
  FoldLeft(LAMBDA d, e : [d EXCEPT !.nodes[d.nodes[e].parent].timestamp = cid], c, c.undo[t])

\* CatalogSet::Undo puts e back in the place of the entry above it.
Undo(c, e) ==
  LET gone  == c.nodes[e].parent
      above == c.nodes[gone].parent
      back  == [c EXCEPT !.nodes[e].parent = above]
  IN  Destroy(IF above # 0
                THEN [back EXCEPT !.nodes[above].child = e]
                ELSE [back EXCEPT !.data[c.nodes[e].set][c.nodes[e].name] = e],
              gone)

\* UndoBuffer::Cleanup: the entry above e takes over the child of e.  The
\* parent pointer of that child is not changed.
CleanupEntry(c, e) ==
  Destroy([c EXCEPT !.nodes[c.nodes[e].parent].child = c.nodes[e].child], e)

Undone(c, t) == [FoldLeft(Undo, c, Reverse(c.undo[t])) EXCEPT !.undo[t] = <<>>]

\* Mutant of Cleaned: the transactions are cleaned up newest first.
CleanedBackward(c, ts) ==
  FoldLeft(LAMBDA d, t : [FoldLeft(CleanupEntry, d, d.undo[t]) EXCEPT !.undo[t] = <<>>], c, Reverse(ts))

Cleaned(c, ts) ==
  FoldLeft(LAMBDA d, t : [FoldLeft(CleanupEntry, d, d.undo[t]) EXCEPT !.undo[t] = <<>>], c, ts)

Start(t) == StartTransaction(t) /\ UNCHANGED <<catalog, at>>

\* The commit of the catalog changes of t; no entry of an index is among them,
\* so that Transaction::Commit does not throw.
Commit(t) ==
  \E n \in 0..(Len(recently_committed_transactions) + 1) :
    LET cids == [commit_id EXCEPT ![t] = current_start_timestamp]
    IN  /\ at[t] = 0
        /\ CommitTransactionCleaning(t, n)
        /\ Become(Cleaned(Stamp(Now, t, current_start_timestamp),
                          SubSeq(Committed(t, cids), 1, n)))
        /\ UNCHANGED at

\* Undo takes the catalog_lock of every set that t wrote to.
Rollback(t) ==
  \E n \in 0..(Len(recently_committed_transactions) + 1) :
    /\ at[t] = 0
    /\ \A e \in Elems(undo[t]) : MayWrite(t, nodes[e].set)
    /\ RollbackTransactionCleaning(t, n)
    /\ Become(Cleaned(Undone(Now, t), SubSeq(Committed(t, commit_id), 1, n)))
    /\ UNCHANGED at

CatalogNext ==
  \E t \in Txn :
    \/ Start(t)
    \/ \E s \in SchemaNames : CreateSchema(t, s) \/ DropSchema(t, s) \/ DropSchemaCascade(t, s)
    \/ \E s \in SchemaNames, n \in TableNames :
         \/ CreateTable(t, s, n)
         \/ AlterTable(t, s, n)
         \/ DropView(t, s, n)
         \/ \E flag \in BOOLEAN : CreateView(t, s, n, flag) \/ DropTable(t, s, n, flag)
    \/ \E s \in SchemaNames, n \in FunctionNames, flag \in BOOLEAN : CreateFunction(t, s, n, flag)
    \/ \E k \in 0..MaxNodes, n \in Names : BeginLookup(t, k, n)
    \/ LookupStep(t)
    \/ Commit(t)
    \/ Rollback(t)

CatalogSpec == CatalogInit /\ [][CatalogNext]_catalogVars

-----------------------------------------------------------------------------
(* Properties.                                                              *)

Ref == 0..MaxNodes
EntryTypes == {"INVALID", "DELETED_ENTRY", "SCHEMA", "TABLE", "VIEW", "FUNCTION"}

\* Every variable holds values of its type.
CatalogTypeOK ==
  /\ nodes \in Seq([set : Ref, name : Names, type : EntryTypes, deleted : BOOLEAN,
                    timestamp : Nat, child : Ref, parent : Ref, by : Txn \cup {NoTxn}])
  /\ Len(nodes) <= MaxNodes
  /\ destroyed \subseteq DOMAIN nodes
  /\ data \in [Ref -> [Names -> Ref]]
  /\ undo \in [Txn -> Seq(Ref \ {0})]
  /\ at \in [Txn -> Ref]

Live == DOMAIN nodes \ destroyed

\* The writer of the entry e had committed when t started, or is t.
WrittenFor(t, e) ==
  LET u == nodes[e].by
  IN  \/ u = t \/ u = NoTxn
      \/ u \notin active_transactions /\ commit_id[u] # 0 /\ commit_id[u] < start_time[t]

\* e was written later than f, as t sees the history of their name.
Later(t, e, f) ==
  LET rank(i) == IF nodes[i].by = NoTxn THEN 0
                 ELSE IF nodes[i].by = t THEN current_start_timestamp
                 ELSE commit_id[nodes[i].by]
  IN  rank(e) > rank(f) \/ (rank(e) = rank(f) /\ e >= f)

\* Snapshot isolation for the catalog: a transaction finds the entry it wrote
\* last under a name, else the last one committed before it started, whoever
\* creates, replaces, drops, rolls back or is cleaned up meanwhile
\* (CatalogSet::GetEntry).
CatalogSnapshot ==
  \A t \in active_transactions, k \in {0} \cup Live, n \in Names :
    LET written == {e \in DOMAIN nodes : nodes[e].set = k /\ nodes[e].name = n /\ WrittenFor(t, e)}
        last    == CHOOSE e \in written : \A f \in written : Later(t, e, f)
    IN  data[k][n] \notin destroyed =>
          GetEntry(t, k, n) = IF written = {} \/ nodes[last].deleted THEN 0 ELSE last

\* The parent pointers that Cleanup and Undo follow are those of the chains:
\* Cleanup leaves the parent of a grandchild alone, which is right only because
\* no entry has a child any more when it is cleaned up (undo_buffer.cpp:36-42).
ChainsDoublyLinked ==
  \A e \in Live :
    /\ nodes[e].child # 0 => nodes[e].child \in Live /\ nodes[nodes[e].child].parent = e
    /\ nodes[e].parent # 0 => nodes[e].parent \in Live /\ nodes[nodes[e].parent].child = e
    /\ nodes[e].parent = 0 => data[nodes[e].set][nodes[e].name] = e

\* The schema k was dropped by a transaction that could not see what u wrote.
DroppedMeanwhile(u, k) ==
  /\ k # 0 /\ nodes[k].parent # 0
  /\ LET w == nodes[nodes[k].parent].by
     IN  w # u /\ (commit_id[u] = 0 \/ commit_id[u] > start_time[w])

\* What a transaction may still have to commit, undo or clean up is there, and
\* so is the entry above it, also when schemas are dropped with all they own;
\* the exception are schemas dropped while another transaction adds to them
\* (UndoBuffer::Commit, Rollback and Cleanup).
UndoEntriesLive ==
  \A u \in linked : \A i \in 1..Len(undo[u]) :
    LET e == undo[u][i]
    IN  \/ e \in Live /\ nodes[e].parent \in Live
        \/ DroppedMeanwhile(u, nodes[e].set)

\* A lookup never stands on a destroyed entry, although Cleanup destroys
\* entries without taking catalog_lock (undo_buffer.cpp:36-42).
LookupSafe == \A t \in Txn : at[t] \notin destroyed

CommittedEntry(e) == nodes[e].timestamp < TRANSACTION_ID_START

\* The committed entries that are the newest of their name in a schema that a
\* committed transaction dropped.
Lost ==
  {e \in DOMAIN nodes :
     LET k == nodes[e].set
     IN  /\ k # 0 /\ nodes[e].parent = 0 /\ ~nodes[e].deleted /\ CommittedEntry(e)
         /\ nodes[k].parent # 0 /\ CommittedEntry(nodes[k].parent)}

\* DROP SCHEMA loses no table, view or function: what the dropping transaction
\* can see refuses the drop, or is dropped with CASCADE; only what another
\* transaction adds meanwhile is lost (SchemaCatalogEntry::HasDependents).
DropLosesNothingSeen ==
  \A e \in Lost : DroppedMeanwhile(nodes[e].by, nodes[e].set)

\* An entry is not dropped when "there are entries that depend on it"
\* (catalog_set.cpp:101): nothing committed is left in a dropped schema.
DropLosesNothing == Lost = {}
=============================================================================
