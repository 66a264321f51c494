------------------------------- MODULE Storage -------------------------------
(***************************************************************************)
(* The files of a database directory, the write-ahead log and recovery.    *)
(* A commit appends the entries of a transaction and WAL_FLUSH to the log. *)
(* Opening a database loads the data directory that meta.info names,       *)
(* replays the log of the same iteration, writes a checkpoint to the other *)
(* data directory, moves meta.info over to it, removes the old directory   *)
(* and the old log, and opens the log of the new iteration.  The process   *)
(* may crash between any two file operations, and in a write to the log.   *)
(*                                                                         *)
(* The contents of the database are the sequence of records applied to it, *)
(* so an entry that is lost, repeated or out of order shows.               *)
(***************************************************************************)
EXTENDS Naturals, Sequences

CONSTANTS
  Txn,         \* the transactions that will commit, each one once
  Object,      \* what at most one record may make: names of tables and indexes, keys
  Group,       \* the log entries of each transaction: kind, and what it makes
  None,        \* no transaction
  NoFile,      \* a file or a directory that does not exist
  Partial,     \* a data directory that is not completely written
  MaxCrashes   \* bound on the number of crashes

\* "insert": rows, which make a key if the table has a UNIQUE constraint.
\* "create": a table, which makes its name.  "index": the query of a CREATE
\* INDEX, which makes a name too; the commit throws after it.  "failed": the
\* query of a statement that failed inside an explicit transaction.
Kinds == {"insert", "create", "failed", "index"}

\* An entry of the log is the n-th of a transaction.  The other records are
\* WAL_FLUSH and a record that a crash cut short.
Entry == [txn : Txn, n : Nat \ {0}]
Flush == [txn |-> None, n |-> 0]
Torn == [txn |-> None, n |-> 1]
Contents == Seq(Entry \cup {Flush})
Log == Seq(Entry \cup {Flush, Torn})

ASSUME StorageAssumption ==
  /\ Group \in [Txn -> Seq([kind : Kinds, makes : Object \cup {None}])]
  /\ \A t \in Txn : \A i, j \in 1..Len(Group[t]) :
       i # j /\ Group[t][i].makes # None => Group[t][i].makes # Group[t][j].makes
  /\ None \notin Txn \cup Object
  /\ NoFile \notin {0, 1} \cup Contents \cup Log
  /\ Partial \notin Contents
  /\ MaxCrashes \in Nat

VARIABLES
  meta,         \* the iteration in meta.info
  data,         \* contents of data-a and data-b
  wal,          \* contents of duckdb-a.wal and duckdb-b.wal
  pc,           \* what the process does
  iteration,
  db,           \* the database in memory
  buffer,       \* what stdio has not written to wal_file yet
  written,      \* entries written by the commit that runs
  doubt,        \* the transaction whose commit runs, or was cut by a crash
  acked,        \* history: entries of the committed transactions, in order
  thrown,       \* history: transactions whose commit threw
  reused,       \* history: a checkpoint moved to an iteration that has an old log
  retried,      \* history: a commit made again what one that threw left in the log
  crashes

disk == <<meta, data, wal>>
memory == <<iteration, db, buffer, written>>
history == <<acked, thrown, reused, retried, crashes>>
vars == <<disk, pc, memory, doubt, history>>

StorageInit ==
  /\ meta = NoFile
  /\ data = [i \in {0, 1} |-> NoFile]
  /\ wal = [i \in {0, 1} |-> NoFile]
  /\ pc = "closed"
  /\ iteration = 0 /\ db = <<>> /\ buffer = <<>> /\ written = 0
  /\ doubt = None
  /\ acked = <<>> /\ thrown = {} /\ crashes = 0
  /\ reused = FALSE /\ retried = FALSE

-----------------------------------------------------------------------------
(* Loading and replaying.                                                   *)

LoadedIteration == IF meta = NoFile THEN 0 ELSE meta
Loaded == IF meta = NoFile THEN <<>> ELSE data[meta]

Kind(e) == Group[e.txn][e.n].kind
Makes(e) == IF e.txn = None THEN None ELSE Group[e.txn][e.n].makes
IsIn(e, s) == \E i \in 1..Len(s) : s[i] = e

\* What the record makes is there already: the name, or the key, is taken.
Taken(e, s) == Makes(e) # None /\ \E i \in 1..Len(s) : Makes(s[i]) = Makes(e)

\* ReplayEntry succeeds on the i-th record of the log, after those before it.
Replays(before, log, i) ==
  LET e == log[i]
  IN  \/ e = Flush
      \/ /\ e.txn # None
         /\ Kind(e) # "failed"
         /\ ~Taken(e, before \o SubSeq(log, 1, i - 1))

\* Mutant of Applies: entries need no WAL_FLUSH behind them.
AppliesUnflushed(before, log, f) == \A i \in 1..f : Replays(before, log, i)

\* The transaction that the WAL_FLUSH at f ends is replayed and committed.
Applies(before, log, f) ==
  log[f] = Flush /\ \A i \in 1..f : Replays(before, log, i)

ReplayEnd(before, log) ==
  CHOOSE n \in 0..Len(log) :
    /\ n = 0 \/ Applies(before, log, n)
    /\ \A f \in (n + 1)..Len(log) : ~Applies(before, log, f)

\* What WriteAheadLog::Replay adds to the database.
Replayed(before, log) == SubSeq(log, 1, ReplayEnd(before, log))

\* A complete group creates a table that exists: nothing catches the exception.
\* A key or an index that exists only ends the replay, before that group.
ReplayThrows(before, log) ==
  \E f \in 1..Len(log), i \in 1..Len(log) :
    /\ i < f /\ log[f] = Flush
    /\ \A j \in 1..f : log[j] # Torn
    /\ \A j \in 1..(i - 1) : Replays(before, log, j)
    /\ ~Replays(before, log, i) /\ Kind(log[i]) = "create"

-----------------------------------------------------------------------------
(* Opening the database: LoadDatabase and CreateCheckpoint.                 *)

LoadFromStorage ==
  /\ pc = "closed"
  /\ iteration' = LoadedIteration
  /\ db' = Loaded
  /\ pc' = IF wal[LoadedIteration] = NoFile THEN "initialize" ELSE "replay"
  /\ UNCHANGED <<disk, buffer, written, doubt, history>>

NextIteration(i) == 1 - i

\* Mutant of ReplayFails: an incomplete last entry is an error too.
ReplayFailsOnTorn(before, log) ==
  ReplayThrows(before, log) \/ \E i \in 1..Len(log) : log[i] = Torn

ReplayFails(before, log) == ReplayThrows(before, log)

\* When an entry throws, so does the constructor of the database.
Replay ==
  /\ pc = "replay"
  /\ IF ReplayFails(db, wal[iteration])
       THEN /\ pc' = "closed" /\ db' = <<>> /\ iteration' = 0
       ELSE /\ pc' = "remove leftover"
            /\ db' = db \o Replayed(db, wal[iteration])
            /\ iteration' = NextIteration(iteration)
  /\ UNCHANGED <<disk, buffer, written, doubt, history>>

RemoveLeftover ==
  /\ pc = "remove leftover" /\ pc' = "create directory"
  /\ data' = [data EXCEPT ![iteration] = NoFile]
  /\ UNCHANGED <<meta, wal, memory, doubt, history>>

CreateDirectory ==
  /\ pc = "create directory" /\ pc' = "write data"
  /\ data' = [data EXCEPT ![iteration] = Partial]
  /\ UNCHANGED <<meta, wal, memory, doubt, history>>

\* Mutant of WriteData: the checkpoint is completed before all is written.
WriteNothing ==
  /\ pc = "write data" /\ pc' = "move meta"
  /\ UNCHANGED <<disk, memory, doubt, history>>

\* The last of the schema, table and view files, and the temporary meta file.
WriteData ==
  /\ pc = "write data" /\ pc' = "move meta"
  /\ data' = [data EXCEPT ![iteration] = db]
  /\ UNCHANGED <<meta, wal, memory, doubt, history>>

\* Mutant of MoveMeta: the temporary meta file is not moved.
MetaNotMoved ==
  /\ pc = "move meta" /\ pc' = "remove old data"
  /\ UNCHANGED <<disk, memory, doubt, history>>

\* "this signifies a completion of the checkpoint"
MoveMeta ==
  /\ pc = "move meta" /\ pc' = "remove old data"
  /\ meta' = iteration
  /\ reused' = (reused \/ wal[iteration] \notin {NoFile, <<>>})
  /\ UNCHANGED <<data, wal, memory, doubt, acked, thrown, retried, crashes>>

RemoveOldData ==
  /\ pc = "remove old data" /\ pc' = "remove old log"
  /\ data' = [data EXCEPT ![1 - iteration] = NoFile]
  /\ UNCHANGED <<meta, wal, memory, doubt, history>>

RemoveOldLog ==
  /\ pc = "remove old log" /\ pc' = "initialize"
  /\ wal' = [wal EXCEPT ![1 - iteration] = NoFile]
  /\ UNCHANGED <<meta, data, memory, doubt, history>>

GroupEntries(t) == [i \in 1..Len(Group[t]) |-> [txn |-> t, n |-> i]]

\* The commit that a crash interrupted has survived: its entries are there.
Survived ==
  doubt # None /\ \A i \in 1..Len(Group[doubt]) : IsIn(GroupEntries(doubt)[i], db)

\* WriteAheadLog::Initialize opens the log for appending.  The database is open
\* from here on, and whoever asked for the interrupted commit can look.
Initialize ==
  /\ pc = "initialize" /\ pc' = "open"
  /\ wal' = [wal EXCEPT ![iteration] = IF @ = NoFile THEN <<>> ELSE @]
  /\ acked' = IF Survived THEN acked \o GroupEntries(doubt) ELSE acked
  /\ doubt' = None
  /\ UNCHANGED <<meta, data, memory, thrown, reused, retried, crashes>>

-----------------------------------------------------------------------------
(* Committing, under transaction_lock.                                      *)

Tried(t) ==
  \/ t \in thrown \cup {doubt}
  \/ \E i \in 1..Len(acked) : acked[i].txn = t

\* The statements of t have succeeded: what it makes is not in the database.
BeginCommit(t) ==
  /\ pc = "open" /\ pc' = "commit"
  /\ ~Tried(t)
  /\ \A i \in 1..Len(Group[t]) : ~Taken(GroupEntries(t)[i], db)
  /\ doubt' = t
  /\ UNCHANGED <<disk, memory, history>>

\* A commit that threw was rolled back, and its records are still in the log.
Retries(e) ==
  Makes(e) # None /\ \E s \in {wal[iteration], buffer} : \E i \in 1..Len(s) :
    s[i].txn \in thrown /\ Makes(s[i]) = Makes(e)

\* One entry.  The commit of a CREATE INDEX throws when it comes to the catalog
\* entry: its query is in the log, the transaction is then rolled back.
WriteEntry ==
  /\ pc = "commit" /\ written < Len(Group[doubt])
  /\ LET e == [txn |-> doubt, n |-> written + 1]
     IN  buffer' = Append(buffer, e) /\ retried' = (retried \/ Retries(e))
  /\ IF Group[doubt][written + 1].kind = "index"
       THEN /\ pc' = "open" /\ doubt' = None /\ written' = 0
            /\ thrown' = thrown \cup {doubt}
       ELSE /\ written' = written + 1
            /\ UNCHANGED <<pc, doubt, thrown>>
  /\ UNCHANGED <<disk, iteration, db, acked, reused, crashes>>

WriteFlush ==
  /\ pc = "commit" /\ written = Len(Group[doubt]) /\ pc' = "sync"
  /\ buffer' = Append(buffer, Flush)
  /\ UNCHANGED <<disk, iteration, db, written, doubt, history>>

\* fflush and fsync
FileSync ==
  /\ pc = "sync" /\ pc' = "return"
  /\ wal' = [wal EXCEPT ![iteration] = @ \o buffer]
  /\ buffer' = <<>>
  /\ UNCHANGED <<meta, data, iteration, db, written, doubt, history>>

\* The transaction is in the database, and its client knows.
CommitReturns ==
  /\ pc = "return" /\ pc' = "open"
  /\ db' = db \o GroupEntries(doubt)
  /\ acked' = acked \o GroupEntries(doubt)
  /\ doubt' = None /\ written' = 0
  /\ UNCHANGED <<disk, iteration, buffer, thrown, reused, retried, crashes>>

\* stdio writes its buffer whenever it is full.
Spill ==
  /\ buffer # <<>>
  /\ wal' = [wal EXCEPT ![iteration] = Append(@, Head(buffer))]
  /\ buffer' = Tail(buffer)
  /\ UNCHANGED <<meta, data, pc, iteration, db, written, doubt, history>>

-----------------------------------------------------------------------------
(* The end of the process.                                                  *)

Stop ==
  /\ pc' = "closed"
  /\ iteration' = 0 /\ db' = <<>> /\ buffer' = <<>> /\ written' = 0

\* The destructors: fclose writes the buffer.
Close ==
  /\ pc = "open"
  /\ wal' = [wal EXCEPT ![iteration] = @ \o buffer]
  /\ Stop
  /\ UNCHANGED <<meta, data, doubt, history>>

\* A crash, which may cut a write to the log in the middle of a record.
Crash ==
  /\ pc # "closed" /\ crashes < MaxCrashes
  /\ crashes' = crashes + 1
  /\ \/ UNCHANGED wal
     \/ /\ buffer # <<>>
        /\ wal' = [wal EXCEPT ![iteration] = Append(@, Torn)]
  /\ Stop
  /\ UNCHANGED <<meta, data, doubt, acked, thrown, reused, retried>>

Recover ==
  \/ LoadFromStorage \/ Replay
  \/ RemoveLeftover \/ CreateDirectory \/ WriteData \/ MoveMeta
  \/ RemoveOldData \/ RemoveOldLog \/ Initialize

StorageNext ==
  \/ Recover
  \/ \E t \in Txn : BeginCommit(t)
  \/ WriteEntry \/ WriteFlush \/ FileSync \/ CommitReturns \/ Spill
  \/ Close \/ Crash

\* LoadDatabase runs straight through, and the client opens its database again.
StorageSpec == StorageInit /\ [][StorageNext]_vars /\ WF_vars(Recover)

-----------------------------------------------------------------------------
(* Properties.                                                              *)

Phases == {"closed", "replay", "remove leftover", "create directory", "write data",
           "move meta", "remove old data", "remove old log", "initialize", "open",
           "commit", "sync", "return"}

\* Every variable holds values of its type.
StorageTypeOK ==
  /\ meta \in {NoFile, 0, 1}
  /\ data \in [{0, 1} -> Contents \cup {NoFile, Partial}]
  /\ wal \in [{0, 1} -> Log \cup {NoFile}]
  /\ pc \in Phases
  /\ iteration \in {0, 1}
  /\ db \in Contents /\ buffer \in Contents /\ acked \in Contents
  /\ written \in Nat /\ crashes \in 0..MaxCrashes
  /\ doubt \in Txn \cup {None} /\ thrown \subseteq Txn
  /\ reused \in BOOLEAN /\ retried \in BOOLEAN

\* meta.info only ever names a data directory that is completely written: a
\* crash in CreateCheckpoint never leaves half a checkpoint as the database
\* (storage_manager.cpp:321-335).
CheckpointComplete == meta # NoFile => data[meta] \notin {NoFile, Partial}

\* What the next start of the database would find.
Recovered ==
  IF wal[LoadedIteration] = NoFile THEN Loaded
    ELSE Loaded \o Replayed(Loaded, wal[LoadedIteration])

\* The entries of transactions whose commit did not throw.  The records of one
\* that threw stay in the log and are replayed with the next transaction: a
\* restart may find them too, although the transaction was rolled back.
Counts(e) == e.txn \notin thrown \cup {None} /\ Kind(e) # "failed"

\* The entries of s that count, and which of them comes after which: an entry
\* that is there twice comes after itself.
Committed(s) ==
  LET C == {i \in 1..Len(s) : Counts(s[i])}
  IN  [entries |-> {s[i] : i \in C},
       order   |-> {<<s[p[1]], s[p[2]]>> : p \in {q \in C \X C : q[1] < q[2]}}]

\* The log "is used to provide durability ... can then be replayed upon startup
\* in case the server crashes or is shut down" (write_ahead_log.hpp:55-58): at
\* every moment the log replays, and a restart finds all committed transactions,
\* each once and in order, with all of the one that commits at this moment or
\* with nothing of it.  Besides them it finds at most records of commits that
\* threw (undo_buffer.cpp:108), see RecoversOnlyCommitted.
RecoverableAlways ==
  /\ wal[LoadedIteration] # NoFile => ~ReplayThrows(Loaded, wal[LoadedIteration])
  /\ \/ Committed(Recovered) = Committed(acked)
     \/ doubt # None /\ Committed(Recovered) = Committed(acked \o GroupEntries(doubt))

\* Two events after which the log does not replay: a checkpoint moved to an
\* iteration with a log that an earlier crash in CreateCheckpoint left behind
\* (storage_manager.cpp:335-346), or a commit made again a table, an index or a
\* key that a commit that threw has left in the log (undo_buffer.cpp:108).
Spoiled == reused \/ retried

\* RecoverableAlways, until one of these two events.
Recoverable == ~Spoiled => RecoverableAlways

\* Of the transactions whose commit did not throw, an open database contains
\* the committed ones, each once and in order, after every restart, whether
\* loaded from a checkpoint or replayed from the log.
RestartKeepsCommitted ==
  ~Spoiled /\ pc \in {"open", "commit", "sync", "return"} => Committed(db) = Committed(acked)

\* What a restart would find only grows, and by whole transactions: no step of
\* a recovery, no second crash inside a recovery and no later commit takes back
\* what was once recoverable (CreateCheckpoint, WriteAheadLog::Flush).
NeverForgets ==
  [][~Spoiled' => \/ Committed(Recovered)' = Committed(Recovered)
                  \/ \E t \in Txn : Committed(Recovered)' = Committed(Recovered \o GroupEntries(t))]_vars

\* A closed database can be opened again, after any crashes, unless one of the
\* two events has spoilt the log (LoadDatabase, WriteAheadLog::Replay).
Reopens == pc = "closed" ~> (pc = "open" \/ Spoiled)

\* A restart finds nothing of a transaction that was rolled back because its
\* commit threw.  The records written before the exception break this: the next
\* transaction's WAL_FLUSH covers them (undo_buffer.cpp:108, write_ahead_log.cpp:62).
RecoversOnlyCommitted ==
  ~Spoiled => \A i \in 1..Len(Recovered) : Recovered[i].txn \notin thrown

\* What a rolled back transaction made can be made again, without harm to what
\* a restart finds.  The records it left in the log break this too: with them a
\* key or an index is there twice, and the replay ends before that group; a
\* table is there twice, and the replay throws.
RetryIsHarmless == ~reused => RecoverableAlways
=============================================================================
