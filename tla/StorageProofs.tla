---------------------------- MODULE StorageProofs ----------------------------
(***************************************************************************)
(* Durability, for any transactions, any log entries and any number of     *)
(* crashes.  Recovery never reads a checkpoint that is not complete, and a *)
(* restart finds the committed transactions at every moment, until a       *)
(* checkpoint meets an old log or a commit makes again what a commit that  *)
(* threw has left in the log.                                              *)
(*                                                                         *)
(* The first invariant, StorageInv, has the types and says which files the *)
(* process may touch where it is.  The second, Durable, follows a commit   *)
(* from its first entry in the buffer of stdio to its WAL_FLUSH in the     *)
(* log: behind the last WAL_FLUSH of the log, and in the buffer, are the   *)
(* first entries of the transaction in doubt and entries that do not       *)
(* count, and nothing stops a replay of the log before its end.            *)
(***************************************************************************)
EXTENDS Storage, SequenceTheorems, WellFoundedInduction, TLAPS

\* Where the process is decides which directory it may write and which log it
\* may append to.
Progress ==
  /\ pc = "replay" => iteration = LoadedIteration /\ wal[iteration] # NoFile
  /\ pc \in {"remove leftover", "create directory", "write data", "move meta"} => meta # iteration
  /\ pc = "move meta" => data[iteration] = db
  /\ pc = "remove old data" => meta = iteration
  /\ pc \in {"open", "commit", "sync", "return"} => wal[iteration] # NoFile
  /\ pc \in {"commit", "sync", "return"} => doubt \in Txn
  /\ buffer # <<>> => pc \in {"open", "commit", "sync"}

StorageInv == StorageTypeOK /\ CheckpointComplete /\ Progress

-----------------------------------------------------------------------------
(* Replaying a log.                                                         *)

\* A nonempty set of numbers below a bound has a largest element.
LEMMA LargestBelow ==
  ASSUME NEW n \in Nat, NEW S \in SUBSET (0..n), S # {}
  PROVE  \E x \in S : \A y \in S : y <= x
<1> DEFINE T == {n - x : x \in S}
           R == OpToRel(<, Nat)
<1>1. IsWellFoundedOn(R, Nat)
  BY NatLessThanWellFounded, Zenon
<1>0. \A x \in S : n - x \in Nat
  OBVIOUS
<1>2. T \subseteq Nat /\ T # {}
  BY <1>0, Zenon
<1> HIDE DEF R
<1>3. PICK m \in T : \A k \in T : ~(<<k, m>> \in R)
  BY <1>1, <1>2, WFMin, Zenon
<1>4. \A k \in T : ~(k < m)
  BY <1>2, <1>3, Zenon DEF R, OpToRel
<1>5. PICK x \in S : m = n - x
  BY Zenon
<1>6. \A y \in S : n - y \in T
  BY Zenon
<1> HIDE DEF T
<1>7. \A y \in S : ~(n - y < n - x)
  BY <1>4, <1>5, <1>6, Zenon
<1>8. \A y \in S : y \in Nat /\ x \in Nat
  OBVIOUS
<1>9. \A y \in S : y <= x
  BY <1>7, <1>8
<1> QED BY <1>9, Zenon

\* The point where WriteAheadLog::Replay stops exists: it is the start of the
\* log or the last WAL_FLUSH whose transaction applies.
LEMMA ReplayEndExists ==
  ASSUME NEW before, NEW log, Len(log) \in Nat
  PROVE  LET n == ReplayEnd(before, log)
         IN  /\ n \in 0..Len(log)
             /\ n = 0 \/ Applies(before, log, n)
             /\ \A f \in (n + 1)..Len(log) : ~Applies(before, log, f)
<1> DEFINE S == {n \in 0..Len(log) : n = 0 \/ Applies(before, log, n)}
<1>1. 0 \in S /\ S \in SUBSET (0..Len(log))
  OBVIOUS
<1>2. PICK x \in S : \A y \in S : y <= x
  BY <1>1, LargestBelow, Zenon
<1>3. /\ x \in 0..Len(log)
      /\ x = 0 \/ Applies(before, log, x)
      /\ \A f \in (x + 1)..Len(log) : ~Applies(before, log, f)
  BY <1>2
<1> QED BY <1>3, Zenon DEF ReplayEnd

\* What a replay adds to the database are entries and flushes, never a record
\* that was cut short.
LEMMA ReplayedType ==
  ASSUME NEW before, NEW log \in Log
  PROVE  Replayed(before, log) \in Contents
<1> DEFINE n == ReplayEnd(before, log)
<1>1. Len(log) \in Nat
  BY DEF Log
<1>2. n \in 0..Len(log) /\ (n = 0 \/ Applies(before, log, n))
  BY <1>1, ReplayEndExists, Zenon
<1> HIDE DEF n
<1>3. \A i \in 1..n : log[i] \in Entry \cup {Flush}
  <2> SUFFICES ASSUME NEW i \in 1..n PROVE log[i] \in Entry \cup {Flush}
    BY Zenon
  <2>1. log[i] \in Entry \cup {Flush, Torn}
    BY <1>1, <1>2 DEF Log
  <2>2. Replays(before, log, i)
    BY <1>2 DEF Applies
  <2>3. log[i] # Torn
    BY <2>2 DEF Replays, Flush, Torn
  <2> QED BY <2>1, <2>3, Zenon
<1>4. SubSeq(log, 1, n) \in Seq(Entry \cup {Flush})
  BY <1>1, <1>2, <1>3, SubSeqProperties
<1> QED BY <1>4, Zenon DEF Replayed, Contents, n

\* The entries of a transaction are entries of the log.
LEMMA GroupEntriesType ==
  ASSUME NEW t \in Txn
  PROVE  GroupEntries(t) \in Contents
<1>1. Len(Group[t]) \in Nat
  BY StorageAssumption
<1>2. \A i \in 1..Len(Group[t]) : [txn |-> t, n |-> i] \in Entry
  BY <1>1 DEF Entry
<1> QED BY <1>1, <1>2 DEF GroupEntries, Contents

\* The iterations alternate (LoadDatabase).
LEMMA OtherIteration ==
  ASSUME NEW i \in {0, 1}
  PROVE  1 - i \in {0, 1} /\ 1 - i # i
OBVIOUS

\* Appending to the log that is open.
LEMMA Extended ==
  ASSUME NEW s \in Log, StorageTypeOK, wal[iteration] # NoFile,
         wal' = [wal EXCEPT ![iteration] = @ \o s]
  PROVE  wal' \in [{0, 1} -> Log \cup {NoFile}] /\ wal'[iteration] # NoFile
<1>1. iteration \in {0, 1} /\ wal[iteration] \in Log
  BY Zenon DEF StorageTypeOK
<1>2. wal[iteration] \o s \in Log
  BY <1>1, ConcatProperties, Zenon DEF Log
<1>3. wal[iteration] \o s # NoFile
  BY <1>2, StorageAssumption, Zenon
<1>4. wal \in [{0, 1} -> Log \cup {NoFile}]
  BY Zenon DEF StorageTypeOK
<1> QED BY <1>1, <1>2, <1>3, <1>4, Zenon

\* What the process loads is a complete database.
LEMMA LoadedType ==
  ASSUME StorageTypeOK, CheckpointComplete
  PROVE  Loaded \in Contents /\ LoadedIteration \in {0, 1}
BY StorageAssumption DEF StorageTypeOK, CheckpointComplete, Loaded, LoadedIteration, Contents

-----------------------------------------------------------------------------
(* The invariant.                                                           *)

\* A directory without a database satisfies the invariant.
LEMMA InitInv == StorageInit => StorageInv
<1> SUFFICES ASSUME StorageInit PROVE StorageInv
  BY Zenon
<1>1. <<>> \in Contents
  BY DEF Contents
<1>2. StorageTypeOK
  <2>1. data \in [{0, 1} -> Contents \cup {NoFile, Partial}]
    BY Zenon DEF StorageInit
  <2>2. wal \in [{0, 1} -> Log \cup {NoFile}]
    BY Zenon DEF StorageInit
  <2>3. written \in Nat /\ crashes \in 0..MaxCrashes
    BY StorageAssumption DEF StorageInit
  <2>4. pc \in Phases /\ reused \in BOOLEAN /\ retried \in BOOLEAN
    BY Zenon DEF StorageInit, Phases
  <2> QED BY <1>1, <2>1, <2>2, <2>3, <2>4, Zenon DEF StorageInit, StorageTypeOK
<1>3. CheckpointComplete /\ Progress
  BY Zenon DEF StorageInit, CheckpointComplete, Progress
<1> QED BY <1>2, <1>3, Zenon DEF StorageInv

\* Loading and replaying change the memory only.
LEMMA LoadStep ==
  ASSUME StorageInv, LoadFromStorage
  PROVE  StorageInv'
<1>1. Loaded \in Contents /\ LoadedIteration \in {0, 1}
  BY LoadedType, Zenon DEF StorageInv
<1>2. StorageTypeOK'
  BY <1>1, Zenon DEF StorageInv, StorageTypeOK, LoadFromStorage, disk, history, Phases
<1>3. CheckpointComplete'
  BY Zenon DEF StorageInv, CheckpointComplete, LoadFromStorage, disk
<1>4. Progress'
  BY Zenon DEF StorageInv, Progress, LoadFromStorage, disk, LoadedIteration
<1> QED BY <1>2, <1>3, <1>4, Zenon DEF StorageInv

\* Replaying a log leaves a database to be checkpointed into the other directory.
LEMMA ReplayStep ==
  ASSUME StorageInv, Replay
  PROVE  StorageInv'
<1>1. wal[iteration] \in Log
  BY Zenon DEF StorageInv, StorageTypeOK, Progress, Replay
<1>2. Replayed(db, wal[iteration]) \in Contents
  BY <1>1, ReplayedType, Zenon
<1>3. db \o Replayed(db, wal[iteration]) \in Contents
  BY <1>2, ConcatProperties, Zenon DEF StorageInv, StorageTypeOK, Contents
<1>4. <<>> \in Contents
  BY DEF Contents
<1>5. CASE ReplayFails(db, wal[iteration])
  BY <1>4, <1>5, StorageAssumption, Zenon
    DEF StorageInv, StorageTypeOK, CheckpointComplete, Progress, Replay, disk, history, Phases
<1>6. CASE ~ReplayFails(db, wal[iteration])
  <2> DEFINE longer == db \o Replayed(db, wal[iteration])
  <2>1. /\ longer \in Contents /\ db' = longer
        /\ pc = "replay" /\ pc' = "remove leftover"
        /\ iteration' = 1 - iteration
        /\ UNCHANGED <<disk, buffer, written, doubt, history>>
    BY <1>3, <1>6, Zenon DEF Replay, NextIteration
  <2> HIDE DEF longer
  <2>2. iteration \in {0, 1} /\ iteration' \in {0, 1} /\ iteration # iteration'
    BY <2>1, OtherIteration, Zenon DEF StorageInv, StorageTypeOK
  <2>3. StorageTypeOK'
    BY <2>1, <2>2, Zenon DEF StorageInv, StorageTypeOK, disk, history, Phases
  <2>4. CheckpointComplete'
    BY <2>1, Zenon DEF StorageInv, CheckpointComplete, disk
  <2>5. meta' # iteration'
    BY <2>1, <2>2, StorageAssumption, Zenon DEF StorageInv, Progress, LoadedIteration, disk
  <2>6. Progress'
    BY <2>1, <2>5, Zenon DEF StorageInv, Progress
  <2> QED BY <2>3, <2>4, <2>6, Zenon DEF StorageInv
<1> QED BY <1>5, <1>6, Zenon

\* CreateCheckpoint writes the directory that meta.info does not name, and
\* meta.info moves when the directory is complete.
LEMMA CheckpointStep ==
  ASSUME StorageInv,
         RemoveLeftover \/ CreateDirectory \/ WriteData \/ MoveMeta \/ RemoveOldData \/ RemoveOldLog
  PROVE  StorageInv'
<1> USE StorageAssumption DEF StorageInv, StorageTypeOK, CheckpointComplete, Progress,
      memory, history, Phases
<1>1. CASE RemoveLeftover
  BY <1>1, Zenon DEF RemoveLeftover
<1>2. CASE CreateDirectory
  BY <1>2, Zenon DEF CreateDirectory
<1>3. CASE WriteData
  BY <1>3, Zenon DEF WriteData
<1>4. CASE MoveMeta
  <2>1. reused' \in BOOLEAN
    BY <1>4, Zenon DEF MoveMeta
  <2>2. data[iteration] \notin {NoFile, Partial}
    BY <1>4, Zenon DEF MoveMeta
  <2>3. StorageTypeOK'
    BY <1>4, <2>1, Zenon DEF MoveMeta
  <2>4. CheckpointComplete'
    BY <1>4, <2>2, Zenon DEF MoveMeta
  <2>5. Progress'
    BY <1>4, Zenon DEF MoveMeta
  <2> QED BY <2>3, <2>4, <2>5, Zenon
<1>5. CASE RemoveOldData
  <2>0. iteration \in {0, 1}
    BY <1>5, Zenon
  <2>1. 1 - iteration # iteration
    BY <2>0, OtherIteration, Zenon
  <2>2. data' = [data EXCEPT ![1 - iteration] = NoFile] /\ meta' = meta /\ meta = iteration
    BY <1>5, Zenon DEF RemoveOldData
  <2>3. data'[iteration] = data[iteration]
    BY <2>0, <2>1, <2>2, Zenon
  <2>4. StorageTypeOK'
    BY <1>5, Zenon DEF RemoveOldData
  <2>5. CheckpointComplete'
    BY <2>2, <2>3, Zenon
  <2>6. Progress'
    BY <1>5, Zenon DEF RemoveOldData
  <2> QED BY <2>4, <2>5, <2>6, Zenon
<1>6. CASE RemoveOldLog
  BY <1>6, Zenon DEF RemoveOldLog
<1> QED BY <1>1, <1>2, <1>3, <1>4, <1>5, <1>6, Zenon

\* Opening the log and everything up to the commit leave the checkpoint alone.
LEMMA InitializeStep ==
  ASSUME StorageInv, Initialize
  PROVE  StorageInv'
<1>1. acked' \in Contents
  <2>1. doubt # None => GroupEntries(doubt) \in Contents
    BY GroupEntriesType, Zenon DEF StorageInv, StorageTypeOK
  <2>2. CASE Survived
    BY <2>1, <2>2, ConcatProperties, Zenon DEF Initialize, Survived, StorageInv, StorageTypeOK, Contents
  <2>3. CASE ~Survived
    BY <2>3, Zenon DEF Initialize, StorageInv, StorageTypeOK
  <2> QED BY <2>2, <2>3, Zenon
<1>2. /\ wal' \in [{0, 1} -> Log \cup {NoFile}]
      /\ wal'[iteration] # NoFile
  <2>1. <<>> \in Contents /\ <<>> \in Log
    BY DEF Contents, Log
  <2>2. <<>> # NoFile
    BY <2>1, StorageAssumption, Zenon
  <2> QED BY <2>1, <2>2, Zenon DEF Initialize, StorageInv, StorageTypeOK
<1>3. StorageTypeOK'
  BY <1>1, <1>2, Zenon DEF Initialize, StorageInv, StorageTypeOK, memory, Phases
<1>4. CheckpointComplete'
  BY Zenon DEF Initialize, StorageInv, CheckpointComplete
<1>5. Progress'
  BY <1>2, Zenon DEF Initialize, StorageInv, Progress, memory
<1> QED BY <1>3, <1>4, <1>5, Zenon DEF StorageInv

\* A commit adds entries to the buffer and then the buffer to the log.
LEMMA CommitStep ==
  ASSUME StorageInv,
         (\E t \in Txn : BeginCommit(t)) \/ WriteEntry \/ WriteFlush \/ FileSync \/ CommitReturns
  PROVE  StorageInv'
<1> USE DEF StorageInv
<1>1. CASE \E t \in Txn : BeginCommit(t)
  BY <1>1, Zenon DEF BeginCommit, StorageTypeOK, CheckpointComplete, Progress, disk, memory, history, Phases
<1>2. CASE WriteEntry
  <2>1. doubt \in Txn /\ written \in Nat /\ buffer \in Seq(Entry \cup {Flush})
    BY <1>2, Zenon DEF WriteEntry, Progress, StorageTypeOK, Contents
  <2>2. [txn |-> doubt, n |-> written + 1] \in Entry
    BY <2>1 DEF Entry
  <2>3. buffer' \in Contents
    BY <1>2, <2>1, <2>2 DEF WriteEntry, Contents
  <2>4. /\ pc' \in {"open", "commit"} /\ doubt' \in Txn \cup {None} /\ thrown' \subseteq Txn
        /\ written' \in Nat /\ (pc' = "commit" => doubt' = doubt)
    BY <1>2, <2>1 DEF WriteEntry, StorageTypeOK
  <2>5. UNCHANGED <<meta, data, wal, iteration, db, acked, reused, crashes>> /\ pc = "commit"
    BY <1>2, Zenon DEF WriteEntry, disk
  <2>8. retried' \in BOOLEAN
    BY <1>2, Zenon DEF WriteEntry, StorageTypeOK
  <2>6. StorageTypeOK'
    BY <2>3, <2>4, <2>5, <2>8, Zenon DEF StorageTypeOK, Phases
  <2>7. CheckpointComplete' /\ Progress'
    BY <2>1, <2>4, <2>5, Zenon DEF CheckpointComplete, Progress
  <2> QED BY <2>6, <2>7, Zenon
<1>3. CASE WriteFlush
  <2>1. buffer' \in Contents
    BY <1>3 DEF WriteFlush, StorageTypeOK, Contents
  <2> QED BY <1>3, <2>1, Zenon DEF WriteFlush, StorageTypeOK, CheckpointComplete, Progress, disk, history, Phases
<1>4. CASE FileSync
  <2>1. buffer \in Log /\ <<>> \in Contents
    BY DEF StorageTypeOK, Contents, Log
  <2>2. wal' \in [{0, 1} -> Log \cup {NoFile}] /\ wal'[iteration] # NoFile
    BY <1>4, <2>1, Extended, Zenon DEF FileSync, Progress
  <2>3. StorageTypeOK'
    BY <1>4, <2>1, <2>2, Zenon DEF FileSync, StorageTypeOK, history, Phases
  <2>4. CheckpointComplete' /\ Progress'
    BY <1>4, <2>2, Zenon DEF FileSync, CheckpointComplete, Progress
  <2> QED BY <2>3, <2>4, Zenon
<1>5. CASE CommitReturns
  <2>1. GroupEntries(doubt) \in Contents
    BY <1>5, GroupEntriesType, Zenon DEF CommitReturns, Progress
  <2>2. db' \in Contents /\ acked' \in Contents
    BY <1>5, <2>1, ConcatProperties, Zenon DEF CommitReturns, StorageTypeOK, Contents
  <2>3. StorageTypeOK'
    BY <1>5, <2>2, Zenon DEF CommitReturns, StorageTypeOK, disk, Phases
  <2>4. CheckpointComplete' /\ Progress'
    BY <1>5, Zenon DEF CommitReturns, CheckpointComplete, Progress, disk
  <2> QED BY <2>3, <2>4, Zenon
<1> QED BY <1>1, <1>2, <1>3, <1>4, <1>5, Zenon

\* The buffer reaches the log on its own, at the end, or in part.
LEMMA OutsideStep ==
  ASSUME StorageInv, Spill \/ Close \/ Crash
  PROVE  StorageInv'
<1> USE DEF StorageInv
<1>0. <<>> \in Contents /\ buffer \in Log /\ buffer \in Contents
  BY DEF StorageTypeOK, Contents, Log
<1>1. CASE Spill
  <2>1. Head(buffer) \in Entry \cup {Flush} /\ Tail(buffer) \in Contents
    BY <1>0, <1>1, HeadTailProperties, Zenon DEF Spill, Contents
  <2>3. wal[iteration] # NoFile /\ wal[iteration] \in Log /\ iteration \in {0, 1}
    BY <1>1, Zenon DEF Spill, Progress, StorageTypeOK
  <2>4. Append(wal[iteration], Head(buffer)) \in Log
    BY <2>1, <2>3 DEF Log
  <2>5. wal' \in [{0, 1} -> Log \cup {NoFile}] /\ wal'[iteration] # NoFile
    BY <1>1, <2>3, <2>4, StorageAssumption, Zenon DEF Spill, StorageTypeOK
  <2>6. StorageTypeOK'
    BY <1>1, <2>1, <2>5, Zenon DEF Spill, StorageTypeOK, history
  <2>7. CheckpointComplete' /\ Progress'
    BY <1>1, <2>5, Zenon DEF Spill, CheckpointComplete, Progress, LoadedIteration
  <2> QED BY <2>6, <2>7, Zenon
<1>2. CASE Close
  <2>1. wal' \in [{0, 1} -> Log \cup {NoFile}]
    BY <1>0, <1>2, Extended, Zenon DEF Close, Progress
  <2>2. StorageTypeOK'
    BY <1>0, <1>2, <2>1, Zenon DEF Close, Stop, StorageTypeOK, history, Phases
  <2>3. CheckpointComplete' /\ Progress'
    BY <1>2, Zenon DEF Close, Stop, CheckpointComplete, Progress
  <2> QED BY <2>2, <2>3, Zenon
<1>3. CASE Crash
  <2>1. wal' \in [{0, 1} -> Log \cup {NoFile}]
    <3>1. CASE UNCHANGED wal
      BY <3>1, Zenon DEF StorageTypeOK
    <3>2. CASE buffer # <<>> /\ wal' = [wal EXCEPT ![iteration] = Append(@, Torn)]
      <4>1. wal[iteration] \in Log /\ iteration \in {0, 1}
        BY <3>2, Zenon DEF Progress, StorageTypeOK
      <4>2. Append(wal[iteration], Torn) \in Log
        BY <4>1 DEF Log
      <4> QED BY <3>2, <4>1, <4>2, Zenon DEF StorageTypeOK
    <3> QED BY <1>3, <3>1, <3>2, Zenon DEF Crash
  <2>2. crashes' \in 0..MaxCrashes
    BY <1>3, StorageAssumption DEF Crash, StorageTypeOK
  <2>3. StorageTypeOK'
    BY <1>0, <1>3, <2>1, <2>2, Zenon DEF Crash, Stop, StorageTypeOK, Phases
  <2>4. CheckpointComplete' /\ Progress'
    BY <1>3, Zenon DEF Crash, Stop, CheckpointComplete, Progress
  <2> QED BY <2>3, <2>4, Zenon
<1> QED BY <1>1, <1>2, <1>3, Zenon

\* Every step of the process, of stdio and every crash preserves the invariant.
LEMMA NextInv == StorageInv /\ [StorageNext]_vars => StorageInv'
<1> SUFFICES ASSUME StorageInv, [StorageNext]_vars PROVE StorageInv'
  BY Zenon
<1>1. CASE Recover
  BY <1>1, LoadStep, ReplayStep, CheckpointStep, InitializeStep, Zenon DEF Recover
<1>2. CASE (\E t \in Txn : BeginCommit(t)) \/ WriteEntry \/ WriteFlush \/ FileSync \/ CommitReturns
  BY <1>2, CommitStep, Zenon
<1>3. CASE Spill \/ Close \/ Crash
  BY <1>3, OutsideStep, Zenon
<1>4. CASE UNCHANGED vars
  <2>1. UNCHANGED <<meta, data, wal, pc, iteration, db, buffer, written, doubt, acked, thrown>>
    BY <1>4, Zenon DEF vars, disk, memory, history
  <2>2. UNCHANGED <<reused, retried, crashes>>
    BY <1>4, Zenon DEF vars, history
  <2>3. StorageTypeOK'
    BY <2>1, <2>2, Zenon DEF StorageInv, StorageTypeOK
  <2>4. CheckpointComplete' /\ Progress'
    BY <2>1, Zenon DEF StorageInv, CheckpointComplete, Progress, LoadedIteration
  <2> QED BY <2>3, <2>4, Zenon DEF StorageInv
<1> QED BY <1>1, <1>2, <1>3, <1>4, Zenon DEF StorageNext

-----------------------------------------------------------------------------
(* The entries that count in a sequence of records, and their order.        *)

\* What Committed selects when the commits of the transactions in T threw.
CountsWithout(T, e) == e.txn \notin T \cup {None} /\ Kind(e) # "failed"
Counted(T, s) == {i \in 1..Len(s) : CountsWithout(T, s[i])}
EntriesOf(T, s) == {s[i] : i \in Counted(T, s)}
OrderOf(T, s) ==
  {<<s[p[1]], s[p[2]]>> : p \in {q \in Counted(T, s) \X Counted(T, s) : q[1] < q[2]}}
Same(T, s, t) == EntriesOf(T, s) = EntriesOf(T, t) /\ OrderOf(T, s) = OrderOf(T, t)

\* Two sequences have the same committed entries when the entries that count and
\* their order are the same.
LEMMA CommittedSame ==
  ASSUME NEW s, NEW t
  PROVE  Committed(s) = Committed(t) <=> Same(thrown, s, t)
<1>1. /\ Committed(s) = [entries |-> EntriesOf(thrown, s), order |-> OrderOf(thrown, s)]
      /\ Committed(t) = [entries |-> EntriesOf(thrown, t), order |-> OrderOf(thrown, t)]
  BY Zenon DEF Committed, EntriesOf, OrderOf, Counted, CountsWithout, Counts
<1> QED BY <1>1 DEF Same

\* The pairs of the order are those of two positions that count.
Paired(T, s) ==
  \A x : x \in OrderOf(T, s) <=> \E i, j \in Counted(T, s) : i < j /\ x = <<s[i], s[j]>>

\* Every sequence is ordered by its positions.
LEMMA OrderPairs ==
  ASSUME NEW T, NEW s
  PROVE  Paired(T, s)
<1> SUFFICES ASSUME NEW x
             PROVE  x \in OrderOf(T, s) <=>
                      \E i, j \in Counted(T, s) : i < j /\ x = <<s[i], s[j]>>
  BY Zenon DEF Paired
<1> DEFINE C == Counted(T, s)
           Q == {q \in C \X C : q[1] < q[2]}
<1>1. OrderOf(T, s) = {<<s[p[1]], s[p[2]]>> : p \in Q}
  BY Zenon DEF OrderOf
<1>2. ASSUME NEW p \in Q, x = <<s[p[1]], s[p[2]]>>
      PROVE  \E i, j \in C : i < j /\ x = <<s[i], s[j]>>
  <2>1. p[1] \in C /\ p[2] \in C /\ p[1] < p[2]
    BY Zenon
  <2> HIDE DEF C, Q
  <2> QED BY <1>2, <2>1, Zenon
<1>3. ASSUME NEW i \in C, NEW j \in C, i < j, x = <<s[i], s[j]>>
      PROVE  \E p \in Q : x = <<s[p[1]], s[p[2]]>>
  <2>1. <<i, j>> \in Q
    BY <1>3, Zenon
  <2> HIDE DEF C, Q
  <2> QED BY <1>3, <2>1, Zenon
<1> HIDE DEF C, Q
<1>4. (x \in {<<s[p[1]], s[p[2]]>> : p \in Q}) <=> \E p \in Q : x = <<s[p[1]], s[p[2]]>>
  BY Zenon
<1>5. (\E p \in Q : x = <<s[p[1]], s[p[2]]>>) <=> \E i, j \in C : i < j /\ x = <<s[i], s[j]>>
  BY <1>2, <1>3, Zenon
<1> QED BY <1>1, <1>4, <1>5, Zenon DEF C

\* The positions of a concatenation that count.
Positioned(T, s, t, u) ==
  /\ \A i \in Counted(T, s) : i \in 1..Len(s) /\ i \in Counted(T, u) /\ u[i] = s[i]
  /\ \A i \in Counted(T, t) :
       i \in 1..Len(t) /\ i + Len(s) \in Counted(T, u) /\ u[i + Len(s)] = t[i]
  /\ \A i \in Counted(T, u) : i \in Nat /\
       \/ i \in Counted(T, s) /\ u[i] = s[i]
       \/ i - Len(s) \in Counted(T, t) /\ i > Len(s) /\ u[i] = t[i - Len(s)]

\* The positions of both parts count as before.
LEMMA CountedConcat ==
  ASSUME NEW T, NEW s \in Log, NEW t \in Log
  PROVE  Positioned(T, s, t, s \o t)
<1>1. /\ Len(s) \in Nat /\ Len(t) \in Nat
      /\ Len(s \o t) = Len(s) + Len(t)
      /\ \A i \in 1..Len(s) + Len(t) : (s \o t)[i] = IF i <= Len(s) THEN s[i] ELSE t[i - Len(s)]
  BY ConcatProperties DEF Log
<1> DEFINE u == s \o t
<1> HIDE DEF u
<1>2. /\ Len(u) = Len(s) + Len(t)
      /\ \A i \in 1..Len(s) + Len(t) : u[i] = IF i <= Len(s) THEN s[i] ELSE t[i - Len(s)]
  BY <1>1, Zenon DEF u
<1>3. ASSUME NEW i \in Counted(T, s)
      PROVE  i \in 1..Len(s) /\ i \in Counted(T, u) /\ u[i] = s[i]
  BY <1>1, <1>2 DEF Counted
<1>4. ASSUME NEW i \in Counted(T, t)
      PROVE  i \in 1..Len(t) /\ i + Len(s) \in Counted(T, u) /\ u[i + Len(s)] = t[i]
  <2>1. i \in 1..Len(t) /\ CountsWithout(T, t[i])
    BY Zenon DEF Counted
  <2>2. i + Len(s) \in 1..Len(u) /\ u[i + Len(s)] = t[i]
    <3>1. /\ i + Len(s) \in 1..Len(s) + Len(t) /\ ~(i + Len(s) <= Len(s))
          /\ (i + Len(s)) - Len(s) = i
      BY <1>1, <2>1
    <3> QED BY <3>1, <1>2
  <2> QED BY <2>1, <2>2, Zenon DEF Counted
<1>5. ASSUME NEW i \in Counted(T, u)
      PROVE  i \in Nat /\
               \/ i \in Counted(T, s) /\ u[i] = s[i]
               \/ i - Len(s) \in Counted(T, t) /\ i > Len(s) /\ u[i] = t[i - Len(s)]
  <2>1. i \in 1..Len(u) /\ CountsWithout(T, u[i])
    BY Zenon DEF Counted
  <2>2. CASE i <= Len(s)
    <3>1. i \in 1..Len(s) /\ u[i] = s[i]
      BY <1>1, <1>2, <2>1, <2>2
    <3> QED BY <2>1, <3>1 DEF Counted
  <2>3. CASE i > Len(s)
    <3>1. i - Len(s) \in 1..Len(t) /\ u[i] = t[i - Len(s)]
      BY <1>1, <1>2, <2>1, <2>3
    <3> QED BY <2>1, <2>3, <3>1 DEF Counted
  <2> QED BY <1>1, <2>1, <2>2, <2>3
<1> QED BY <1>3, <1>4, <1>5, Zenon DEF u, Positioned

\* The entries of a concatenation, and their order.
LEMMA CommittedConcat ==
  ASSUME NEW T, NEW s \in Log, NEW t \in Log
  PROVE  /\ EntriesOf(T, s \o t) = EntriesOf(T, s) \cup EntriesOf(T, t)
         /\ OrderOf(T, s \o t) =
              OrderOf(T, s) \cup OrderOf(T, t) \cup (EntriesOf(T, s) \X EntriesOf(T, t))
<1> DEFINE u == s \o t
           C == Counted(T, s)
           D == Counted(T, t)
           U == Counted(T, u)
           n == Len(s)
<1>1. /\ n \in Nat
      /\ \A i \in C : i \in 1..n /\ i \in U /\ u[i] = s[i]
      /\ \A i \in D : i \in 1..Len(t) /\ i + n \in U /\ u[i + n] = t[i]
      /\ \A i \in U : i \in Nat /\
           \/ i \in C /\ u[i] = s[i]
           \/ i - n \in D /\ i > n /\ u[i] = t[i - n]
  <2>1. Positioned(T, s, t, u)
    BY CountedConcat, Zenon
  <2>2. Len(s) \in Nat
    BY DEF Log
  <2> QED BY <2>1, <2>2, Zenon DEF Positioned
<1>0. Len(t) \in Nat
  BY DEF Log
<1>2. /\ EntriesOf(T, u) = {u[i] : i \in U} /\ EntriesOf(T, s) = {s[i] : i \in C}
      /\ EntriesOf(T, t) = {t[i] : i \in D}
  BY Zenon DEF EntriesOf
<1>3. /\ \A x : x \in OrderOf(T, u) <=> \E i, j \in U : i < j /\ x = <<u[i], u[j]>>
      /\ \A x : x \in OrderOf(T, s) <=> \E i, j \in C : i < j /\ x = <<s[i], s[j]>>
      /\ \A x : x \in OrderOf(T, t) <=> \E i, j \in D : i < j /\ x = <<t[i], t[j]>>
  <2>1. Paired(T, u) /\ Paired(T, s) /\ Paired(T, t)
    BY OrderPairs, Zenon
  <2> QED BY <2>1, Zenon DEF Paired
<1> HIDE DEF u, C, D, U, n
<1>4. EntriesOf(T, u) = EntriesOf(T, s) \cup EntriesOf(T, t)
  BY <1>1, <1>2, Zenon
<1>5. ASSUME NEW x \in OrderOf(T, u)
      PROVE  x \in OrderOf(T, s) \cup OrderOf(T, t) \cup (EntriesOf(T, s) \X EntriesOf(T, t))
  <2>1. PICK i \in U, j \in U : i < j /\ x = <<u[i], u[j]>>
    BY <1>3
  <2>2. CASE i \in C /\ u[i] = s[i] /\ j \in C /\ u[j] = s[j]
    BY <1>3, <2>1, <2>2, Zenon
  <2>3. CASE i \in C /\ u[i] = s[i] /\ j - n \in D /\ u[j] = t[j - n]
    BY <1>2, <2>1, <2>3, Zenon
  <2>4. CASE i - n \in D /\ i > n /\ u[i] = t[i - n] /\ j - n \in D /\ u[j] = t[j - n]
    <3>1. i - n < j - n
      BY <1>1, <2>1
    <3>2. x = <<t[i - n], t[j - n]>>
      BY <2>1, <2>4, Zenon
    <3> QED BY <1>3, <2>4, <3>1, <3>2, Zenon
  <2>5. CASE i > n /\ j \in C
    BY <1>1, <2>1, <2>5
  <2> QED BY <1>1, <2>2, <2>3, <2>4, <2>5, Zenon
<1>6. ASSUME NEW x \in OrderOf(T, s) PROVE x \in OrderOf(T, u)
  BY <1>1, <1>3
<1>7. ASSUME NEW x \in OrderOf(T, t) PROVE x \in OrderOf(T, u)
  <2>1. PICK i \in D, j \in D : i < j /\ x = <<t[i], t[j]>>
    BY <1>3
  <2>2. i + n \in U /\ j + n \in U /\ i + n < j + n /\ x = <<u[i + n], u[j + n]>>
    BY <1>0, <1>1, <2>1
  <2> QED BY <1>3, <2>2, Zenon
<1>8. ASSUME NEW x \in EntriesOf(T, s) \X EntriesOf(T, t) PROVE x \in OrderOf(T, u)
  <2>1. PICK i \in C, j \in D : x = <<s[i], t[j]>>
    BY <1>2
  <2>2. i \in U /\ j + n \in U /\ i < j + n /\ x = <<u[i], u[j + n]>>
    BY <1>0, <1>1, <2>1
  <2> QED BY <1>3, <2>2, Zenon
<1>9. OrderOf(T, u) = OrderOf(T, s) \cup OrderOf(T, t) \cup (EntriesOf(T, s) \X EntriesOf(T, t))
  BY <1>5, <1>6, <1>7, <1>8, Zenon
<1> QED BY <1>4, <1>9, Zenon DEF u

\* Sequences with the same entries stay so when the same is added to them.
LEMMA SameConcat ==
  ASSUME NEW T, NEW s1 \in Log, NEW s2 \in Log, NEW t1 \in Log, NEW t2 \in Log,
         Same(T, s1, s2), Same(T, t1, t2)
  PROVE  Same(T, s1 \o t1, s2 \o t2)
<1>1. /\ EntriesOf(T, s1 \o t1) = EntriesOf(T, s1) \cup EntriesOf(T, t1)
      /\ OrderOf(T, s1 \o t1) =
           OrderOf(T, s1) \cup OrderOf(T, t1) \cup (EntriesOf(T, s1) \X EntriesOf(T, t1))
  BY CommittedConcat
<1>2. /\ EntriesOf(T, s2 \o t2) = EntriesOf(T, s2) \cup EntriesOf(T, t2)
      /\ OrderOf(T, s2 \o t2) =
           OrderOf(T, s2) \cup OrderOf(T, t2) \cup (EntriesOf(T, s2) \X EntriesOf(T, t2))
  BY CommittedConcat
<1> QED BY <1>1, <1>2, Zenon DEF Same

\* A sequence in which nothing counts is as good as none.
LEMMA SameAsNone ==
  ASSUME NEW T, NEW s \in Log,
         \A e \in Range(s) : ~CountsWithout(T, e)
  PROVE  Same(T, s, <<>>)
<1>1. \A i \in 1..Len(s) : s[i] \in Range(s)
  BY RangeEquality, Zenon DEF Log
<1>2. Counted(T, s) = {} /\ Counted(T, <<>>) = {}
  BY <1>1 DEF Counted
<1> QED BY <1>2, Zenon DEF Same, EntriesOf, OrderOf

\* There is no record of a transaction.
NothingOf(t, s) == \A e \in Range(s) : e.txn # t

\* A transaction without records in s makes no difference to it.
LEMMA SameWithout ==
  ASSUME NEW T, NEW d, NEW s \in Log, NothingOf(d, s)
  PROVE  EntriesOf(T \cup {d}, s) = EntriesOf(T, s) /\ OrderOf(T \cup {d}, s) = OrderOf(T, s)
<1>1. \A i \in 1..Len(s) : s[i] \in Range(s)
  BY RangeEquality, Zenon DEF Log
<1>2. Counted(T \cup {d}, s) = Counted(T, s)
  BY <1>1, Zenon DEF Counted, CountsWithout, NothingOf
<1> QED BY <1>2, Zenon DEF EntriesOf, OrderOf

\* A record that counts is an entry of its sequence.
LEMMA RangeCounts ==
  ASSUME NEW T, NEW s \in Log, NEW e \in Range(s), CountsWithout(T, e)
  PROVE  e \in EntriesOf(T, s)
<1>1. PICK i \in 1..Len(s) : e = s[i]
  BY RangeEquality, Zenon DEF Log
<1> QED BY <1>1, Zenon DEF EntriesOf, Counted

-----------------------------------------------------------------------------
(* Replaying a log that grows.                                              *)

\* Logs put together.
LEMMA LogConcat ==
  ASSUME NEW s \in Log, NEW t \in Log
  PROVE  s \o t \in Log /\ Range(s \o t) = Range(s) \cup Range(t)
BY ConcatProperties, RangeConcatenation DEF Log

\* It does not matter in which order.
LEMMA LogAssociative ==
  ASSUME NEW s \in Log, NEW t \in Log, NEW u \in Log
  PROVE  (s \o t) \o u = s \o (t \o u)
BY ConcatAssociative DEF Log

\* No record that is complete stops a replay of the log.
Clean(before, log) == \A i \in 1..Len(log) : log[i] = Torn \/ Replays(before, log, i)

\* What follows a record in the log does not matter when it is replayed.
LEMMA ReplaysPrefix ==
  ASSUME NEW before, NEW log \in Log, NEW s \in Log, NEW i \in 1..Len(log)
  PROVE  (log \o s)[i] = log[i] /\ (Replays(before, log \o s, i) <=> Replays(before, log, i))
<1>1. /\ Len(log) \in Nat /\ Len(s) \in Nat
      /\ Len(log \o s) = Len(log) + Len(s)
      /\ \A j \in 1..Len(log) + Len(s) : (log \o s)[j] = IF j <= Len(log) THEN log[j] ELSE s[j - Len(log)]
  BY ConcatProperties DEF Log
<1>2. (log \o s)[i] = log[i]
  BY <1>1
<1>3. SubSeq(log \o s, 1, i - 1) = SubSeq(log, 1, i - 1)
  <2>1. CASE i = 1
    BY <2>1, SubSeqEmpty
  <2>2. CASE i # 1
    <3>1. 1 \in 1..Len(log) /\ i - 1 \in 1..Len(log)
      BY <1>1, <2>2
    <3> QED BY <3>1, SubSeqOfConcat1, Zenon DEF Log
  <2> QED BY <2>1, <2>2, Zenon
<1> QED BY <1>2, <1>3, Zenon DEF Replays

\* The same for a whole transaction.
LEMMA AppliesPrefix ==
  ASSUME NEW before, NEW log \in Log, NEW s \in Log, NEW f \in 1..Len(log)
  PROVE  Applies(before, log \o s, f) <=> Applies(before, log, f)
<1>1. \A i \in 1..f : i \in 1..Len(log)
  BY DEF Log
<1>2. \A i \in 1..Len(log) :
        (log \o s)[i] = log[i] /\ (Replays(before, log \o s, i) <=> Replays(before, log, i))
  BY ReplaysPrefix, Zenon
<1> QED BY <1>1, <1>2, Zenon DEF Applies

\* Where a replay ends.
LEMMA ReplayEndIs ==
  ASSUME NEW before, NEW log, Len(log) \in Nat, NEW n \in 0..Len(log),
         n = 0 \/ Applies(before, log, n),
         \A f \in (n + 1)..Len(log) : ~Applies(before, log, f)
  PROVE  ReplayEnd(before, log) = n
<1> DEFINE P(m) == /\ m = 0 \/ Applies(before, log, m)
                   /\ \A f \in (m + 1)..Len(log) : ~Applies(before, log, f)
<1>1. P(n)
  BY Zenon
<1>2. ASSUME NEW m \in 0..Len(log), P(m) PROVE m = n
  <2>1. ~(m < n)
    BY <1>2
  <2>2. ~(n < m)
    BY <1>2
  <2> QED BY <2>1, <2>2
<1>3. ReplayEnd(before, log) = CHOOSE m \in 0..Len(log) : P(m)
  BY Zenon DEF ReplayEnd
<1> HIDE DEF P
<1> QED BY <1>1, <1>2, <1>3, Zenon

\* Records without a WAL_FLUSH behind them are not replayed.
LEMMA ReplayGrows ==
  ASSUME NEW before, NEW log \in Log, NEW s \in Log, Flush \notin Range(s)
  PROVE  /\ ReplayEnd(before, log \o s) = ReplayEnd(before, log)
         /\ Replayed(before, log \o s) = Replayed(before, log)
<1> DEFINE n == ReplayEnd(before, log)
<1>1. /\ Len(log) \in Nat /\ Len(s) \in Nat
      /\ Len(log \o s) = Len(log) + Len(s)
      /\ \A j \in 1..Len(log) + Len(s) : (log \o s)[j] = IF j <= Len(log) THEN log[j] ELSE s[j - Len(log)]
  BY ConcatProperties DEF Log
<1>2. /\ n \in 0..Len(log) /\ (n = 0 \/ Applies(before, log, n))
      /\ \A f \in (n + 1)..Len(log) : ~Applies(before, log, f)
  BY <1>1, ReplayEndExists, Zenon
<1> HIDE DEF n
<1>3. \A f \in 1..Len(log) : Applies(before, log \o s, f) <=> Applies(before, log, f)
  BY AppliesPrefix, Zenon
<1>4. ASSUME NEW f \in (Len(log) + 1)..Len(log \o s) PROVE ~Applies(before, log \o s, f)
  <2>1. f - Len(log) \in 1..Len(s) /\ (log \o s)[f] = s[f - Len(log)]
    BY <1>1
  <2>2. s[f - Len(log)] \in Range(s)
    BY <2>1, RangeEquality, Zenon DEF Log
  <2> QED BY <2>1, <2>2, Zenon DEF Applies
<1>5. /\ n \in 0..Len(log \o s) /\ (n = 0 \/ Applies(before, log \o s, n))
      /\ \A f \in (n + 1)..Len(log \o s) : ~Applies(before, log \o s, f)
  BY <1>1, <1>2, <1>3, <1>4
<1>6. ReplayEnd(before, log \o s) = n
  <2> DEFINE longer == log \o s
  <2>1. Len(longer) \in Nat
    BY <1>1
  <2> HIDE DEF longer
  <2>2. /\ n \in 0..Len(longer) /\ (n = 0 \/ Applies(before, longer, n))
        /\ \A f \in (n + 1)..Len(longer) : ~Applies(before, longer, f)
    BY <1>5, Zenon DEF longer
  <2>3. ReplayEnd(before, longer) = n
    BY <2>1, <2>2, ReplayEndIs, Zenon
  <2> QED BY <2>3, Zenon DEF longer
<1>7. SubSeq(log \o s, 1, n) = SubSeq(log, 1, n)
  <2>1. CASE n = 0
    BY <2>1, SubSeqEmpty
  <2>2. CASE n # 0
    <3>1. 1 \in 1..Len(log) /\ n \in 1..Len(log)
      BY <1>1, <1>2, <2>2
    <3> QED BY <3>1, SubSeqOfConcat1, Zenon DEF Log
  <2> QED BY <2>1, <2>2, Zenon
<1> QED BY <1>6, <1>7, Zenon DEF Replayed, n

\* A clean log that ends with a WAL_FLUSH is replayed completely.
LEMMA ReplaysAll ==
  ASSUME NEW before, NEW log \in Log, log # <<>>, log[Len(log)] = Flush,
         Clean(before, log), Torn \notin Range(log)
  PROVE  ReplayEnd(before, log) = Len(log) /\ Replayed(before, log) = log
<1>1. Len(log) \in Nat \ {0} /\ \A i \in 1..Len(log) : log[i] \in Range(log)
  BY EmptySeq, RangeEquality, Zenon DEF Log
<1>2. Applies(before, log, Len(log))
  BY <1>1, Zenon DEF Applies, Clean
<1>3. ReplayEnd(before, log) = Len(log)
  BY <1>1, <1>2, ReplayEndIs
<1>4. SubSeq(log, 1, Len(log)) = log
  BY SubSeqFull, Zenon DEF Log
<1> QED BY <1>3, <1>4, Zenon DEF Replayed

\* An empty log adds nothing.
LEMMA ReplaysNothing ==
  ASSUME NEW before
  PROVE  ReplayEnd(before, <<>>) = 0 /\ Replayed(before, <<>>) = <<>>
<1>1. Len(<<>>) = 0 /\ Len(<<>>) \in Nat
  BY Zenon
<1>2. ReplayEnd(before, <<>>) = 0
  BY <1>1, ReplayEndIs
<1> QED BY <1>2, SubSeqEmpty DEF Replayed

\* A clean log does not make the replay throw.
LEMMA CleanThrowsNot ==
  ASSUME NEW before, NEW log \in Log, Clean(before, log)
  PROVE  ~ReplayThrows(before, log)
<1>1. \A i, f \in 1..Len(log) : i < f => i \in 1..f
  BY DEF Log
<1> QED BY <1>1, Zenon DEF ReplayThrows, Clean

\* The start of a clean log is clean.
LEMMA CleanPrefix ==
  ASSUME NEW before, NEW log \in Log, NEW s \in Log, Clean(before, log \o s)
  PROVE  Clean(before, log)
<1>1. \A i \in 1..Len(log) : i \in 1..Len(log \o s)
  BY ConcatProperties DEF Log
<1>2. \A i \in 1..Len(log) :
        (log \o s)[i] = log[i] /\ (Replays(before, log \o s, i) <=> Replays(before, log, i))
  BY ReplaysPrefix, Zenon
<1> QED BY <1>1, <1>2, Zenon DEF Clean

\* No record of S makes what e makes.
Free(e, S) == Makes(e) # None => \A x \in S : Makes(x) # Makes(e)

\* A record that replays keeps the log clean, and so does one that is cut short.
LEMMA CleanAppend ==
  ASSUME NEW before \in Log, NEW log \in Log, Clean(before, log),
         NEW e \in Entry \cup {Flush, Torn},
         \/ e \in {Flush, Torn}
         \/ e.txn # None /\ Kind(e) # "failed" /\ Free(e, Range(before) \cup Range(log))
  PROVE  Clean(before, log \o <<e>>)
<1> DEFINE n == Len(log)
           longer == log \o <<e>>
<1>0. <<e>> \in Log
  BY DEF Log
<1>1. /\ n \in Nat /\ Len(longer) = n + 1 /\ longer[n + 1] = e
  BY <1>0, ConcatProperties DEF Log
<1>2. \A i \in 1..n : longer[i] = log[i] /\ (Replays(before, longer, i) <=> Replays(before, log, i))
  BY <1>0, ReplaysPrefix, Zenon
<1>3. e \notin {Flush, Torn} => ~Taken(e, before \o SubSeq(longer, 1, n))
  <2> SUFFICES ASSUME e \notin {Flush, Torn} PROVE ~Taken(e, before \o SubSeq(longer, 1, n))
    BY Zenon
  <2>1. SubSeq(longer, 1, n) = log
    <3>1. CASE n = 0
      BY <3>1, SubSeqEmpty, EmptySeq DEF Log
    <3>2. CASE n # 0
      <4>1. 1 \in 1..n /\ n \in 1..n
        BY <1>1, <3>2
      <4>2. SubSeq(longer, 1, n) = SubSeq(log, 1, n)
        BY <1>0, <4>1, SubSeqOfConcat1 DEF Log
      <4> QED BY <4>2, SubSeqFull, Zenon DEF Log
    <3> QED BY <3>1, <3>2, Zenon
  <2>2. before \o log \in Log /\ Range(before \o log) = Range(before) \cup Range(log)
    BY ConcatProperties, RangeConcatenation DEF Log
  <2>3. \A i \in 1..Len(before \o log) : (before \o log)[i] \in Range(before \o log)
    BY <2>2, RangeEquality DEF Log
  <2> QED BY <2>1, <2>2, <2>3, Zenon DEF Taken, Free
<1>4. e = Torn \/ Replays(before, longer, n + 1)
  <2>1. (n + 1) - 1 = n
    BY <1>1
  <2> QED BY <1>1, <1>3, <2>1, Zenon DEF Replays
<1> HIDE DEF n, longer
<1>5. ASSUME NEW i \in 1..Len(longer) PROVE longer[i] = Torn \/ Replays(before, longer, i)
  <2>1. CASE i \in 1..n
    BY <1>2, <2>1, Zenon DEF Clean, n
  <2>2. CASE i = n + 1
    BY <1>1, <1>4, <2>2, Zenon
  <2> QED BY <1>1, <2>1, <2>2
<1> QED BY <1>5, Zenon DEF Clean, longer

\* No record is in an empty log.
LEMMA EmptyRange == Range(<<>>) = {}
<1>1. Range(<<>>) = {<<>>[i] : i \in 1..Len(<<>>)}
  <2>1. <<>> \in Seq({})
    OBVIOUS
  <2> QED BY <2>1, RangeEquality, Zenon
<1> QED BY <1>1

\* What is replayed is in the log.
LEMMA ReplayedRange ==
  ASSUME NEW before, NEW log \in Log
  PROVE  Range(Replayed(before, log)) \subseteq Range(log)
<1> DEFINE n == ReplayEnd(before, log)
<1>1. Len(log) \in Nat
  BY DEF Log
<1>2. n \in 0..Len(log)
  BY <1>1, ReplayEndExists, Zenon
<1> HIDE DEF n
<1>3. \A i \in 1..n : log[i] \in Range(log)
  BY <1>1, <1>2, RangeEquality DEF Log
<1>4. SubSeq(log, 1, n) \in Seq(Range(log))
  BY <1>1, <1>2, <1>3, SubSeqProperties
<1>5. Range(SubSeq(log, 1, n)) \in SUBSET Range(log)
  BY <1>4, RangeOfSeq, Zenon
<1> QED BY <1>5, Zenon DEF Replayed, n

\* What a replay leaves is a log.
LEMMA RestType ==
  ASSUME NEW before, NEW log \in Log
  PROVE  SubSeq(log, ReplayEnd(before, log) + 1, Len(log)) \in Log
<1> DEFINE n == ReplayEnd(before, log)
<1>1. Len(log) \in Nat
  BY DEF Log
<1>2. n \in 0..Len(log)
  BY <1>1, ReplayEndExists, Zenon
<1> HIDE DEF n
<1>3. n + 1 \in Int /\ Len(log) \in Int /\ \A i \in (n + 1)..Len(log) : log[i] \in Entry \cup {Flush, Torn}
  BY <1>1, <1>2 DEF Log
<1>4. SubSeq(log, n + 1, Len(log)) \in Seq(Entry \cup {Flush, Torn})
  BY <1>3, SubSeqProperties, Zenon
<1> QED BY <1>4, Zenon DEF Log, n

-----------------------------------------------------------------------------
(* The inductive invariant of durability.                                   *)

\* No statement failed inside a transaction that commits.
NoFailures == \A t \in Txn : \A i \in 1..Len(Group[t]) : Group[t][i].kind # "failed"

Running == {"open", "commit", "sync", "return"}
Rebuilding == {"remove leftover", "create directory", "write data", "move meta"}
Moved == {"remove old data", "remove old log", "initialize"}

\* The log that the next start replays, what it leaves of it, and all records
\* that the process has.
Visible == IF wal[LoadedIteration] = NoFile THEN <<>> ELSE wal[LoadedIteration]
Unflushed == SubSeq(Visible, ReplayEnd(Loaded, Visible) + 1, Len(Visible)) \o buffer
Records == Range(Loaded) \cup Range(Visible) \cup Range(buffer)

\* A record is one of the log format; the transactions that may have records.
Real(e) == e \in {Flush, Torn} \/ (e.txn \in Txn /\ e.n \in 1..Len(Group[e.txn]))
Authors == thrown \cup {doubt, None} \cup {e.txn : e \in Range(acked)}

\* A restart finds the committed transactions without, or with, the one in doubt.
NotYet == Same(thrown, Recovered, acked) /\ (doubt # None => NothingOf(doubt, Recovered))
Already == doubt # None /\ Same(thrown, Recovered, acked \o GroupEntries(doubt))

\* At every moment: the log replays, it has records of the transactions that
\* were tried only, and the transaction in doubt is there as a whole or not at all.
Core ==
  /\ Clean(Loaded, Visible \o buffer)
  /\ \A e \in Records : Real(e) /\ e.txn \in Authors
  /\ doubt # None => doubt \notin thrown /\ NothingOf(doubt, acked)
  /\ NotYet \/ Already

\* While the database is opened.
Opening ==
  /\ pc = "replay" => db = Loaded
  /\ pc \in Rebuilding => db = Recovered
  /\ pc \in Moved => iteration = LoadedIteration /\ db = Loaded /\ Visible = <<>>
  /\ pc \notin {"commit", "sync", "return"} => written = 0

\* While it is open: the log has no record cut short, memory has what is committed.
Serving ==
  pc \in Running =>
    /\ iteration = LoadedIteration /\ Torn \notin Range(Visible)
    /\ Same(thrown, db, acked)
    /\ \A e \in Range(db) : e.txn \in Authors
    /\ doubt # None => NothingOf(doubt, db)

\* WAL_FLUSH is written and has not reached the log, or it has.
Pending ==
  /\ NotYet /\ Same(thrown, Unflushed, GroupEntries(doubt))
  /\ buffer # <<>> /\ buffer[Len(buffer)] = Flush
  /\ \A i \in 1..(Len(Unflushed) - 1) : Unflushed[i] # Flush
Done == Already /\ buffer = <<>> /\ Unflushed = <<>>

\* How far the commit is that runs: behind the last WAL_FLUSH are its first
\* entries, and entries of commits that threw.
Committing ==
  /\ pc = "open" => doubt = None /\ Same(thrown, Unflushed, <<>>)
  /\ pc = "commit" =>
       /\ Same(thrown, Unflushed, SubSeq(GroupEntries(doubt), 1, written))
       /\ \A e \in Records : e.txn = doubt => e.n <= written
       /\ written <= Len(Group[doubt])
  /\ pc \in {"open", "commit"} => NotYet /\ Flush \notin Range(Unflushed)
  /\ pc = "sync" => Pending \/ Done
  /\ pc = "return" => Done

Durable == Core /\ Opening /\ Serving /\ Committing

\* While it is open, the database has the records of the checkpoint and those of
\* the log, except of commits that threw and of the one that runs; and nothing
\* that the one that runs is to make.
Claims ==
  pc \in Running =>
    /\ Range(Loaded) \subseteq Range(db)
    /\ \A e \in Range(Visible) \cup Range(buffer) :
         e \in Range(db) \/ e.txn \in thrown \cup {doubt, None}
    /\ pc = "commit" => \A i \in 1..Len(Group[doubt]) : ~Taken(GroupEntries(doubt)[i], db)

\* The values that the invariant is about are sequences of records, and a
\* restart finds the checkpoint and what is replayed of the log.
Shape ==
  /\ Loaded \in Contents /\ Loaded \in Log /\ Visible \in Log
  /\ buffer \in Contents /\ buffer \in Log /\ acked \in Log /\ db \in Log
  /\ Replayed(Loaded, Visible) \in Log /\ Recovered \in Log
  /\ Recovered = Loaded \o Replayed(Loaded, Visible)
  /\ LoadedIteration \in {0, 1} /\ doubt \in Txn \cup {None}

\* Contents are records that a log can have.
LEMMA ContentsInLog ==
  ASSUME NEW s \in Contents
  PROVE  s \in Log
<1>1. Entry \cup {Flush} \subseteq Entry \cup {Flush, Torn}
  BY Zenon
<1> QED BY <1>1, SeqMonotonic, Zenon DEF Contents, Log

\* The shape follows from the types.
LEMMA Shapes == StorageInv => Shape
<1> SUFFICES ASSUME StorageInv PROVE Shape
  BY Zenon
<1>1. Loaded \in Contents /\ LoadedIteration \in {0, 1}
  BY LoadedType, Zenon DEF StorageInv
<1>2. buffer \in Contents /\ acked \in Contents /\ db \in Contents /\ doubt \in Txn \cup {None}
  BY Zenon DEF StorageInv, StorageTypeOK
<1>3. Visible \in Log
  <2>1. <<>> \in Log
    BY DEF Log
  <2>2. wal[LoadedIteration] \in Log \cup {NoFile}
    BY <1>1, Zenon DEF StorageInv, StorageTypeOK
  <2> QED BY <2>1, <2>2, Zenon DEF Visible
<1>4. Replayed(Loaded, Visible) \in Contents
  BY <1>3, ReplayedType, Zenon
<1>5. Loaded \o Replayed(Loaded, Visible) \in Contents
  BY <1>1, <1>4, ConcatProperties, Zenon DEF Contents
<1>6. Recovered = Loaded \o Replayed(Loaded, Visible)
  <2>1. CASE wal[LoadedIteration] = NoFile
    <3>1. Replayed(Loaded, Visible) = <<>>
      BY <2>1, ReplaysNothing, Zenon DEF Visible
    <3> QED BY <1>1, <2>1, <3>1, ConcatEmptySeq, Zenon DEF Recovered, Contents
  <2>2. CASE wal[LoadedIteration] # NoFile
    BY <2>2, Zenon DEF Recovered, Visible
  <2> QED BY <2>1, <2>2, Zenon
<1> QED BY <1>1, <1>2, <1>3, <1>4, <1>5, <1>6, ContentsInLog, Zenon DEF Shape

\* And the same after a step.
LEMMA ShapesNext == StorageInv' => Shape'
BY Shapes, PTL

\* A step that changes none of the records keeps what a restart finds.
LEMMA Frame ==
  ASSUME StorageInv, StorageInv', Core,
         Loaded' = Loaded, Visible' = Visible, UNCHANGED <<buffer, doubt, acked, thrown>>
  PROVE  /\ Core' /\ Recovered' = Recovered /\ Unflushed' = Unflushed
         /\ Records' = Records /\ Authors' = Authors
         /\ NotYet => NotYet'
         /\ Already => Already'
<1>1. Shape /\ Shape'
  BY Shapes, ShapesNext, Zenon
<1>2. Recovered' = Recovered
  BY <1>1, Zenon DEF Shape
<1>3. Unflushed' = Unflushed
  BY Zenon DEF Unflushed
<1>4. Records' = Records /\ Authors' = Authors
  BY Zenon DEF Records, Authors
<1>5. (NotYet => NotYet') /\ (Already => Already')
  BY <1>2, Zenon DEF NotYet, Already
<1>6. Core'
  BY <1>4, <1>5, Zenon DEF Core
<1> QED BY <1>2, <1>3, <1>4, <1>5, <1>6, Zenon

\* A restart finds nothing that the process has not written.
LEMMA RecoveredRange ==
  ASSUME Shape
  PROVE  Range(Recovered) \subseteq Records
<1>1. Range(Recovered) = Range(Loaded) \cup Range(Replayed(Loaded, Visible))
  BY LogConcat, Zenon DEF Shape
<1>2. Range(Replayed(Loaded, Visible)) \subseteq Range(Visible)
  BY ReplayedRange, Zenon DEF Shape
<1> QED BY <1>1, <1>2, Zenon DEF Records

-----------------------------------------------------------------------------
(* Opening the database keeps what a restart finds.                         *)

\* Outside of a commit nothing is asked of the log.
LEMMA NotRunning ==
  ASSUME pc' \notin Running
  PROVE  Serving' /\ Committing'
BY Zenon DEF Serving, Committing, Running

\* Loading reads what a restart finds.
LEMMA LoadKeeps ==
  ASSUME StorageInv, StorageInv', Durable, LoadFromStorage
  PROVE  Durable' /\ Recovered' = Recovered
<1>1. /\ Loaded' = Loaded /\ Visible' = Visible /\ LoadedIteration' = LoadedIteration
      /\ UNCHANGED <<buffer, doubt, acked, thrown>>
  BY Zenon DEF LoadFromStorage, disk, history, Loaded, Visible, LoadedIteration
<1>2. Core' /\ Recovered' = Recovered
  BY <1>1, Frame, Zenon DEF Durable
<1>3. pc' \in {"initialize", "replay"}
  BY Zenon DEF LoadFromStorage
<1>4. Serving' /\ Committing'
  BY <1>3, NotRunning, Zenon DEF Running
<1>5. Opening'
  <2>1. db' = Loaded /\ iteration' = LoadedIteration /\ written' = 0
    BY Zenon DEF LoadFromStorage, Durable, Opening
  <2>2. pc' = "initialize" => Visible = <<>>
    BY Zenon DEF LoadFromStorage, Visible
  <2> QED BY <1>1, <1>3, <2>1, <2>2, Zenon DEF Opening, Rebuilding, Moved
<1> QED BY <1>2, <1>4, <1>5, Zenon DEF Durable

\* Replaying brings into memory what a restart finds.
LEMMA ReplayKeeps ==
  ASSUME StorageInv, StorageInv', Durable, Replay
  PROVE  Durable' /\ Recovered' = Recovered
<1>1. /\ Loaded' = Loaded /\ Visible' = Visible
      /\ UNCHANGED <<buffer, doubt, acked, thrown>>
  BY Zenon DEF Replay, disk, history, Loaded, Visible, LoadedIteration
<1>2. Core' /\ Recovered' = Recovered
  BY <1>1, Frame, Zenon DEF Durable
<1>3. pc = "replay" /\ pc' \in {"closed", "remove leftover"}
  BY Zenon DEF Replay
<1>4. Serving' /\ Committing'
  BY <1>3, NotRunning, Zenon DEF Running
<1>5. written' = 0
  BY <1>3, Zenon DEF Replay, Durable, Opening
<1>6. pc' = "remove leftover" => db' = Recovered
  <2>1. db = Loaded /\ iteration = LoadedIteration /\ wal[iteration] # NoFile
    BY <1>3, Zenon DEF Durable, Opening, StorageInv, Progress
  <2> QED BY <2>1, Zenon DEF Replay, Recovered
<1>7. Opening'
  BY <1>2, <1>3, <1>5, <1>6, Zenon DEF Opening, Rebuilding, Moved
<1> QED BY <1>2, <1>4, <1>7, Zenon DEF Durable

\* CreateCheckpoint writes the directory that a restart does not load.
LEMMA WritingKeeps ==
  ASSUME StorageInv, StorageInv', Durable, RemoveLeftover \/ CreateDirectory \/ WriteData
  PROVE  Durable' /\ Recovered' = Recovered
<1>1. /\ pc \in {"remove leftover", "create directory", "write data"}
      /\ pc' \in {"create directory", "write data", "move meta"}
      /\ UNCHANGED <<meta, wal, iteration, db, buffer, written, doubt, acked, thrown>>
      /\ \E x : data' = [data EXCEPT ![iteration] = x]
  BY Zenon DEF RemoveLeftover, CreateDirectory, WriteData, memory, history
<1>2. meta # iteration
  BY <1>1, Zenon DEF StorageInv, Progress
<1>3. Loaded' = Loaded /\ Visible' = Visible
  <2>1. meta # NoFile => data'[meta] = data[meta]
    BY <1>1, <1>2, Zenon DEF StorageInv, StorageTypeOK
  <2> QED BY <1>1, <2>1, Zenon DEF Loaded, Visible, LoadedIteration
<1>4. Core' /\ Recovered' = Recovered
  BY <1>1, <1>3, Frame, Zenon DEF Durable
<1>5. Serving' /\ Committing'
  BY <1>1, NotRunning, Zenon DEF Running
<1>6. db = Recovered /\ written = 0
  BY <1>1, Zenon DEF Durable, Opening, Rebuilding
<1>7. Opening'
  BY <1>1, <1>4, <1>6, Zenon DEF Opening, Rebuilding, Moved
<1> QED BY <1>4, <1>5, <1>7, Zenon DEF Durable

\* When meta.info moves, the checkpoint takes the place of the old one and of
\* its log, and the log of the new iteration is empty.
LEMMA MoveKeeps ==
  ASSUME StorageInv, StorageInv', Durable, MoveMeta, ~reused'
  PROVE  Durable' /\ Recovered' = Recovered
<1>1. Shape /\ Shape'
  BY Shapes, ShapesNext, Zenon
<1>2. /\ pc = "move meta" /\ pc' = "remove old data" /\ meta' = iteration
      /\ wal[iteration] \in {NoFile, <<>>}
      /\ UNCHANGED <<data, wal, iteration, db, buffer, written, doubt, acked, thrown>>
  BY Zenon DEF MoveMeta, memory
<1>3. iteration \in {0, 1} /\ iteration # NoFile
  BY StorageAssumption, Zenon DEF StorageInv, StorageTypeOK
<1>4. LoadedIteration' = iteration /\ Loaded' = db /\ Visible' = <<>>
  BY <1>2, <1>3, Zenon DEF LoadedIteration, Loaded, Visible, StorageInv, Progress
<1>5. db = Recovered /\ written = 0
  BY <1>2, Zenon DEF Durable, Opening, Rebuilding
<1>6. Recovered' = Recovered
  <2>1. Recovered' = Loaded' \o Replayed(Loaded', <<>>)
    BY <1>1, <1>4, Zenon DEF Shape
  <2>2. Recovered' = db \o <<>>
    BY <1>4, <2>1, ReplaysNothing, Zenon
  <2> QED BY <1>1, <1>5, <2>2, ConcatEmptySeq, Zenon DEF Shape, Log
<1>7. buffer = <<>>
  BY <1>2, Zenon DEF StorageInv, Progress
<1>8. Records' \subseteq Records
  <2>1. Range(<<>>) = {}
    BY EmptyRange, Zenon
  <2>2. Records' = Range(Recovered)
    BY <1>2, <1>4, <1>5, <1>7, <2>1, Zenon DEF Records
  <2> QED BY <1>1, <2>2, RecoveredRange, Zenon
<1>9. Core'
  <2>1. Visible' \o buffer' = <<>>
    <3>1. <<>> \o <<>> = <<>>
      BY EmptySeq, ConcatEmptySeq, Zenon
    <3> QED BY <1>2, <1>4, <1>7, <3>1, Zenon
  <2>2. Clean(Loaded', Visible' \o buffer')
    BY <2>1 DEF Clean
  <2>3. (NotYet => NotYet') /\ (Already => Already')
    BY <1>2, <1>6, Zenon DEF NotYet, Already
  <2>4. Authors' = Authors
    BY <1>2, Zenon DEF Authors
  <2> QED BY <1>2, <1>8, <2>2, <2>3, <2>4, Zenon DEF Durable, Core
<1>10. Serving' /\ Committing'
  BY <1>2, NotRunning, Zenon DEF Running
<1>11. Opening'
  BY <1>2, <1>4, <1>5, Zenon DEF Opening, Rebuilding, Moved
<1> QED BY <1>6, <1>9, <1>10, <1>11, Zenon DEF Durable

\* The old directory and the old log are not those that a restart reads.
LEMMA RemovingKeeps ==
  ASSUME StorageInv, StorageInv', Durable, RemoveOldData \/ RemoveOldLog
  PROVE  Durable' /\ Recovered' = Recovered
<1>1. /\ pc \in {"remove old data", "remove old log"} /\ pc' \in {"remove old log", "initialize"}
      /\ UNCHANGED <<meta, iteration, db, buffer, written, doubt, acked, thrown>>
      /\ \/ UNCHANGED wal /\ pc = "remove old data" /\ data' = [data EXCEPT ![1 - iteration] = NoFile]
         \/ UNCHANGED data /\ wal' = [wal EXCEPT ![1 - iteration] = NoFile]
  BY Zenon DEF RemoveOldData, RemoveOldLog, memory, history
<1>2. iteration = LoadedIteration /\ db = Loaded /\ Visible = <<>> /\ written = 0
  BY <1>1, Zenon DEF Durable, Opening, Moved
<1>3. 1 - iteration # iteration /\ iteration \in {0, 1}
  BY OtherIteration, Zenon DEF StorageInv, StorageTypeOK
<1>4. pc = "remove old data" => meta = iteration
  BY Zenon DEF StorageInv, Progress
<1>5. Loaded' = Loaded
  <2>1. CASE pc = "remove old data" /\ data' = [data EXCEPT ![1 - iteration] = NoFile]
    <3>1. data'[meta] = data[meta]
      BY <1>3, <1>4, <2>1, Zenon DEF StorageInv, StorageTypeOK
    <3> QED BY <1>1, <3>1, Zenon DEF Loaded
  <2>2. CASE UNCHANGED data
    BY <1>1, <2>2, Zenon DEF Loaded
  <2> QED BY <1>1, <2>1, <2>2, Zenon
<1>6. LoadedIteration' = LoadedIteration
  BY <1>1, Zenon DEF LoadedIteration
<1>7. Visible' = Visible
  <2>1. wal'[iteration] = wal[iteration]
    BY <1>1, <1>3, Zenon DEF StorageInv, StorageTypeOK
  <2> QED BY <1>2, <1>6, <2>1, Zenon DEF Visible
<1>8. Core' /\ Recovered' = Recovered
  BY <1>1, <1>5, <1>7, Frame, Zenon DEF Durable
<1>9. Serving' /\ Committing'
  BY <1>1, NotRunning, Zenon DEF Running
<1>10. Opening'
  BY <1>1, <1>2, <1>5, <1>6, <1>7, Zenon DEF Opening, Rebuilding, Moved
<1> QED BY <1>8, <1>9, <1>10, Zenon DEF Durable

-----------------------------------------------------------------------------
(* Opening the log and committing.                                          *)

\* The entries of a transaction count unless its commit threw.
LEMMA GroupFacts ==
  ASSUME NEW t \in Txn
  PROVE  /\ GroupEntries(t) \in Log /\ Len(GroupEntries(t)) = Len(Group[t]) /\ Len(Group[t]) \in Nat
         /\ \A i \in 1..Len(Group[t]) : GroupEntries(t)[i] = [txn |-> t, n |-> i]
         /\ \A e \in Range(GroupEntries(t)) : e.txn = t
<1>1. Len(Group[t]) \in Nat
  BY StorageAssumption
<1>2. GroupEntries(t) \in Log
  BY GroupEntriesType, ContentsInLog, Zenon
<1>3. /\ Len(GroupEntries(t)) = Len(Group[t])
      /\ \A i \in 1..Len(Group[t]) : GroupEntries(t)[i] = [txn |-> t, n |-> i]
  BY <1>1 DEF GroupEntries
<1>4. Range(GroupEntries(t)) = {GroupEntries(t)[i] : i \in 1..Len(Group[t])}
  BY <1>2, <1>3, RangeEquality, Zenon DEF Log
<1>5. ASSUME NEW e \in Range(GroupEntries(t)) PROVE e.txn = t
  <2>1. PICK i \in 1..Len(Group[t]) : e = GroupEntries(t)[i]
    BY <1>4, Zenon
  <2>2. e = [txn |-> t, n |-> i]
    BY <1>3, <2>1, Zenon
  <2> QED BY <2>2, Zenon
<1> QED BY <1>1, <1>2, <1>3, <1>5, Zenon

\* Without failed statements every entry of a transaction counts.
LEMMA GroupCounts ==
  ASSUME NEW t \in Txn, NEW T, t \notin T, NoFailures, NEW i \in 1..Len(Group[t])
  PROVE  GroupEntries(t)[i] \in EntriesOf(T, GroupEntries(t))
<1>1. /\ GroupEntries(t)[i] = [txn |-> t, n |-> i] /\ i \in 1..Len(GroupEntries(t))
  BY GroupFacts, Zenon
<1>2. CountsWithout(T, GroupEntries(t)[i])
  BY <1>1, StorageAssumption DEF CountsWithout, Kind, NoFailures
<1> QED BY <1>1, <1>2, Zenon DEF EntriesOf, Counted

\* A transaction with records has entries in the history once it is there.
LEMMA EntriesAcked ==
  ASSUME NEW t \in Txn, NEW a \in Log, NEW e, Real(e), e.txn = t
  PROVE  t \in {x.txn : x \in Range(a \o GroupEntries(t))}
<1> DEFINE G == GroupEntries(t)
<1>1. /\ G \in Log /\ Len(G) = Len(Group[t]) /\ Len(Group[t]) \in Nat
      /\ \A i \in 1..Len(Group[t]) : G[i] = [txn |-> t, n |-> i]
  BY GroupFacts, Zenon
<1> HIDE DEF G
<1>2. e \notin {Flush, Torn}
  BY StorageAssumption DEF Flush, Torn
<1>3. e.n \in 1..Len(Group[t])
  BY <1>2, Zenon DEF Real
<1>4. 1 \in 1..Len(Group[t])
  BY <1>1, <1>3
<1>5. G[1] \in Range(G) /\ G[1].txn = t
  <2>1. \A i \in 1..Len(G) : G[i] \in Range(G)
    BY <1>1, RangeEquality, Zenon DEF Log
  <2>2. G[1] = [txn |-> t, n |-> 1]
    BY <1>1, <1>4, Zenon
  <2>3. G[1] \in Range(G)
    BY <1>1, <1>4, <2>1, Zenon
  <2> QED BY <2>2, <2>3
<1>6. Range(a \o G) = Range(a) \cup Range(G)
  BY <1>1, LogConcat, Zenon
<1> QED BY <1>5, <1>6, Zenon DEF G

\* What counts in a sequence is in it.
LEMMA EntriesInRange ==
  ASSUME NEW T, NEW s \in Log
  PROVE  EntriesOf(T, s) \subseteq Range(s)
<1>1. \A i \in 1..Len(s) : s[i] \in Range(s)
  BY RangeEquality, Zenon DEF Log
<1> QED BY <1>1, Zenon DEF EntriesOf, Counted

\* An empty log has no records that wait for a flush.
LEMMA UnflushedEmpty ==
  ASSUME NEW before
  PROVE  SubSeq(<<>>, ReplayEnd(before, <<>>) + 1, Len(<<>>)) \o <<>> = <<>>
<1>1. ReplayEnd(before, <<>>) = 0
  BY ReplaysNothing, Zenon
<1>2. Len(<<>>) = 0
  BY Zenon
<1>3. SubSeq(<<>>, 0 + 1, 0) = <<>>
  BY SubSeqEmpty
<1>4. <<>> \o <<>> = <<>>
  BY EmptySeq, ConcatEmptySeq, Zenon
<1> QED BY <1>1, <1>2, <1>3, <1>4, Zenon

\* Whoever looks for the interrupted commit finds all of it or nothing.
LEMMA DoubtResolved ==
  ASSUME NoFailures, StorageInv, StorageInv', Durable, Initialize
  PROVE  /\ Same(thrown, Recovered, acked')
         /\ \A e \in Range(Recovered) : e.txn \in thrown \cup {None} \cup {a.txn : a \in Range(acked')}
<1> DEFINE G == GroupEntries(doubt)
           A == {a.txn : a \in Range(acked')}
<1>1. Shape
  BY Shapes, Zenon
<1>2. db = Recovered
  <2>1. db = Loaded /\ Visible = <<>>
    BY Zenon DEF Initialize, Durable, Opening, Moved
  <2>2. Recovered = Loaded \o <<>>
    BY <1>1, <2>1, ReplaysNothing, Zenon DEF Shape
  <2> QED BY <1>1, <2>1, <2>2, ConcatEmptySeq, Zenon DEF Shape, Log
<1>3. \A e \in Range(Recovered) : Real(e) /\ e.txn \in Authors
  BY <1>1, RecoveredRange, Zenon DEF Durable, Core
<1>4. acked' = IF Survived THEN acked \o G ELSE acked
  BY Zenon DEF Initialize
<1>5. CASE doubt = None
  <2>1. acked' = acked /\ NotYet
    BY <1>4, <1>5, Zenon DEF Survived, Durable, Core, Already
  <2> QED BY <1>3, <1>5, <2>1, Zenon DEF NotYet, Authors
<1>6. CASE doubt # None /\ NotYet
  <2>1. doubt \in Txn
    BY <1>1, <1>6, Zenon DEF Shape
  <2>2. acked' = acked
    <3>1. CASE Survived /\ Len(Group[doubt]) # 0
      <4>1. 1 \in 1..Len(Group[doubt]) /\ G[1].txn = doubt
        <5>1. /\ Len(Group[doubt]) \in Nat
              /\ \A i \in 1..Len(Group[doubt]) : G[i] = [txn |-> doubt, n |-> i]
          BY <2>1, GroupFacts, Zenon
        <5> HIDE DEF G
        <5>2. 1 \in 1..Len(Group[doubt])
          BY <3>1, <5>1
        <5>3. G[1] = [txn |-> doubt, n |-> 1]
          BY <5>1, <5>2, Zenon
        <5> QED BY <5>2, <5>3
      <4>2. IsIn(G[1], db)
        BY <3>1, <4>1, Zenon DEF Survived
      <4>3. \A i \in 1..Len(db) : db[i] \in Range(db)
        BY <1>1, RangeEquality DEF Shape, Log
      <4> QED BY <1>2, <1>6, <4>1, <4>2, <4>3, Zenon DEF IsIn, NotYet, NothingOf
    <3>2. CASE Len(Group[doubt]) = 0
      <4>1. G = <<>>
        BY <2>1, <3>2, GroupFacts, EmptySeq, Zenon DEF Log
      <4>2. acked \o G = acked
        BY <1>1, <4>1, ConcatEmptySeq, Zenon DEF Shape, Log
      <4> QED BY <1>4, <4>2, Zenon
    <3> QED BY <1>4, <3>1, <3>2, Zenon
  <2> QED BY <1>3, <1>6, <2>2, Zenon DEF NotYet, Authors, NothingOf
<1>7. CASE doubt # None /\ Already
  <2>1. doubt \in Txn /\ doubt \notin thrown
    BY <1>1, <1>7, Zenon DEF Shape, Durable, Core
  <2>2. EntriesOf(thrown, Recovered) = EntriesOf(thrown, acked) \cup EntriesOf(thrown, G)
    <3>1. G \in Log
      BY <2>1, GroupFacts, Zenon
    <3> QED BY <1>1, <1>7, <3>1, CommittedConcat DEF Already, Same, Shape
  <2>3. \A i \in 1..Len(Group[doubt]) : G[i] \in Range(db)
    BY <1>1, <1>2, <2>1, <2>2, GroupCounts, EntriesInRange, Zenon DEF Shape
  <2>4. Survived
    <3>1. Range(db) = {db[i] : i \in 1..Len(db)}
      BY <1>1, RangeEquality, Zenon DEF Shape, Log
    <3> QED BY <1>7, <2>3, <3>1, Zenon DEF Survived, IsIn
  <2>5. acked' = acked \o G
    BY <1>4, <2>4, Zenon
  <2>6. Same(thrown, Recovered, acked')
    BY <1>7, <2>5, Zenon DEF Already
  <2>7. Range(acked) \subseteq Range(acked')
    <3>1. G \in Log
      BY <2>1, GroupFacts, Zenon
    <3> QED BY <1>1, <2>5, <3>1, LogConcat DEF Shape
  <2>8. ASSUME NEW e \in Range(Recovered), e.txn = doubt PROVE e.txn \in A
    BY <1>1, <1>3, <2>1, <2>5, <2>8, EntriesAcked, Zenon DEF Shape
  <2> QED BY <1>3, <2>6, <2>7, <2>8, Zenon DEF Authors
<1>8. NotYet \/ Already
  BY Zenon DEF Durable, Core
<1> QED BY <1>5, <1>6, <1>7, <1>8, Zenon

\* The database is open with an empty log.
LEMMA InitializeKeeps ==
  ASSUME NoFailures, StorageInv, StorageInv', Durable, Initialize
  PROVE  Durable' /\ Recovered' = Recovered
<1>1. Shape /\ Shape'
  BY Shapes, ShapesNext, Zenon
<1>2. /\ pc' = "open" /\ doubt' = None
      /\ UNCHANGED <<meta, data, iteration, db, buffer, written, thrown>>
      /\ wal' = [wal EXCEPT ![iteration] = IF @ = NoFile THEN <<>> ELSE @]
  BY Zenon DEF Initialize, memory
<1>3. iteration = LoadedIteration /\ db = Loaded /\ Visible = <<>> /\ written = 0
  BY Zenon DEF Initialize, Durable, Opening, Moved
<1>4. buffer = <<>>
  BY Zenon DEF Initialize, StorageInv, Progress
<1>5. Loaded' = Loaded /\ LoadedIteration' = LoadedIteration
  BY <1>2, Zenon DEF Loaded, LoadedIteration
<1>6. Visible' = <<>>
  <2>1. wal'[iteration] = <<>>
    BY <1>2, <1>3, Zenon DEF Visible, StorageInv, StorageTypeOK
  <2> QED BY <1>3, <1>5, <2>1, Zenon DEF Visible
<1>7. Recovered' = Recovered
  BY <1>1, <1>3, <1>5, <1>6, Zenon DEF Shape
<1>8. db = Recovered
  <2>2. Recovered = Loaded \o <<>>
    BY <1>1, <1>3, ReplaysNothing, Zenon DEF Shape
  <2> QED BY <1>1, <1>3, <2>2, ConcatEmptySeq, Zenon DEF Shape, Log
<1>9. /\ Same(thrown, Recovered, acked')
      /\ \A e \in Range(Recovered) : e.txn \in Authors'
  <2>1. Authors' = thrown \cup {None} \cup {e.txn : e \in Range(acked')}
    BY <1>2, Zenon DEF Authors
  <2> QED BY <2>1, DoubtResolved, Zenon
<1>10. Range(<<>>) = {}
  BY EmptyRange, Zenon
<1>11. Records' = Range(Recovered) /\ Records' \subseteq Records
  BY <1>2, <1>3, <1>4, <1>5, <1>6, <1>8, <1>10, Zenon DEF Records
<1>12. NotYet'
  BY <1>2, <1>7, <1>9, Zenon DEF NotYet
<1>13. Core'
  <2>1. Visible' \o buffer' = <<>>
    <3>1. <<>> \o <<>> = <<>>
      BY EmptySeq, ConcatEmptySeq, Zenon
    <3> QED BY <1>2, <1>4, <1>6, <3>1, Zenon
  <2>2. Clean(Loaded', Visible' \o buffer')
    BY <2>1 DEF Clean
  <2>3. \A e \in Records' : Real(e)
    BY <1>11, Zenon DEF Durable, Core
  <2> QED BY <1>2, <1>9, <1>11, <1>12, <2>2, <2>3, Zenon DEF Core
<1>14. Opening'
  BY <1>2, <1>3, Zenon DEF Opening, Rebuilding, Moved
<1>15. Serving'
  BY <1>2, <1>3, <1>5, <1>6, <1>8, <1>9, <1>10, Zenon DEF Serving
<1>16. Unflushed' = <<>>
  BY <1>2, <1>4, <1>6, UnflushedEmpty, Zenon DEF Unflushed
<1>17. Same(thrown', <<>>, <<>>)
  BY Zenon DEF Same
<1>18. Committing'
  BY <1>2, <1>10, <1>12, <1>16, <1>17, Zenon DEF Committing
<1> QED BY <1>7, <1>13, <1>14, <1>15, <1>18, Zenon DEF Durable

\* A transaction that begins to commit has no records anywhere.
LEMMA BeginKeeps ==
  ASSUME StorageInv, StorageInv', Durable, NEW t \in Txn, BeginCommit(t)
  PROVE  Durable' /\ Recovered' = Recovered
<1>1. Shape /\ Shape'
  BY Shapes, ShapesNext, Zenon
<1>2. /\ pc = "open" /\ pc' = "commit" /\ doubt' = t /\ ~Tried(t) /\ t # None
      /\ UNCHANGED <<meta, data, wal, iteration, db, buffer, written, thrown, acked>>
  BY StorageAssumption, Zenon DEF BeginCommit, disk, memory, history
<1>3. /\ doubt = None /\ NotYet /\ written = 0
      /\ Flush \notin Range(Unflushed) /\ Same(thrown, Unflushed, <<>>)
  BY <1>2, Zenon DEF Durable, Committing, Opening
<1>4. /\ Loaded' = Loaded /\ Visible' = Visible /\ LoadedIteration' = LoadedIteration
      /\ Unflushed' = Unflushed /\ Records' = Records
  BY <1>2, Zenon DEF Loaded, Visible, LoadedIteration, Unflushed, Records
<1>5. Recovered' = Recovered
  BY <1>1, <1>4, Zenon DEF Shape
<1>6. t \notin Authors /\ NothingOf(t, acked)
  <2>1. Range(acked) = {acked[i] : i \in 1..Len(acked)}
    BY <1>1, RangeEquality, Zenon DEF Shape, Log
  <2> QED BY <1>2, <1>3, <2>1, Zenon DEF Tried, Authors, NothingOf
<1>7. \A e \in Records : Real(e) /\ e.txn \in Authors
  BY Zenon DEF Durable, Core
<1>8. NothingOf(t, Recovered)
  BY <1>1, <1>6, <1>7, RecoveredRange, Zenon DEF NothingOf
<1>9. NotYet'
  BY <1>2, <1>3, <1>5, <1>8, Zenon DEF NotYet
<1>10. Authors \subseteq Authors'
  BY <1>2, <1>3, Zenon DEF Authors
<1>11. Core'
  <2>1. Clean(Loaded', Visible' \o buffer')
    BY <1>2, <1>4, Zenon DEF Durable, Core
  <2>2. doubt' \notin thrown' /\ NothingOf(doubt', acked')
    BY <1>2, <1>6, Zenon DEF Authors
  <2> QED BY <1>4, <1>7, <1>9, <1>10, <2>1, <2>2, Zenon DEF Core
<1>12. Opening'
  BY <1>2, <1>3, Zenon DEF Opening, Rebuilding, Moved
<1>13. Serving'
  <2>1. /\ iteration = LoadedIteration /\ Torn \notin Range(Visible) /\ Same(thrown, db, acked)
        /\ \A e \in Range(db) : e.txn \in Authors
    BY <1>2, Zenon DEF Durable, Serving, Running
  <2>2. NothingOf(t, db)
    BY <1>6, <2>1, Zenon DEF NothingOf
  <2> QED BY <1>2, <1>4, <1>10, <2>1, <2>2, Zenon DEF Serving
<1>14. Committing'
  <2>1. SubSeq(GroupEntries(t), 1, 0) = <<>>
    BY SubSeqEmpty
  <2>2. \A e \in Records : e.txn # t
    BY <1>6, <1>7, Zenon
  <2>3. written <= Len(Group[t])
    BY <1>3, GroupFacts
  <2> QED BY <1>2, <1>3, <1>4, <1>9, <2>1, <2>2, <2>3, Zenon DEF Committing
<1> QED BY <1>5, <1>11, <1>12, <1>13, <1>14, Zenon DEF Durable

\* One record more in the buffer, and none in the log.
LEMMA Buffered ==
  ASSUME StorageInv, StorageInv', Durable, UNCHANGED disk, pc = "commit",
         NEW e \in Entry \cup {Flush}, buffer' = Append(buffer, e),
         \/ e = Flush
         \/ e.txn # None /\ Kind(e) # "failed" /\ Free(e, Records)
  PROVE  /\ Loaded' = Loaded /\ Visible' = Visible /\ LoadedIteration' = LoadedIteration
         /\ Recovered' = Recovered
         /\ Unflushed \in Log /\ Unflushed' = Unflushed \o <<e>> /\ <<e>> \in Log
         /\ Range(Unflushed') = Range(Unflushed) \cup {e}
         /\ Clean(Loaded', Visible' \o buffer')
         /\ Records' = Records \cup {e}
<1>1. Shape /\ Shape'
  BY Shapes, ShapesNext, Zenon
<1>2. Loaded' = Loaded /\ Visible' = Visible /\ LoadedIteration' = LoadedIteration
  BY Zenon DEF Loaded, Visible, LoadedIteration, disk
<1>3. Recovered' = Recovered
  BY <1>1, <1>2, Zenon DEF Shape
<1>4. <<e>> \in Log /\ Range(<<e>>) = {e}
  <2>1. <<e>> \in Log
    BY DEF Log
  <2>2. Range(<<e>>) = {<<e>>[i] : i \in 1..Len(<<e>>)}
    BY <2>1, RangeEquality, Zenon DEF Log
  <2> QED BY <2>1, <2>2
<1>0. Loaded \in Log /\ Visible \in Log /\ buffer \in Log
  BY <1>1, Zenon DEF Shape
<1>5. buffer' = buffer \o <<e>>
  BY <1>1, AppendIsConcat, Zenon DEF Shape, Contents
<1>6. Range(buffer') = Range(buffer) \cup {e}
  <2>1. Range(buffer \o <<e>>) = Range(buffer) \cup Range(<<e>>)
    BY <1>0, <1>4, LogConcat, Zenon
  <2> QED BY <1>4, <1>5, <2>1, Zenon
<1> DEFINE rest == SubSeq(Visible, ReplayEnd(Loaded, Visible) + 1, Len(Visible))
<1>7. rest \in Log
  BY <1>1, RestType, Zenon DEF Shape
<1> HIDE DEF rest
<1>8. /\ Unflushed = rest \o buffer /\ Unflushed \in Log
      /\ Unflushed' = Unflushed \o <<e>>
  <2>1. Unflushed = rest \o buffer /\ Unflushed' = rest \o (buffer \o <<e>>)
    BY <1>2, <1>5, Zenon DEF Unflushed, rest
  <2>2. rest \o buffer \in Log
    BY <1>0, <1>7, LogConcat, Zenon
  <2>3. (rest \o buffer) \o <<e>> = rest \o (buffer \o <<e>>)
    <3>1. buffer \in Log /\ <<e>> \in Log
      BY <1>0, <1>4, Zenon
    <3> QED BY <3>1, <1>7, LogAssociative, Zenon
  <2> QED BY <2>1, <2>2, <2>3, Zenon
<1>9. Range(Unflushed') = Range(Unflushed) \cup {e}
  BY <1>4, <1>8, LogConcat, Zenon
<1>10. Clean(Loaded', Visible' \o buffer')
  <2>1. Visible' \o buffer' = (Visible \o buffer) \o <<e>> /\ Visible \o buffer \in Log
    <3>1. Visible \o buffer \in Log
      BY <1>0, LogConcat, Zenon
    <3>2. (Visible \o buffer) \o <<e>> = Visible \o (buffer \o <<e>>)
      BY <1>0, <1>4, LogAssociative, Zenon
    <3> QED BY <1>2, <1>5, <3>1, <3>2, Zenon
  <2>2. Range(Visible \o buffer) = Range(Visible) \cup Range(buffer)
    BY <1>0, LogConcat, Zenon
  <2>3. e \in {Flush, Torn} \/
          (e.txn # None /\ Kind(e) # "failed" /\ Free(e, Range(Loaded) \cup Range(Visible \o buffer)))
    BY <2>2, Zenon DEF Records
  <2>4. Clean(Loaded, Visible \o buffer)
    BY Zenon DEF Durable, Core
  <2>5. Clean(Loaded, (Visible \o buffer) \o <<e>>)
    <3> DEFINE log == Visible \o buffer
    <3>1. log \in Log /\ Loaded \in Log /\ Clean(Loaded, log) /\ e \in Entry \cup {Flush, Torn}
      BY <1>1, <2>1, <2>4, Zenon DEF Shape
    <3>2. e \in {Flush, Torn} \/
            (e.txn # None /\ Kind(e) # "failed" /\ Free(e, Range(Loaded) \cup Range(log)))
      BY <2>3, Zenon
    <3> HIDE DEF log
    <3>3. Clean(Loaded, log \o <<e>>)
      BY <3>1, <3>2, CleanAppend, Zenon
    <3> QED BY <3>3, Zenon DEF log
  <2> QED BY <1>2, <2>1, <2>5, Zenon
<1>11. Records' = Records \cup {e}
  BY <1>2, <1>6, Zenon DEF Records
<1> QED BY <1>2, <1>3, <1>4, <1>8, <1>9, <1>10, <1>11, Zenon

\* Entries of a transaction that are written are the first ones, in order.
LEMMA NextEntry ==
  ASSUME NEW t \in Txn, NEW n \in Nat, n < Len(Group[t])
  PROVE  /\ SubSeq(GroupEntries(t), 1, n) \in Log
         /\ SubSeq(GroupEntries(t), 1, n + 1) =
              SubSeq(GroupEntries(t), 1, n) \o <<[txn |-> t, n |-> n + 1]>>
         /\ \A e \in Range(SubSeq(GroupEntries(t), 1, n)) : e.txn = t
<1> DEFINE G == GroupEntries(t)
<1>1. /\ G \in Log /\ Len(G) = Len(Group[t]) /\ Len(Group[t]) \in Nat
      /\ \A i \in 1..Len(Group[t]) : G[i] = [txn |-> t, n |-> i]
      /\ \A e \in Range(G) : e.txn = t
  BY GroupFacts, Zenon
<1> HIDE DEF G
<1>2. \A i \in 1..Len(G) : G[i] \in Range(G)
  BY <1>1, RangeEquality, Zenon DEF Log
<1>3. SubSeq(G, 1, n) \in Seq(Range(G)) /\ Range(G) \subseteq Entry \cup {Flush, Torn}
  <2>1. Range(G) \subseteq Entry \cup {Flush, Torn}
    BY <1>1, RangeOfSeq, Zenon DEF Log
  <2>2. \A i \in 1..n : G[i] \in Range(G)
    BY <1>1, <1>2
  <2> QED BY <2>1, <2>2, SubSeqProperties
<1>4. SubSeq(G, 1, n) \in Log
  BY <1>3, SeqMonotonic, Zenon DEF Log
<1>5. Range(SubSeq(G, 1, n)) \in SUBSET Range(G)
  BY <1>3, RangeOfSeq, Zenon
<1>6. SubSeq(G, 1, n + 1) = SubSeq(G, 1, n) \o <<G[n + 1]>>
  <2>1. 1 \in 1..Len(G) /\ n + 1 \in 1..Len(G) /\ (n + 1) - 1 = n
    BY <1>1
  <2> QED BY <1>1, <2>1, SubSeqRecursiveSecond DEF Log
<1>7. G[n + 1] = [txn |-> t, n |-> n + 1]
  BY <1>1
<1> QED BY <1>1, <1>4, <1>5, <1>6, <1>7, Zenon DEF G

\* The record that WriteEntry writes is new, and so is what it makes.
LEMMA EntryWritten ==
  ASSUME NoFailures, StorageInv, StorageInv', Durable, Claims, WriteEntry, ~retried',
         NEW e, e = [txn |-> doubt, n |-> written + 1]
  PROVE  /\ doubt \in Txn /\ doubt # None /\ doubt \notin thrown /\ written \in Nat
         /\ e \in Entry /\ Real(e) /\ e # Flush /\ e.txn = doubt /\ Free(e, Records)
         /\ Kind(e) # "failed"
<1>1. doubt \in Txn /\ doubt # None /\ doubt \notin thrown
  BY StorageAssumption, Zenon DEF WriteEntry, StorageInv, Progress, Durable, Core
<1>2. written \in Nat /\ written < Len(Group[doubt]) /\ Len(Group[doubt]) \in Nat
  BY <1>1, StorageAssumption DEF WriteEntry, StorageInv, StorageTypeOK
<1>3. e \in Entry /\ e.txn = doubt /\ e.n = written + 1 /\ e # Flush
  BY <1>1, <1>2 DEF Entry, Flush
<1>4. written + 1 \in 1..Len(Group[doubt])
  BY <1>2
<1>5. Real(e) /\ Kind(e) # "failed"
  BY <1>1, <1>3, <1>4, Zenon DEF Real, Kind, NoFailures
<1>6. \A x \in Records : x.txn = doubt => x.n <= written
  BY Zenon DEF WriteEntry, Durable, Committing
<1>7. Free(e, Records)
  <2> SUFFICES ASSUME Makes(e) # None, NEW x \in Records, Makes(x) = Makes(e)
               PROVE  FALSE
    BY Zenon DEF Free
  <2>1. Shape /\ pc = "commit" /\ ~Retries(e)
    BY Shapes, Zenon DEF WriteEntry
  <2>2. x.txn # None
    BY Zenon DEF Makes
  <2>3. CASE x \in Range(db)
    <3>1. ~Taken(GroupEntries(doubt)[written + 1], db)
      BY <1>4, <2>1, Zenon DEF Claims, Running
    <3>2. GroupEntries(doubt)[written + 1] = e
      BY <1>1, <1>4, GroupFacts, Zenon
    <3>3. Range(db) = {db[i] : i \in 1..Len(db)}
      BY <2>1, RangeEquality, Zenon DEF Shape, Log
    <3> QED BY <2>3, <3>1, <3>2, <3>3, Zenon DEF Taken
  <2>4. CASE x.txn \in thrown /\ x \in Range(Visible) \cup Range(buffer)
    <3>1. wal[iteration] = Visible
      BY <2>1, Zenon DEF Visible, StorageInv, Progress, Durable, Serving, Running
    <3>2. /\ Range(Visible) = {Visible[i] : i \in 1..Len(Visible)}
          /\ Range(buffer) = {buffer[i] : i \in 1..Len(buffer)}
      BY <2>1, RangeEquality, Zenon DEF Shape, Log
    <3> QED BY <2>1, <2>4, <3>1, <3>2, Zenon DEF Retries
  <2>5. CASE x.txn = doubt
    <3>1. Real(x) /\ x.n <= written
      BY <1>6, <2>5, Zenon DEF Durable, Core
    <3>2. x.n \in 1..Len(Group[doubt])
      <4>1. x \notin {Flush, Torn}
        BY <1>1, <2>5 DEF Flush, Torn
      <4> QED BY <2>5, <3>1, <4>1, Zenon DEF Real
    <3>3. x.n # written + 1
      BY <1>2, <3>1, <3>2
    <3>4. Makes(x) = Group[doubt][x.n].makes /\ Makes(e) = Group[doubt][written + 1].makes
      BY <1>1, <1>3, <2>5, Zenon DEF Makes
    <3> QED BY <1>1, <1>4, <3>2, <3>3, <3>4, StorageAssumption, Zenon
  <2> QED BY <2>1, <2>2, <2>3, <2>4, <2>5, Zenon DEF Records, Claims, Running
<1> QED BY <1>1, <1>2, <1>3, <1>5, <1>7, Zenon

\* An entry of the transaction that commits, in the buffer.
LEMMA EntryKeeps ==
  ASSUME NoFailures, StorageInv, StorageInv', Durable, Claims, WriteEntry, ~retried',
         Group[doubt][written + 1].kind # "index"
  PROVE  Durable' /\ Recovered' = Recovered
<1>1. PICK e : e = [txn |-> doubt, n |-> written + 1]
  BY Zenon
<1>2. /\ doubt \in Txn /\ doubt # None /\ doubt \notin thrown /\ written \in Nat
      /\ e \in Entry /\ Real(e) /\ e # Flush /\ e.txn = doubt /\ Free(e, Records)
      /\ Kind(e) # "failed"
  BY <1>1, EntryWritten, Zenon
<1>3. /\ pc = "commit" /\ pc' = "commit" /\ written' = written + 1
      /\ written < Len(Group[doubt]) /\ buffer' = Append(buffer, e)
      /\ UNCHANGED disk /\ UNCHANGED <<iteration, db, acked, doubt, thrown>>
  BY <1>1, Zenon DEF WriteEntry
<1>4. /\ Loaded' = Loaded /\ Visible' = Visible /\ LoadedIteration' = LoadedIteration
      /\ Recovered' = Recovered
      /\ Unflushed \in Log /\ Unflushed' = Unflushed \o <<e>> /\ <<e>> \in Log
      /\ Range(Unflushed') = Range(Unflushed) \cup {e}
      /\ Clean(Loaded', Visible' \o buffer')
      /\ Records' = Records \cup {e}
  <2>1. e \in Entry \cup {Flush} /\ (e = Flush \/ (e.txn # None /\ Kind(e) # "failed" /\ Free(e, Records)))
    BY <1>2, Zenon
  <2> QED BY <1>3, <2>1, Buffered, Zenon
<1>5. NotYet'
  BY <1>3, <1>4, Zenon DEF NotYet, Durable, Committing
<1>6. Authors' = Authors /\ doubt \in Authors
  BY <1>3, Zenon DEF Authors
<1>7. Core'
  <2>1. \A x \in Records' : Real(x) /\ x.txn \in Authors'
    BY <1>2, <1>4, <1>6, Zenon DEF Durable, Core
  <2>2. doubt' \notin thrown' /\ NothingOf(doubt', acked')
    BY <1>2, <1>3, Zenon DEF Durable, Core
  <2> QED BY <1>4, <1>5, <2>1, <2>2, Zenon DEF Core
<1>8. Opening'
  BY <1>3, Zenon DEF Opening, Rebuilding, Moved
<1>9. Serving'
  BY <1>3, <1>4, <1>6, Zenon DEF Durable, Serving, Running
<1>10. Same(thrown', Unflushed', SubSeq(GroupEntries(doubt'), 1, written'))
  <2> DEFINE P == SubSeq(GroupEntries(doubt), 1, written)
  <2>1. P \in Log /\ SubSeq(GroupEntries(doubt), 1, written + 1) = P \o <<e>>
    BY <1>1, <1>2, <1>3, NextEntry, Zenon
  <2>2. Same(thrown, Unflushed, P) /\ Same(thrown, <<e>>, <<e>>)
    BY <1>3, Zenon DEF Durable, Committing, Same
  <2> HIDE DEF P
  <2>3. Same(thrown, Unflushed \o <<e>>, P \o <<e>>)
    BY <1>4, <2>1, <2>2, SameConcat, Zenon
  <2> QED BY <1>3, <1>4, <2>1, <2>3, Zenon
<1>11. \A x \in Records' : x.txn = doubt' => x.n <= written'
  <2>1. \A x \in Records : x.txn = doubt => x.n <= written /\ x.n \in Nat
    <3>1. \A x \in Records : x.txn = doubt => x.n <= written
      BY <1>3, Zenon DEF Durable, Committing
    <3>2. \A x \in Records : x.txn = doubt => x.n \in Nat
      <4> SUFFICES ASSUME NEW x \in Records, x.txn = doubt PROVE x.n \in Nat
        BY Zenon
      <4>1. Real(x) /\ x \notin {Flush, Torn}
        BY <1>2 DEF Durable, Core, Flush, Torn
      <4>2. x.n \in 1..Len(Group[doubt]) /\ Len(Group[doubt]) \in Nat
        BY <1>2, <4>1, GroupFacts, Zenon DEF Real
      <4> QED BY <4>2
    <3> QED BY <3>1, <3>2, Zenon
  <2>2. e.n = written + 1
    BY <1>1, Zenon
  <2> QED BY <1>2, <1>3, <1>4, <2>1, <2>2
<1>12. written' <= Len(Group[doubt'])
  BY <1>2, <1>3, GroupFacts
<1>13. Flush \notin Range(Unflushed')
  BY <1>2, <1>3, <1>4, Zenon DEF Durable, Committing
<1>14. Committing'
  BY <1>3, <1>5, <1>10, <1>11, <1>12, <1>13, Zenon DEF Committing
<1> QED BY <1>4, <1>7, <1>8, <1>9, <1>14, Zenon DEF Durable

\* The entry of a CREATE INDEX, after which the commit throws: from now on the
\* entries of the transaction do not count.
LEMMA ThrowKeeps ==
  ASSUME NoFailures, StorageInv, StorageInv', Durable, Claims, WriteEntry, ~retried',
         Group[doubt][written + 1].kind = "index"
  PROVE  /\ Durable' /\ Recovered' = Recovered
         /\ doubt \in Txn /\ thrown' = thrown \cup {doubt} /\ NothingOf(doubt, Recovered)
<1>1. PICK e : e = [txn |-> doubt, n |-> written + 1]
  BY Zenon
<1>2. /\ doubt \in Txn /\ doubt # None /\ doubt \notin thrown /\ written \in Nat
      /\ e \in Entry /\ Real(e) /\ e # Flush /\ e.txn = doubt /\ Free(e, Records)
      /\ Kind(e) # "failed"
  BY <1>1, EntryWritten, Zenon
<1>3. /\ pc = "commit" /\ pc' = "open" /\ written' = 0 /\ doubt' = None
      /\ thrown' = thrown \cup {doubt}
      /\ written < Len(Group[doubt]) /\ buffer' = Append(buffer, e)
      /\ UNCHANGED disk /\ UNCHANGED <<iteration, db, acked>>
  BY <1>1, Zenon DEF WriteEntry
<1>4. /\ Loaded' = Loaded /\ Visible' = Visible /\ LoadedIteration' = LoadedIteration
      /\ Recovered' = Recovered
      /\ Unflushed \in Log /\ Unflushed' = Unflushed \o <<e>> /\ <<e>> \in Log
      /\ Range(Unflushed') = Range(Unflushed) \cup {e}
      /\ Clean(Loaded', Visible' \o buffer')
      /\ Records' = Records \cup {e}
  <2>1. e \in Entry \cup {Flush} /\ (e = Flush \/ (e.txn # None /\ Kind(e) # "failed" /\ Free(e, Records)))
    BY <1>2, Zenon
  <2> QED BY <1>3, <2>1, Buffered, Zenon
<1>5. Shape /\ Shape'
  BY Shapes, ShapesNext, Zenon
<1>6. /\ NothingOf(doubt, Recovered) /\ NothingOf(doubt, acked) /\ NothingOf(doubt, db)
      /\ Same(thrown, Recovered, acked) /\ Same(thrown, db, acked)
  BY <1>2, <1>3, Zenon DEF Durable, Core, Committing, Serving, Running, NotYet
<1>7. Same(thrown', Recovered, acked) /\ Same(thrown', db, acked)
  <2> DEFINE T == thrown \cup {doubt}
  <2>0. Recovered \in Log /\ acked \in Log /\ db \in Log
    BY <1>5, Zenon DEF Shape
  <2>1. EntriesOf(T, Recovered) = EntriesOf(thrown, Recovered) /\ OrderOf(T, Recovered) = OrderOf(thrown, Recovered)
    BY <1>6, <2>0, SameWithout, Zenon
  <2>2. EntriesOf(T, acked) = EntriesOf(thrown, acked) /\ OrderOf(T, acked) = OrderOf(thrown, acked)
    BY <1>6, <2>0, SameWithout, Zenon
  <2>3. EntriesOf(T, db) = EntriesOf(thrown, db) /\ OrderOf(T, db) = OrderOf(thrown, db)
    BY <1>6, <2>0, SameWithout, Zenon
  <2> QED BY <1>3, <1>6, <2>1, <2>2, <2>3, Zenon DEF Same
<1>8. NotYet'
  BY <1>3, <1>4, <1>7, Zenon DEF NotYet
<1>9. Authors \subseteq Authors' /\ doubt \in Authors'
  BY <1>3, Zenon DEF Authors
<1>10. Core'
  <2>1. \A x \in Records' : Real(x) /\ x.txn \in Authors'
    BY <1>2, <1>4, <1>9, Zenon DEF Durable, Core
  <2> QED BY <1>3, <1>4, <1>8, <2>1, Zenon DEF Core
<1>11. Opening'
  BY <1>3, Zenon DEF Opening, Rebuilding, Moved
<1>12. Serving'
  <2>1. /\ iteration = LoadedIteration /\ Torn \notin Range(Visible)
        /\ \A x \in Range(db) : x.txn \in Authors
    BY <1>3, Zenon DEF Durable, Serving, Running
  <2> QED BY <1>3, <1>4, <1>7, <1>9, <2>1, Zenon DEF Serving
<1>13. Same(thrown', Unflushed', <<>>)
  <2> DEFINE P == SubSeq(GroupEntries(doubt), 1, written)
  <2>1. P \in Log /\ \A x \in Range(P) : x.txn = doubt
    BY <1>2, <1>3, NextEntry, Zenon
  <2>2. Same(thrown, Unflushed, P)
    BY <1>3, Zenon DEF Durable, Committing
  <2> HIDE DEF P
  <2>3. EntriesOf(thrown, Unflushed) \subseteq Range(P)
    BY <2>1, <2>2, EntriesInRange, Zenon DEF Same
  <2>4. ASSUME NEW x \in Range(Unflushed'), CountsWithout(thrown', x) PROVE FALSE
    <3>1. x.txn # doubt /\ CountsWithout(thrown, x)
      BY <1>3, <2>4, Zenon DEF CountsWithout
    <3>2. x \in Range(Unflushed)
      BY <1>2, <1>4, <3>1, Zenon
    <3>3. x \in EntriesOf(thrown, Unflushed)
      BY <1>4, <3>1, <3>2, RangeCounts, Zenon
    <3> QED BY <2>1, <2>3, <3>1, <3>3, Zenon
  <2>5. Unflushed' \in Log
    BY <1>4, LogConcat, Zenon
  <2> QED BY <2>4, <2>5, SameAsNone, Zenon
<1>14. Flush \notin Range(Unflushed')
  BY <1>2, <1>3, <1>4, Zenon DEF Durable, Committing
<1>15. Committing'
  BY <1>3, <1>8, <1>13, <1>14, Zenon DEF Committing
<1> QED BY <1>2, <1>3, <1>4, <1>6, <1>10, <1>11, <1>12, <1>15, Zenon DEF Durable

-----------------------------------------------------------------------------
(* Records that reach the log.                                              *)

\* What is left of a log that grows.
LEMMA RestGrows ==
  ASSUME NEW log \in Log, NEW s \in Log, NEW n \in 0..Len(log)
  PROVE  SubSeq(log \o s, n + 1, Len(log \o s)) = SubSeq(log, n + 1, Len(log)) \o s
<1> DEFINE longer == log \o s
           rest == SubSeq(log, n + 1, Len(log))
           lhs == SubSeq(longer, n + 1, Len(longer))
           rhs == rest \o s
           R == Entry \cup {Flush, Torn}
<1>1. /\ Len(log) \in Nat /\ Len(s) \in Nat /\ longer \in Seq(R)
      /\ Len(longer) = Len(log) + Len(s)
      /\ \A j \in 1..Len(log) + Len(s) : longer[j] = IF j <= Len(log) THEN log[j] ELSE s[j - Len(log)]
  BY ConcatProperties DEF Log
<1>2. /\ rest \in Seq(R) /\ Len(rest) = Len(log) - n
      /\ \A i \in 1..(Len(log) - n) : rest[i] = log[n + i]
  <2>1. \A i \in (n + 1)..Len(log) : log[i] \in R
    BY <1>1 DEF Log
  <2>2. /\ rest \in Seq(R) /\ Len(rest) = IF n + 1 <= Len(log) THEN Len(log) - (n + 1) + 1 ELSE 0
        /\ \A i \in 1..Len(log) - (n + 1) + 1 : rest[i] = log[(n + 1) + i - 1]
    BY <1>1, <2>1, SubSeqProperties
  <2> HIDE DEF rest
  <2> QED BY <1>1, <2>2
<1> HIDE DEF longer
<1>3. /\ lhs \in Seq(R) /\ Len(lhs) = Len(longer) - n
      /\ \A i \in 1..(Len(longer) - n) : lhs[i] = longer[n + i]
  <2>1. \A i \in (n + 1)..Len(longer) : longer[i] \in R
    BY <1>1
  <2>2. /\ lhs \in Seq(R) /\ Len(lhs) = IF n + 1 <= Len(longer) THEN Len(longer) - (n + 1) + 1 ELSE 0
        /\ \A i \in 1..Len(longer) - (n + 1) + 1 : lhs[i] = longer[(n + 1) + i - 1]
    BY <1>1, <2>1, SubSeqProperties
  <2> HIDE DEF lhs
  <2> QED BY <1>1, <2>2
<1> HIDE DEF lhs, rest
<1>4. /\ rhs \in Seq(R) /\ Len(rhs) = Len(rest) + Len(s)
      /\ \A i \in 1..Len(rest) + Len(s) : rhs[i] = IF i <= Len(rest) THEN rest[i] ELSE s[i - Len(rest)]
  BY <1>2, ConcatProperties, Zenon DEF Log
<1> HIDE DEF rhs, R
<1>5. Len(lhs) = Len(rhs) /\ \A i \in 1..Len(lhs) : lhs[i] = rhs[i]
  <2>1. Len(lhs) = Len(rhs)
    BY <1>1, <1>2, <1>3, <1>4
  <2>2. ASSUME NEW i \in 1..Len(lhs) PROVE lhs[i] = rhs[i]
    <3>1. /\ i \in 1..(Len(longer) - n) /\ i \in 1..Len(rest) + Len(s)
          /\ n + i \in 1..Len(log) + Len(s)
          /\ (n + i <= Len(log) <=> i <= Len(rest)) /\ (n + i) - Len(log) = i - Len(rest)
      BY <1>1, <1>2, <1>3
    <3>2. lhs[i] = IF n + i <= Len(log) THEN log[n + i] ELSE s[(n + i) - Len(log)]
      BY <3>1, <1>1, <1>3, Zenon
    <3>3. rhs[i] = IF i <= Len(rest) THEN rest[i] ELSE s[i - Len(rest)]
      BY <3>1, <1>4, Zenon
    <3>4. i <= Len(rest) => rest[i] = log[n + i]
      BY <1>2
    <3> QED BY <3>1, <3>2, <3>3, <3>4, Zenon
  <2> QED BY <2>1, <2>2, Zenon
<1>6. lhs = rhs
  BY <1>3, <1>4, <1>5, SeqEqual, Zenon
<1> QED BY <1>6, Zenon DEF lhs, rhs, longer, rest

\* A log is what is replayed of it and the rest.
LEMMA ReplayedAndRest ==
  ASSUME NEW before, NEW log \in Log
  PROVE  log = Replayed(before, log) \o SubSeq(log, ReplayEnd(before, log) + 1, Len(log))
<1> DEFINE n == ReplayEnd(before, log)
<1>1. Len(log) \in Nat
  BY DEF Log
<1>2. n \in 0..Len(log)
  BY <1>1, ReplayEndExists, Zenon
<1> HIDE DEF n
<1>3. 1 \in 1..Len(log) + 1 /\ n \in (1 - 1)..Len(log) /\ Len(log) \in n..Len(log)
  BY <1>1, <1>2
<1>4. SubSeq(log, 1, n) \o SubSeq(log, n + 1, Len(log)) = SubSeq(log, 1, Len(log))
  BY <1>3, ConcatAdjacentSubSeq, Zenon DEF Log
<1>5. SubSeq(log, 1, Len(log)) = log
  BY SubSeqFull, Zenon DEF Log
<1> QED BY <1>4, <1>5, Zenon DEF Replayed, n

\* Writing to the open log.
LEMMA Logged ==
  ASSUME StorageInv, StorageInv', Durable, pc \in Running, NEW s \in Log,
         wal' = [wal EXCEPT ![iteration] = @ \o s], UNCHANGED <<meta, data>>
  PROVE  /\ Loaded' = Loaded /\ LoadedIteration' = LoadedIteration
         /\ Visible' = Visible \o s
<1>1. iteration = LoadedIteration /\ iteration \in {0, 1}
  BY Zenon DEF Durable, Serving, StorageInv, StorageTypeOK
<1>2. wal[iteration] # NoFile
  BY Zenon DEF StorageInv, Progress, Running
<1>3. wal' \in [{0, 1} -> Log \cup {NoFile}] /\ wal'[iteration] # NoFile
  BY <1>2, Extended, Zenon DEF StorageInv
<1>4. Loaded' = Loaded /\ LoadedIteration' = LoadedIteration
  BY Zenon DEF Loaded, LoadedIteration
<1>5. wal'[iteration] = wal[iteration] \o s
  BY <1>1, Zenon DEF StorageInv, StorageTypeOK
<1> QED BY <1>1, <1>2, <1>3, <1>4, <1>5, Zenon DEF Visible

\* Records go from the buffer to the log, and no WAL_FLUSH is among them: a
\* restart finds what it found before.
LEMMA MoreLogged ==
  ASSUME Shape, Shape', NEW s \in Log, Loaded' = Loaded, Visible' = Visible \o s,
         buffer = s \o buffer', Flush \notin Range(s)
  PROVE  /\ Recovered' = Recovered /\ Unflushed' = Unflushed /\ Records' = Records
         /\ Visible' \o buffer' = Visible \o buffer
<1>0. Loaded \in Log /\ Visible \in Log /\ buffer' \in Log /\ s \in Log /\ buffer \in Log
  BY Zenon DEF Shape
<1>1. /\ ReplayEnd(Loaded, Visible \o s) = ReplayEnd(Loaded, Visible)
      /\ Replayed(Loaded, Visible \o s) = Replayed(Loaded, Visible)
  BY <1>0, ReplayGrows, Zenon
<1>2. Recovered' = Recovered
  BY <1>1, Zenon DEF Shape
<1> DEFINE n == ReplayEnd(Loaded, Visible)
           rest == SubSeq(Visible, n + 1, Len(Visible))
<1>3. n \in 0..Len(Visible)
  <2>1. Len(Visible) \in Nat
    BY <1>0 DEF Log
  <2> QED BY <2>1, ReplayEndExists, Zenon
<1>4. rest \in Log
  BY <1>0, RestType, Zenon
<1> HIDE DEF n
<1>5. SubSeq(Visible \o s, n + 1, Len(Visible \o s)) = rest \o s
  BY <1>0, <1>3, RestGrows, Zenon
<1>6. Unflushed' = SubSeq(Visible', n + 1, Len(Visible')) \o buffer'
  BY <1>1, Zenon DEF Unflushed, n
<1>7. Unflushed = rest \o buffer
  BY Zenon DEF Unflushed, n
<1> HIDE DEF rest
<1>8. (rest \o s) \o buffer' = rest \o (s \o buffer')
  <2>1. buffer' \in Log
    BY <1>0, Zenon
  <2> QED BY <1>4, <2>1, LogAssociative, Zenon
<1>9. Unflushed' = Unflushed
  BY <1>5, <1>6, <1>7, <1>8, Zenon
<1>10. Range(Visible') = Range(Visible) \cup Range(s) /\ Range(buffer) = Range(s) \cup Range(buffer')
  BY <1>0, LogConcat, Zenon
<1>11. Records' = Records
  BY <1>10, Zenon DEF Records
<1>12. (Visible \o s) \o buffer' = Visible \o (s \o buffer')
  <2>1. Visible \in Log /\ buffer' \in Log
    BY <1>0, Zenon
  <2> QED BY <2>1, LogAssociative, Zenon
<1> QED BY <1>2, <1>9, <1>11, <1>12, Zenon

\* The WAL_FLUSH of the transaction in doubt reaches the log: a restart finds the
\* transaction as a whole.
LEMMA Flushed ==
  ASSUME StorageInv, StorageInv', Durable, pc = "sync", Pending,
         Loaded' = Loaded, Visible' = Visible \o buffer, buffer' = <<>>,
         UNCHANGED <<doubt, acked, thrown>>
  PROVE  /\ Done' /\ Records' = Records /\ Visible' \o buffer' = Visible \o buffer
         /\ doubt \in Txn /\ Same(thrown, Recovered', Recovered \o GroupEntries(doubt))
<1>1. Shape /\ Shape'
  BY Shapes, ShapesNext, Zenon
<1>0. Loaded \in Log /\ Visible \in Log /\ buffer \in Log /\ acked \in Log /\ Recovered \in Log
  BY <1>1, Zenon DEF Shape
<1>2. doubt \in Txn /\ doubt # None
  BY StorageAssumption, Zenon DEF StorageInv, Progress
<1> DEFINE G == GroupEntries(doubt)
           rest == SubSeq(Visible, ReplayEnd(Loaded, Visible) + 1, Len(Visible))
           done == Replayed(Loaded, Visible)
<1>3. G \in Log
  BY <1>2, GroupFacts, Zenon
<1>4. rest \in Log /\ done \in Log /\ Visible = done \o rest /\ Recovered = Loaded \o done
  BY <1>0, <1>1, RestType, ReplayedAndRest, Zenon DEF Shape
<1>5. Unflushed = rest \o buffer
  BY Zenon DEF Unflushed
<1>6. Visible' \in Log /\ Visible' # <<>> /\ Visible'[Len(Visible')] = Flush
  <2>1. Len(buffer) \in Nat /\ Len(buffer) # 0 /\ Len(Visible) \in Nat
    BY <1>0, EmptySeq DEF Pending, Log
  <2>2. /\ Visible \o buffer \in Log /\ Len(Visible \o buffer) = Len(Visible) + Len(buffer)
        /\ \A j \in 1..Len(Visible) + Len(buffer) :
             (Visible \o buffer)[j] = IF j <= Len(Visible) THEN Visible[j] ELSE buffer[j - Len(Visible)]
    BY <1>0, ConcatProperties, Zenon DEF Log
  <2>3. (Visible \o buffer)[Len(Visible) + Len(buffer)] = buffer[Len(buffer)]
    BY <2>1, <2>2
  <2>4. Visible \o buffer # <<>>
    BY <1>0, ConcatEqualIffEmpty DEF Pending, Log
  <2> QED BY <2>2, <2>3, <2>4, Zenon DEF Pending
<1>7. Torn \notin Range(Visible')
  <2>1. Torn \notin Range(Visible)
    BY Zenon DEF Durable, Serving, Running
  <2>2. Range(buffer) \subseteq Entry \cup {Flush}
    BY <1>1, RangeOfSeq, Zenon DEF Shape, Contents
  <2>3. Torn \notin Entry \cup {Flush}
    BY StorageAssumption DEF Torn, Flush, Entry
  <2>4. Range(Visible \o buffer) = Range(Visible) \cup Range(buffer)
    BY <1>0, LogConcat, Zenon
  <2> QED BY <2>1, <2>2, <2>3, <2>4, Zenon
<1>8. Clean(Loaded, Visible')
  BY Zenon DEF Durable, Core
<1>9. ReplayEnd(Loaded, Visible') = Len(Visible') /\ Replayed(Loaded, Visible') = Visible'
  BY <1>6, <1>7, <1>8, ReplaysAll, Zenon
<1> HIDE DEF rest, done, G
<1>10. Recovered' = Recovered \o Unflushed /\ Unflushed \in Log
  <2>1. Recovered' = Loaded \o Visible'
    BY <1>1, <1>9, Zenon DEF Shape
  <2>2. done \in Log /\ rest \in Log /\ buffer \in Log
    BY <1>0, <1>4, Zenon
  <2>3. (done \o rest) \o buffer = done \o (rest \o buffer)
    BY <2>2, LogAssociative, Zenon
  <2>4. PICK u : u = rest \o buffer
    BY Zenon
  <2>5. u \in Log
    BY <2>2, <2>4, LogConcat, Zenon
  <2>6. Loaded \in Log /\ done \in Log
    BY <1>0, <1>4, Zenon
  <2>7. (Loaded \o done) \o u = Loaded \o (done \o u)
    BY <2>5, <2>6, LogAssociative, Zenon
  <2> QED BY <1>4, <1>5, <2>1, <2>3, <2>4, <2>5, <2>7, Zenon
<1>11. Same(thrown, Unflushed, G) /\ Same(thrown, Recovered, acked) /\ Same(thrown, Recovered, Recovered)
  BY Zenon DEF Pending, NotYet, Same, G
<1>12. Same(thrown, Recovered \o Unflushed, acked \o G) /\ Same(thrown, Recovered \o Unflushed, Recovered \o G)
  BY <1>0, <1>3, <1>10, <1>11, SameConcat, Zenon
<1>13. Already'
  BY <1>2, <1>10, <1>12, Zenon DEF Already, G
<1>14. Unflushed' = <<>>
  <2>1. Len(Visible') \in Nat
    BY <1>6 DEF Log
  <2>2. SubSeq(Visible', Len(Visible') + 1, Len(Visible')) = <<>>
    BY <2>1, SubSeqEmpty
  <2> QED BY <1>9, <2>2, ConcatEmptySeq DEF Unflushed
<1>15. Range(Visible') = Range(Visible) \cup Range(buffer) /\ Range(buffer') = {}
  BY <1>0, LogConcat, EmptyRange, Zenon
<1>16. Records' = Records
  BY <1>15, Zenon DEF Records
<1>17. Visible' \o buffer' = Visible \o buffer
  BY <1>6, ConcatEmptySeq, Zenon DEF Log
<1> QED BY <1>2, <1>10, <1>12, <1>13, <1>14, <1>16, <1>17, Zenon DEF Done, G

\* WAL_FLUSH, in the buffer.
LEMMA FlushKeeps ==
  ASSUME StorageInv, StorageInv', Durable, WriteFlush
  PROVE  Durable' /\ Recovered' = Recovered
<1>1. /\ pc = "commit" /\ pc' = "sync" /\ written = Len(Group[doubt])
      /\ buffer' = Append(buffer, Flush)
      /\ UNCHANGED disk /\ UNCHANGED <<iteration, db, written, doubt, acked, thrown>>
  BY Zenon DEF WriteFlush, history
<1>2. Shape /\ Shape'
  BY Shapes, ShapesNext, Zenon
<1>3. doubt \in Txn /\ doubt # None
  BY <1>1, StorageAssumption, Zenon DEF StorageInv, Progress
<1>4. /\ Loaded' = Loaded /\ Visible' = Visible /\ LoadedIteration' = LoadedIteration
      /\ Recovered' = Recovered
      /\ Unflushed \in Log /\ Unflushed' = Unflushed \o <<Flush>> /\ <<Flush>> \in Log
      /\ Range(Unflushed') = Range(Unflushed) \cup {Flush}
      /\ Clean(Loaded', Visible' \o buffer')
      /\ Records' = Records \cup {Flush}
  <2>1. Flush \in Entry \cup {Flush} /\ (Flush = Flush \/ (Flush.txn # None /\ Kind(Flush) # "failed" /\ Free(Flush, Records)))
    BY Zenon
  <2> QED BY <1>1, <2>1, Buffered, Zenon
<1>5. NotYet'
  BY <1>1, <1>4, Zenon DEF NotYet, Durable, Committing
<1>6. Authors' = Authors /\ None \in Authors
  BY <1>1, Zenon DEF Authors
<1>7. Core'
  <2>1. Real(Flush) /\ Flush.txn = None
    BY Zenon DEF Real, Flush
  <2>2. \A x \in Records' : Real(x) /\ x.txn \in Authors'
    BY <1>4, <1>6, <2>1, Zenon DEF Durable, Core
  <2>3. doubt' \notin thrown' /\ NothingOf(doubt', acked')
    BY <1>1, <1>3, Zenon DEF Durable, Core
  <2> QED BY <1>4, <1>5, <2>2, <2>3, Zenon DEF Core
<1>8. Opening'
  BY <1>1, Zenon DEF Opening, Rebuilding, Moved
<1>9. Serving'
  BY <1>1, <1>4, <1>6, Zenon DEF Durable, Serving, Running
<1>10. Same(thrown', Unflushed', GroupEntries(doubt'))
  <2> DEFINE G == GroupEntries(doubt)
  <2>1. G \in Log /\ Len(G) = Len(Group[doubt])
    BY <1>3, GroupFacts, Zenon
  <2>2. SubSeq(G, 1, written) = G
    BY <1>1, <2>1, SubSeqFull, Zenon DEF Log
  <2>3. Same(thrown, Unflushed, G)
    BY <1>1, <2>2, Zenon DEF Durable, Committing
  <2> HIDE DEF G
  <2>4. Same(thrown, <<Flush>>, <<>>)
    <3>1. Range(<<Flush>>) = {<<Flush>>[i] : i \in 1..Len(<<Flush>>)}
      BY <1>4, RangeEquality, Zenon DEF Log
    <3>2. \A x \in Range(<<Flush>>) : x = Flush
      BY <3>1
    <3>3. ~CountsWithout(thrown, Flush)
      BY Zenon DEF CountsWithout, Flush
    <3> QED BY <1>4, <3>2, <3>3, SameAsNone, Zenon
  <2>5. <<>> \in Log /\ G \o <<>> = G
    BY <2>1, ConcatEmptySeq DEF Log
  <2>6. Same(thrown, Unflushed \o <<Flush>>, G \o <<>>)
    BY <1>4, <2>1, <2>3, <2>4, <2>5, SameConcat, Zenon
  <2> QED BY <1>1, <1>4, <2>5, <2>6, Zenon DEF G
<1>11. Pending'
  <2>1. buffer' # <<>> /\ buffer'[Len(buffer')] = Flush
    <3>1. buffer \in Seq(Entry \cup {Flush, Torn}) /\ Flush \in Entry \cup {Flush, Torn}
      BY <1>2, Zenon DEF Shape, Contents, Log
    <3>2. buffer' = Append(buffer, Flush)
      BY <1>1, Zenon
    <3> QED BY <3>1, <3>2, AppendProperties
  <2>2. /\ Len(Unflushed) \in Nat /\ Len(Unflushed') = Len(Unflushed) + 1
        /\ \A i \in 1..Len(Unflushed) : Unflushed'[i] = Unflushed[i] /\ Unflushed[i] \in Range(Unflushed)
    <3>1. /\ Len(Unflushed) \in Nat /\ Len(<<Flush>>) = 1
          /\ \A i \in 1..Len(Unflushed) : Unflushed[i] \in Range(Unflushed)
      BY <1>4, RangeEquality DEF Log
    <3>2. /\ Len(Unflushed \o <<Flush>>) = Len(Unflushed) + Len(<<Flush>>)
          /\ \A i \in 1..Len(Unflushed) + Len(<<Flush>>) :
               (Unflushed \o <<Flush>>)[i] = IF i <= Len(Unflushed) THEN Unflushed[i] ELSE <<Flush>>[i - Len(Unflushed)]
      BY <1>4, ConcatProperties, Zenon DEF Log
    <3>3. Unflushed' = Unflushed \o <<Flush>>
      BY <1>4, Zenon
    <3>4. PICK n \in Nat : n = Len(Unflushed)
      BY <3>1, Zenon
    <3>5. Len(Unflushed') = n + 1 /\ \A i \in 1..n + 1 : i <= n => Unflushed'[i] = Unflushed[i]
      BY <3>1, <3>2, <3>3, <3>4, Zenon
    <3>6. \A i \in 1..n : i \in 1..n + 1 /\ i <= n
      BY <3>4
    <3> QED BY <3>1, <3>4, <3>5, <3>6, Zenon
  <2>3. Flush \notin Range(Unflushed)
    BY <1>1, Zenon DEF Durable, Committing
  <2>4. \A i \in 1..(Len(Unflushed') - 1) : Unflushed'[i] # Flush
    BY <2>2, <2>3
  <2> QED BY <1>5, <1>10, <2>1, <2>4, Zenon DEF Pending
<1>12. Committing'
  BY <1>1, <1>11, Zenon DEF Committing
<1> QED BY <1>4, <1>7, <1>8, <1>9, <1>12, Zenon DEF Durable

\* Records of a running process that reach the log change nothing else.
LEMMA SameCore ==
  ASSUME Core, Loaded' = Loaded, Recovered' = Recovered, Records' = Records,
         Visible' \o buffer' = Visible \o buffer, UNCHANGED <<doubt, acked, thrown>>
  PROVE  /\ Core' /\ Authors' = Authors /\ (NotYet => NotYet') /\ (Already => Already')
<1>1. Authors' = Authors
  BY Zenon DEF Authors
<1>2. (NotYet => NotYet') /\ (Already => Already')
  BY Zenon DEF NotYet, Already
<1> QED BY <1>1, <1>2, Zenon DEF Core

\* The first record of the buffer goes to the log, and it is not the last one of
\* a commit.
LEMMA SpillKeeps ==
  ASSUME StorageInv, StorageInv', Durable, Spill, Head(buffer) # Flush
  PROVE  Durable' /\ Recovered' = Recovered
<1>1. /\ buffer # <<>> /\ wal' = [wal EXCEPT ![iteration] = Append(@, Head(buffer))]
      /\ buffer' = Tail(buffer)
      /\ UNCHANGED <<meta, data, pc, iteration, db, written, doubt, acked, thrown>>
  BY Zenon DEF Spill, history
<1>2. Shape /\ Shape'
  BY Shapes, ShapesNext, Zenon
<1>3. pc \in {"open", "commit", "sync"} /\ pc \in Running
  BY <1>1, Zenon DEF StorageInv, Progress, Running
<1>4. PICK h : h = Head(buffer)
  BY Zenon
<1>5. /\ h \in Entry \cup {Flush} /\ h # Flush
      /\ buffer' \in Seq(Entry \cup {Flush}) /\ Len(buffer') = Len(buffer) - 1 /\ Len(buffer) \in Nat
      /\ \A i \in 1..Len(buffer') : buffer'[i] = buffer[i + 1]
  BY <1>1, <1>2, <1>4, HeadTailProperties DEF Shape, Contents
<1>6. <<h>> \in Log /\ Range(<<h>>) = {h}
  <2>1. <<h>> \in Log
    BY <1>5 DEF Log
  <2>2. Range(<<h>>) = {<<h>>[i] : i \in 1..Len(<<h>>)}
    BY <2>1, RangeEquality, Zenon DEF Log
  <2> QED BY <2>1, <2>2
<1>7. buffer = <<h>> \o buffer'
  BY <1>1, <1>2, <1>4 DEF Shape, Contents
<1>8. wal' = [wal EXCEPT ![iteration] = @ \o <<h>>]
  <2>1. iteration \in {0, 1} /\ wal[iteration] \in Log
    BY <1>3, Zenon DEF StorageInv, StorageTypeOK, Progress
  <2>2. Append(wal[iteration], h) = wal[iteration] \o <<h>>
    BY <1>5, <2>1, AppendIsConcat DEF Log
  <2> QED BY <1>1, <1>4, <2>2, Zenon
<1>9. /\ Loaded' = Loaded /\ LoadedIteration' = LoadedIteration /\ Visible' = Visible \o <<h>>
  BY <1>1, <1>3, <1>6, <1>8, Logged, Zenon
<1>10. Flush \notin Range(<<h>>)
  BY <1>5, <1>6, Zenon
<1>11. /\ Recovered' = Recovered /\ Unflushed' = Unflushed /\ Records' = Records
       /\ Visible' \o buffer' = Visible \o buffer
  BY <1>2, <1>6, <1>7, <1>9, <1>10, MoreLogged, Zenon
<1>12. Core' /\ Authors' = Authors /\ (NotYet => NotYet') /\ (Already => Already')
  BY <1>1, <1>9, <1>11, SameCore, Zenon DEF Durable
<1>13. Opening'
  BY <1>1, <1>3, Zenon DEF Opening, Rebuilding, Moved, Durable
<1>14. Serving'
  <2>0. Visible \in Log
    BY <1>2, Zenon DEF Shape
  <2>1. Range(Visible') = Range(Visible) \cup {h}
    BY <1>6, <1>9, <2>0, LogConcat, Zenon
  <2>2. Torn \notin Entry \cup {Flush}
    BY StorageAssumption DEF Torn, Flush, Entry
  <2>3. Torn \notin Range(Visible')
    BY <1>3, <1>5, <2>1, <2>2, Zenon DEF Durable, Serving
  <2> QED BY <1>1, <1>3, <1>9, <1>12, <2>3, Zenon DEF Durable, Serving
<1>15. Committing'
  <2>1. CASE pc = "open"
    BY <1>1, <1>11, <1>12, <2>1, Zenon DEF Durable, Committing
  <2>2. CASE pc = "commit"
    BY <1>1, <1>11, <1>12, <2>2, Zenon DEF Durable, Committing
  <2>3. CASE pc = "sync"
    <3>1. Pending
      BY <1>1, <2>3, Zenon DEF Durable, Committing, Done
    <3>2. Len(buffer) # 0 /\ buffer[1] = h
      BY <1>1, <1>2, <1>4, EmptySeq DEF Shape, Contents
    <3>3. Len(buffer') \in Nat /\ Len(buffer') # 0
      BY <1>5, <3>1, <3>2 DEF Pending
    <3>4. buffer' # <<>> /\ buffer'[Len(buffer')] = buffer[Len(buffer)]
      BY <1>5, <3>3
    <3>5. Pending'
      BY <1>1, <1>11, <1>12, <3>1, <3>4, Zenon DEF Pending
    <3> QED BY <1>1, <2>3, <3>5, Zenon DEF Committing
  <2> QED BY <1>3, <2>1, <2>2, <2>3, Zenon
<1> QED BY <1>11, <1>12, <1>13, <1>14, <1>15, Zenon DEF Durable

\* The last record of a commit reaches the log, alone or with the whole buffer.
LEMMA SyncKeeps ==
  ASSUME StorageInv, StorageInv', Durable, pc = "sync", Pending, pc' \in {"sync", "return"},
         wal' = [wal EXCEPT ![iteration] = @ \o buffer], buffer' = <<>>,
         UNCHANGED <<meta, data, iteration, db, doubt, acked, thrown>>
  PROVE  Durable' /\ doubt \in Txn /\ Same(thrown, Recovered', Recovered \o GroupEntries(doubt))
<1>1. Shape /\ Shape'
  BY Shapes, ShapesNext, Zenon
<1>2. pc \in Running /\ buffer \in Log /\ Visible \in Log
  BY <1>1, Zenon DEF Running, Shape
<1>3. Loaded' = Loaded /\ LoadedIteration' = LoadedIteration /\ Visible' = Visible \o buffer
  BY <1>2, Logged, Zenon
<1>4. /\ Done' /\ Records' = Records /\ Visible' \o buffer' = Visible \o buffer
      /\ doubt \in Txn /\ Same(thrown, Recovered', Recovered \o GroupEntries(doubt))
  BY <1>3, Flushed, Zenon
<1>5. Authors' = Authors
  BY Zenon DEF Authors
<1>6. Core'
  BY <1>3, <1>4, <1>5, Zenon DEF Durable, Core, Done
<1>7. Opening'
  BY Zenon DEF Opening, Rebuilding, Moved
<1>8. Serving'
  <2>1. Range(Visible') = Range(Visible) \cup Range(buffer)
    BY <1>2, <1>3, LogConcat, Zenon
  <2>2. Range(buffer) \subseteq Entry \cup {Flush}
    BY <1>1, RangeOfSeq, Zenon DEF Shape, Contents
  <2>3. Torn \notin Entry \cup {Flush}
    BY StorageAssumption DEF Torn, Flush, Entry
  <2>4. Torn \notin Range(Visible')
    BY <1>2, <2>1, <2>2, <2>3, Zenon DEF Durable, Serving
  <2> QED BY <1>2, <1>3, <1>5, <2>4, Zenon DEF Durable, Serving
<1>9. Committing'
  BY <1>4, Zenon DEF Committing
<1> QED BY <1>4, <1>6, <1>7, <1>8, <1>9, Zenon DEF Durable

\* When stdio writes the WAL_FLUSH, it is the last record of the buffer.
LEMMA SpillsFlush ==
  ASSUME StorageInv, Durable, Spill, Head(buffer) = Flush
  PROVE  /\ pc = "sync" /\ Pending
         /\ wal' = [wal EXCEPT ![iteration] = @ \o buffer] /\ buffer' = <<>>
<1>1. /\ buffer # <<>> /\ wal' = [wal EXCEPT ![iteration] = Append(@, Head(buffer))]
      /\ buffer' = Tail(buffer)
  BY Zenon DEF Spill
<1>2. Shape
  BY Shapes, Zenon
<1>3. pc \in {"open", "commit", "sync"}
  BY <1>1, Zenon DEF StorageInv, Progress
<1> DEFINE rest == SubSeq(Visible, ReplayEnd(Loaded, Visible) + 1, Len(Visible))
<1>4. rest \in Log /\ buffer \in Log
  BY <1>2, RestType, Zenon DEF Shape
<1>5. Unflushed = rest \o buffer
  BY Zenon DEF Unflushed
<1> HIDE DEF rest
<1>6. /\ Len(rest) \in Nat /\ Len(buffer) \in Nat /\ Len(buffer) # 0 /\ buffer[1] = Flush
  BY <1>1, <1>4, EmptySeq DEF Log
<1>7. /\ Len(Unflushed) = Len(rest) + Len(buffer) /\ Unflushed[Len(rest) + 1] = Flush
      /\ Unflushed[Len(rest) + 1] \in Range(Unflushed)
  <2>1. /\ rest \o buffer \in Log /\ Len(rest \o buffer) = Len(rest) + Len(buffer)
        /\ \A j \in 1..Len(rest) + Len(buffer) :
             (rest \o buffer)[j] = IF j <= Len(rest) THEN rest[j] ELSE buffer[j - Len(rest)]
    BY <1>4, ConcatProperties DEF Log
  <2>2. \A j \in 1..Len(rest \o buffer) : (rest \o buffer)[j] \in Range(rest \o buffer)
    BY <2>1, RangeEquality, Zenon DEF Log
  <2> QED BY <1>5, <1>6, <2>1, <2>2
<1>8. pc = "sync"
  BY <1>3, <1>7, Zenon DEF Durable, Committing
<1>9. Pending
  BY <1>1, <1>8, Zenon DEF Durable, Committing, Done
<1>10. Len(buffer) = 1
  <2>1. \A i \in 1..(Len(Unflushed) - 1) : Unflushed[i] # Flush
    BY <1>9, Zenon DEF Pending
  <2>2. Len(rest) + 1 \notin 1..(Len(Unflushed) - 1)
    BY <1>7, <2>1, Zenon
  <2>3. PICK n \in Nat, m \in Nat : n = Len(rest) /\ m = Len(buffer)
    BY <1>4 DEF Log
  <2>4. n + 1 \notin 1..(n + m) - 1 /\ m # 0
    BY <1>6, <1>7, <2>2, <2>3, Zenon
  <2> QED BY <2>3, <2>4
<1>11. buffer' = <<>>
  <2>1. Tail(buffer) \in Seq(Entry \cup {Flush, Torn}) /\ Len(Tail(buffer)) = Len(buffer) - 1
    BY <1>1, <1>4, HeadTailProperties, Zenon DEF Log
  <2> QED BY <1>1, <1>10, <2>1, EmptySeq
<1>12. wal' = [wal EXCEPT ![iteration] = @ \o buffer]
  <2>1. wal[iteration] \in Log
    BY <1>8, Zenon DEF StorageInv, StorageTypeOK, Progress
  <2>2. Append(wal[iteration], Flush) = wal[iteration] \o <<Flush>>
    BY <2>1, AppendIsConcat DEF Log
  <2>3. buffer = <<Flush>>
    BY <1>4, <1>6, <1>10 DEF Log
  <2> QED BY <1>1, <2>2, <2>3, Zenon
<1> QED BY <1>8, <1>9, <1>11, <1>12, Zenon

\* fflush and fsync when the buffer has been written already.
LEMMA SyncedKeeps ==
  ASSUME StorageInv, StorageInv', Durable, FileSync, Done
  PROVE  Durable' /\ Recovered' = Recovered
<1>1. /\ pc = "sync" /\ pc' = "return" /\ wal' = [wal EXCEPT ![iteration] = @ \o buffer]
      /\ buffer' = <<>> /\ buffer = <<>>
      /\ UNCHANGED <<meta, data, iteration, db, written, doubt, acked, thrown>>
  BY Zenon DEF FileSync, history, Done
<1>2. Shape /\ Shape'
  BY Shapes, ShapesNext, Zenon
<1>3. pc \in Running /\ buffer \in Log /\ Visible \in Log
  BY <1>1, <1>2, Zenon DEF Running, Shape
<1>4. Loaded' = Loaded /\ LoadedIteration' = LoadedIteration /\ Visible' = Visible \o buffer
  BY <1>1, <1>3, Logged, Zenon
<1>5. Visible' = Visible
  BY <1>1, <1>3, <1>4, ConcatEmptySeq, Zenon DEF Log
<1>6. /\ Core' /\ Recovered' = Recovered /\ Unflushed' = Unflushed
      /\ Records' = Records /\ Authors' = Authors /\ (Already => Already')
  <2>1. UNCHANGED <<buffer, doubt, acked, thrown>>
    BY <1>1, Zenon
  <2> QED BY <1>4, <1>5, <2>1, Frame, Zenon DEF Durable
<1>7. Opening'
  BY <1>1, Zenon DEF Opening, Rebuilding, Moved
<1>8. Serving'
  BY <1>1, <1>3, <1>4, <1>5, <1>6, Zenon DEF Durable, Serving, Running
<1>9. Committing'
  BY <1>1, <1>6, Zenon DEF Committing, Done
<1> QED BY <1>6, <1>7, <1>8, <1>9, Zenon DEF Durable

\* The commit returns: the transaction in doubt is one of the committed ones.
LEMMA ReturnKeeps ==
  ASSUME StorageInv, StorageInv', Durable, CommitReturns
  PROVE  Durable' /\ Recovered' = Recovered
<1> DEFINE G == GroupEntries(doubt)
<1>1. /\ pc = "return" /\ pc' = "open" /\ db' = db \o G /\ acked' = acked \o G
      /\ doubt' = None /\ written' = 0
      /\ UNCHANGED disk /\ UNCHANGED <<iteration, buffer, thrown>>
  BY Zenon DEF CommitReturns
<1>2. Shape /\ Shape'
  BY Shapes, ShapesNext, Zenon
<1>3. doubt \in Txn /\ doubt # None
  BY <1>1, StorageAssumption, Zenon DEF StorageInv, Progress
<1>4. G \in Log /\ acked \in Log /\ db \in Log
  BY <1>2, <1>3, GroupFacts, Zenon DEF Shape
<1>5. Loaded' = Loaded /\ Visible' = Visible /\ LoadedIteration' = LoadedIteration
  BY <1>1, Zenon DEF Loaded, Visible, LoadedIteration, disk
<1>6. /\ Recovered' = Recovered /\ Unflushed' = Unflushed /\ Records' = Records
  BY <1>1, <1>2, <1>5, Zenon DEF Shape, Unflushed, Records
<1>7. Done
  BY <1>1, Zenon DEF Durable, Committing
<1>8. NotYet'
  BY <1>1, <1>6, <1>7, Zenon DEF Done, Already, NotYet
<1>9. /\ Range(acked \o G) = Range(acked) \cup Range(G)
      /\ Range(db \o G) = Range(db) \cup Range(G)
  BY <1>4, LogConcat, Zenon
<1>10. ASSUME NEW e \in Records PROVE Real(e) /\ e.txn \in Authors'
  <2>1. Real(e) /\ e.txn \in Authors
    BY Zenon DEF Durable, Core
  <2>2. CASE e.txn = doubt
    <3>1. e.txn \in {x.txn : x \in Range(acked \o G)}
      BY <1>3, <1>4, <2>1, <2>2, EntriesAcked, Zenon
    <3> QED BY <1>1, <2>1, <3>1, Zenon DEF Authors
  <2>3. CASE e.txn # doubt
    BY <1>1, <1>9, <2>1, <2>3, Zenon DEF Authors
  <2> QED BY <2>2, <2>3, Zenon
<1> HIDE DEF G
<1>11. Core'
  <2>1. Clean(Loaded', Visible' \o buffer')
    BY <1>1, <1>5, Zenon DEF Durable, Core
  <2>2. \A e \in Records' : Real(e) /\ e.txn \in Authors'
    BY <1>6, <1>10, Zenon
  <2> QED BY <1>1, <1>8, <2>1, <2>2, Zenon DEF Core
<1>12. Opening'
  BY <1>1, Zenon DEF Opening, Rebuilding, Moved
<1>13. Serving'
  <2>1. /\ iteration = LoadedIteration /\ Torn \notin Range(Visible) /\ Same(thrown, db, acked)
        /\ \A e \in Range(db) : e.txn \in Authors /\ e.txn # doubt
    BY <1>1, <1>3, Zenon DEF Durable, Serving, Running, NothingOf
  <2>2. Same(thrown, G, G)
    BY Zenon DEF Same
  <2>3. Same(thrown, db \o G, acked \o G)
    BY <1>4, <2>1, <2>2, SameConcat, Zenon
  <2>4. \A e \in Range(db') : e.txn \in Authors'
    BY <1>1, <1>9, <2>1, Zenon DEF Authors
  <2> QED BY <1>1, <1>5, <2>1, <2>3, <2>4, Zenon DEF Serving
<1>14. Committing'
  <2>1. Unflushed' = <<>>
    BY <1>6, <1>7, Zenon DEF Done
  <2> QED BY <1>1, <1>8, <2>1, EmptyRange, Zenon DEF Committing, Same
<1> QED BY <1>6, <1>11, <1>12, <1>13, <1>14 DEF Durable

-----------------------------------------------------------------------------
(* The end of the process.                                                  *)

\* A process that is not there has nothing in memory.
LEMMA ClosedKeeps ==
  ASSUME Core', pc' = "closed", written' = 0
  PROVE  Durable'
BY Zenon DEF Durable, Opening, Serving, Committing, Rebuilding, Moved, Running

\* The database is closed: fclose writes what is left of commits that threw.
LEMMA CloseKeeps ==
  ASSUME StorageInv, StorageInv', Durable, Close
  PROVE  Durable' /\ Recovered' = Recovered
<1>1. /\ pc = "open" /\ pc' = "closed" /\ wal' = [wal EXCEPT ![iteration] = @ \o buffer]
      /\ buffer' = <<>> /\ written' = 0
      /\ UNCHANGED <<meta, data, doubt, acked, thrown>>
  BY Zenon DEF Close, Stop, history
<1>2. Shape /\ Shape'
  BY Shapes, ShapesNext, Zenon
<1>3. pc \in Running /\ buffer \in Log
  BY <1>1, <1>2, Zenon DEF Running, Shape
<1>4. Loaded' = Loaded /\ LoadedIteration' = LoadedIteration /\ Visible' = Visible \o buffer
  BY <1>1, <1>3, Logged, Zenon
<1>5. Flush \notin Range(buffer)
  <2> DEFINE rest == SubSeq(Visible, ReplayEnd(Loaded, Visible) + 1, Len(Visible))
  <2>1. rest \in Log
    BY <1>2, RestType, Zenon DEF Shape
  <2>2. Unflushed = rest \o buffer
    BY Zenon DEF Unflushed
  <2> HIDE DEF rest
  <2>3. Range(rest \o buffer) = Range(rest) \cup Range(buffer)
    BY <1>3, <2>1, LogConcat, Zenon
  <2> QED BY <1>1, <2>2, <2>3, Zenon DEF Durable, Committing
<1>6. buffer = buffer \o buffer'
  BY <1>1, <1>3, ConcatEmptySeq, Zenon DEF Log
<1>7. /\ Recovered' = Recovered /\ Records' = Records
      /\ Visible' \o buffer' = Visible \o buffer
  BY <1>2, <1>3, <1>4, <1>5, <1>6, MoreLogged, Zenon
<1>8. Core'
  BY <1>1, <1>4, <1>7, SameCore, Zenon DEF Durable
<1> QED BY <1>1, <1>7, <1>8, ClosedKeeps, Zenon

\* A crash: the buffer is lost, the log may end with a record cut short.
LEMMA CrashKeeps ==
  ASSUME StorageInv, StorageInv', Durable, Crash
  PROVE  Durable' /\ Recovered' = Recovered
<1>1. /\ pc' = "closed" /\ buffer' = <<>> /\ written' = 0
      /\ UNCHANGED <<meta, data, doubt, acked, thrown>>
  BY Zenon DEF Crash, Stop
<1>2. Shape /\ Shape'
  BY Shapes, ShapesNext, Zenon
<1>0. Loaded \in Log /\ Visible \in Log /\ buffer \in Log
  BY <1>2, Zenon DEF Shape
<1>3. PICK s \in Log : /\ s \in {<<>>, <<Torn>>}
                       /\ Loaded' = Loaded /\ Visible' = Visible \o s
  <2>1. <<>> \in Log /\ <<Torn>> \in Log
    BY DEF Log
  <2>2. CASE UNCHANGED wal
    <3>1. Loaded' = Loaded /\ Visible' = Visible
      BY <1>1, <2>2, Zenon DEF Loaded, Visible, LoadedIteration
    <3>2. Visible \o <<>> = Visible
      BY <1>0, ConcatEmptySeq, Zenon DEF Log
    <3> QED BY <2>1, <3>1, <3>2, Zenon
  <2>3. CASE buffer # <<>> /\ wal' = [wal EXCEPT ![iteration] = Append(@, Torn)]
    <3>1. pc \in Running /\ wal[iteration] \in Log
      BY <2>3, Zenon DEF StorageInv, StorageTypeOK, Progress, Running
    <3>2. Append(wal[iteration], Torn) = wal[iteration] \o <<Torn>>
      BY <3>1, AppendIsConcat DEF Log
    <3>3. wal' = [wal EXCEPT ![iteration] = @ \o <<Torn>>]
      BY <2>3, <3>2, Zenon
    <3>4. Loaded' = Loaded /\ Visible' = Visible \o <<Torn>>
      BY <1>1, <2>1, <3>1, <3>3, Logged, Zenon
    <3> QED BY <2>1, <3>4, Zenon
  <2> QED BY <2>2, <2>3, Zenon DEF Crash
<1>4. Range(s) \subseteq {Torn}
  <2>1. Range(<<Torn>>) = {<<Torn>>[i] : i \in 1..Len(<<Torn>>)}
    <3>1. <<Torn>> \in Log
      BY DEF Log
    <3> QED BY <3>1, RangeEquality, Zenon DEF Log
  <2>2. Range(<<Torn>>) = {Torn}
    BY <2>1
  <2> QED BY <1>3, <2>2, EmptyRange, Zenon
<1>5. Recovered' = Recovered
  <2>1. Flush # Torn
    BY DEF Flush, Torn
  <2>2. Flush \notin Range(s)
    BY <1>4, <2>1, Zenon
  <2>3. Replayed(Loaded, Visible \o s) = Replayed(Loaded, Visible)
    BY <1>0, <2>2, ReplayGrows, Zenon
  <2> QED BY <1>2, <1>3, <2>3, Zenon DEF Shape
<1>6. Clean(Loaded', Visible' \o buffer')
  <2>1. Clean(Loaded, Visible)
    BY <1>0, CleanPrefix, Zenon DEF Durable, Core
  <2>2. Clean(Loaded, Visible \o s)
    <3>1. CASE s = <<>>
      BY <1>0, <2>1, <3>1, ConcatEmptySeq, Zenon DEF Log
    <3>2. CASE s = <<Torn>>
      <4>1. Torn \in Entry \cup {Flush, Torn} /\ Torn \in {Flush, Torn}
        BY Zenon
      <4>2. Clean(Loaded, Visible \o <<Torn>>)
        BY <1>0, <2>1, <4>1, CleanAppend, Zenon
      <4> QED BY <3>2, <4>2, Zenon
    <3> QED BY <1>3, <3>1, <3>2, Zenon
  <2>3. Visible \o s \in Log
    BY <1>0, LogConcat, Zenon
  <2>4. (Visible \o s) \o <<>> = Visible \o s
    BY <2>3, ConcatEmptySeq, Zenon DEF Log
  <2> QED BY <1>1, <1>3, <2>2, <2>4, Zenon
<1>7. Records' \subseteq Records \cup {Torn}
  <2>1. Range(Visible') = Range(Visible) \cup Range(s)
    BY <1>0, <1>3, LogConcat, Zenon
  <2> QED BY <1>1, <1>3, <1>4, <2>1, EmptyRange, Zenon DEF Records
<1>8. Core'
  <2>1. Authors' = Authors /\ None \in Authors
    BY <1>1, Zenon DEF Authors
  <2>2. Real(Torn) /\ Torn.txn = None
    BY Zenon DEF Real, Torn
  <2>3. \A e \in Records' : Real(e) /\ e.txn \in Authors'
    BY <1>7, <2>1, <2>2, Zenon DEF Durable, Core
  <2>4. (NotYet => NotYet') /\ (Already => Already')
    BY <1>1, <1>5, Zenon DEF NotYet, Already
  <2> QED BY <1>1, <1>6, <2>3, <2>4, Zenon DEF Durable, Core
<1> QED BY <1>1, <1>5, <1>8, ClosedKeeps, Zenon

\* A directory without a database.
LEMMA DurableInit == StorageInit => Durable
<1> SUFFICES ASSUME StorageInit PROVE Durable
  BY Zenon
<1>1. /\ Loaded = <<>> /\ Visible = <<>> /\ buffer = <<>> /\ Recovered = <<>>
      /\ doubt = None /\ acked = <<>> /\ pc = "closed" /\ written = 0
  BY Zenon DEF StorageInit, Loaded, Visible, LoadedIteration, Recovered
<1>2. Visible \o buffer = <<>>
  BY <1>1
<1>3. Core
  <2>1. Clean(Loaded, Visible \o buffer)
    BY <1>2 DEF Clean
  <2>2. Records = {}
    BY <1>1, EmptyRange, Zenon DEF Records
  <2>3. NotYet
    BY <1>1, Zenon DEF NotYet, Same
  <2> QED BY <1>1, <2>1, <2>2, <2>3, Zenon DEF Core
<1> QED BY <1>1, <1>3, Zenon DEF Durable, Opening, Serving, Committing, Rebuilding, Moved, Running

-----------------------------------------------------------------------------
(* Every step.                                                              *)

\* What a restart finds after a step, compared with what it found before.
Grown ==
  \/ Committed(Recovered)' = Committed(Recovered)
  \/ \E t \in Txn : Committed(Recovered)' = Committed(Recovered \o GroupEntries(t))

\* What counts of what a restart finds after a step.
LEMMA CommittedAfter ==
  Committed(Recovered)' =
    [entries |-> EntriesOf(thrown', Recovered'), order |-> OrderOf(thrown', Recovered')]
BY Zenon DEF Committed, EntriesOf, OrderOf, Counted, CountsWithout, Counts

\* And before it.
LEMMA CommittedBefore ==
  ASSUME NEW s
  PROVE  Committed(s) = [entries |-> EntriesOf(thrown, s), order |-> OrderOf(thrown, s)]
BY Zenon DEF Committed, EntriesOf, OrderOf, Counted, CountsWithout, Counts

\* Nothing changes for a restart.
LEMMA NothingGrows ==
  ASSUME Recovered' = Recovered, thrown' = thrown
  PROVE  Grown
BY CommittedAfter, CommittedBefore, Zenon DEF Grown

\* The steps of an opening database.
LEMMA RecoverKeeps ==
  ASSUME NoFailures, StorageInv, StorageInv', Durable, Recover, ~reused'
  PROVE  Durable' /\ Grown
<1>1. Durable' /\ Recovered' = Recovered
  BY LoadKeeps, ReplayKeeps, WritingKeeps, MoveKeeps, RemovingKeeps, InitializeKeeps, Zenon DEF Recover
<1>2. thrown' = thrown
  BY Zenon DEF Recover, LoadFromStorage, Replay, RemoveLeftover, CreateDirectory, WriteData, MoveMeta,
         RemoveOldData, RemoveOldLog, Initialize, history
<1> QED BY <1>1, <1>2, NothingGrows, Zenon

\* The entries of a commit.
LEMMA WriteKeeps ==
  ASSUME NoFailures, StorageInv, StorageInv', Durable, Claims, WriteEntry, ~retried'
  PROVE  Durable' /\ Grown
<1>1. CASE Group[doubt][written + 1].kind # "index"
  <2>1. thrown' = thrown
    BY <1>1, Zenon DEF WriteEntry
  <2> QED BY <1>1, <2>1, EntryKeeps, NothingGrows, Zenon
<1>2. CASE Group[doubt][written + 1].kind = "index"
  <2>1. /\ Durable' /\ Recovered' = Recovered
        /\ thrown' = thrown \cup {doubt} /\ NothingOf(doubt, Recovered)
    BY <1>2, ThrowKeeps, Zenon
  <2>2. Recovered \in Log
    BY Shapes, Zenon DEF Shape
  <2>3. /\ EntriesOf(thrown \cup {doubt}, Recovered) = EntriesOf(thrown, Recovered)
        /\ OrderOf(thrown \cup {doubt}, Recovered) = OrderOf(thrown, Recovered)
    BY <2>1, <2>2, SameWithout, Zenon
  <2>4. Committed(Recovered)' = Committed(Recovered)
    BY <2>1, <2>3, CommittedAfter, CommittedBefore, Zenon
  <2> QED BY <2>1, <2>4, Zenon DEF Grown
<1> QED BY <1>1, <1>2, Zenon

\* The step that makes a commit durable.
LEMMA DurableGrows ==
  ASSUME StorageInv, StorageInv', Durable, pc = "sync", Pending, pc' \in {"sync", "return"},
         wal' = [wal EXCEPT ![iteration] = @ \o buffer], buffer' = <<>>,
         UNCHANGED <<meta, data, iteration, db, doubt, acked, thrown>>
  PROVE  Durable' /\ Grown
<1>1. Durable' /\ doubt \in Txn /\ Same(thrown, Recovered', Recovered \o GroupEntries(doubt))
  BY SyncKeeps, Zenon
<1>2. thrown' = thrown
  BY Zenon
<1>3. Committed(Recovered)' = Committed(Recovered \o GroupEntries(doubt))
  BY <1>1, <1>2, CommittedAfter, CommittedBefore, Zenon DEF Same
<1> QED BY <1>1, <1>3, Zenon DEF Grown

\* The log on its way to the disk.
LEMMA LoggingKeeps ==
  ASSUME StorageInv, StorageInv', Durable, FileSync \/ Spill
  PROVE  Durable' /\ Grown
<1>0. thrown' = thrown
  BY Zenon DEF FileSync, Spill, history
<1>1. CASE FileSync
  <2>1. CASE Pending
    <3>1. /\ pc = "sync" /\ pc' \in {"sync", "return"}
          /\ wal' = [wal EXCEPT ![iteration] = @ \o buffer] /\ buffer' = <<>>
          /\ UNCHANGED <<meta, data, iteration, db, doubt, acked, thrown>>
      BY <1>1, Zenon DEF FileSync, history
    <3> QED BY <2>1, <3>1, DurableGrows, Zenon
  <2>2. CASE Done
    BY <1>0, <1>1, <2>2, SyncedKeeps, NothingGrows, Zenon
  <2> QED BY <1>1, <2>1, <2>2, Zenon DEF FileSync, Durable, Committing
<1>2. CASE Spill /\ Head(buffer) = Flush
  <2>1. /\ pc = "sync" /\ Pending
        /\ wal' = [wal EXCEPT ![iteration] = @ \o buffer] /\ buffer' = <<>>
    BY <1>2, SpillsFlush, Zenon
  <2>2. /\ pc' \in {"sync", "return"}
        /\ UNCHANGED <<meta, data, iteration, db, doubt, acked, thrown>>
    BY <1>2, <2>1, Zenon DEF Spill, history
  <2> QED BY <2>1, <2>2, DurableGrows, Zenon
<1>3. CASE Spill /\ Head(buffer) # Flush
  BY <1>0, <1>3, SpillKeeps, NothingGrows, Zenon
<1> QED BY <1>1, <1>2, <1>3, Zenon

\* The other steps of the process, and its end.
LEMMA OtherKeeps ==
  ASSUME StorageInv, StorageInv', Durable,
         \/ \E t \in Txn : BeginCommit(t)
         \/ WriteFlush \/ CommitReturns \/ Close \/ Crash
  PROVE  Durable' /\ Grown
<1>1. thrown' = thrown
  BY Zenon DEF BeginCommit, WriteFlush, CommitReturns, Close, Crash, history
<1>2. Durable' /\ Recovered' = Recovered
  BY BeginKeeps, FlushKeeps, ReturnKeeps, CloseKeeps, CrashKeeps, Zenon
<1> QED BY <1>1, <1>2, NothingGrows, Zenon

\* A step that changes nothing.
LEMMA StutterKeeps ==
  ASSUME Durable, UNCHANGED vars
  PROVE  Durable' /\ Grown
<1>1. /\ UNCHANGED <<meta, data, wal, pc, iteration, db, buffer, written, doubt, acked, thrown>>
  BY Zenon DEF vars, disk, memory, history
<1>2. Loaded' = Loaded /\ Visible' = Visible /\ Recovered' = Recovered /\ LoadedIteration' = LoadedIteration
  BY <1>1, Zenon DEF Loaded, Visible, Recovered, LoadedIteration
<1>3. Unflushed' = Unflushed /\ Records' = Records /\ Authors' = Authors
  BY <1>1, <1>2, Zenon DEF Unflushed, Records, Authors
<1>4. NotYet' = NotYet /\ Already' = Already
  BY <1>1, <1>2, Zenon DEF NotYet, Already
<1>5. Core' /\ Opening' /\ Serving'
  BY <1>1, <1>2, <1>3, <1>4, Zenon DEF Durable, Core, Opening, Serving
<1>6. Pending' = Pending /\ Done' = Done
  BY <1>1, <1>3, <1>4, Zenon DEF Pending, Done
<1>7. Committing'
  BY <1>1, <1>3, <1>4, <1>6 DEF Durable, Committing
<1> QED BY <1>1, <1>2, <1>5, <1>7, NothingGrows, Zenon DEF Durable

\* A log that is spoilt stays so.
LEMMA SpoiledStays ==
  ASSUME StorageInv, [StorageNext]_vars, ~Spoiled'
  PROVE  ~Spoiled /\ ~reused' /\ ~retried'
<1>1. ~reused' /\ ~retried'
  BY Zenon DEF Spoiled
<1>2. CASE MoveMeta
  BY <1>1, <1>2, Zenon DEF MoveMeta, Spoiled
<1>3. CASE WriteEntry
  BY <1>1, <1>3, Zenon DEF WriteEntry, Spoiled
<1>4. CASE LoadFromStorage \/ Replay \/ RemoveLeftover \/ CreateDirectory \/ WriteData
           \/ RemoveOldData \/ RemoveOldLog \/ Initialize
  <2>1. UNCHANGED <<reused, retried>>
    BY <1>4, Zenon DEF LoadFromStorage, Replay, RemoveLeftover, CreateDirectory, WriteData,
           RemoveOldData, RemoveOldLog, Initialize, history
  <2> QED BY <1>1, <2>1, Zenon DEF Spoiled
<1>5. CASE (\E t \in Txn : BeginCommit(t)) \/ WriteFlush \/ FileSync \/ CommitReturns
           \/ Spill \/ Close \/ Crash \/ UNCHANGED vars
  <2>1. UNCHANGED <<reused, retried>>
    BY <1>5, Zenon DEF BeginCommit, WriteFlush, FileSync, CommitReturns, Spill, Close, Crash, vars, history
  <2> QED BY <1>1, <2>1, Zenon DEF Spoiled
<1> QED BY <1>2, <1>3, <1>4, <1>5, Zenon DEF StorageNext, Recover

\* Opening the log: the database is what the checkpoint has, the log is empty.
LEMMA ClaimsFirst ==
  ASSUME StorageInv, StorageInv', Durable, Initialize
  PROVE  Claims'
<1>1. /\ pc' = "open" /\ UNCHANGED <<meta, data, db, buffer>>
      /\ wal' = [wal EXCEPT ![iteration] = IF @ = NoFile THEN <<>> ELSE @]
  BY Zenon DEF Initialize, memory
<1>2. iteration = LoadedIteration /\ db = Loaded /\ Visible = <<>> /\ buffer = <<>>
  BY Zenon DEF Initialize, Durable, Opening, Moved, StorageInv, Progress
<1>3. Loaded' = Loaded /\ LoadedIteration' = LoadedIteration
  BY <1>1, Zenon DEF Loaded, LoadedIteration
<1>4. Visible' = <<>>
  <2>1. wal'[iteration] = <<>>
    BY <1>1, <1>2, Zenon DEF Visible, StorageInv, StorageTypeOK
  <2> QED BY <1>2, <1>3, <2>1, Zenon DEF Visible
<1> QED BY <1>1, <1>2, <1>3, <1>4, EmptyRange, Zenon DEF Claims

\* A record that is written is one of the transaction that commits, or WAL_FLUSH.
LEMMA ClaimsWritten ==
  ASSUME StorageInv, StorageInv', Durable, Claims, WriteEntry \/ WriteFlush
  PROVE  Claims'
<1>1. PICK e : /\ buffer' = Append(buffer, e) /\ e.txn \in {doubt, None}
               /\ e \in Entry \cup {Flush}
  <2>1. CASE WriteEntry
    <3>1. doubt \in Txn /\ written \in Nat
      BY <2>1, Zenon DEF WriteEntry, StorageInv, StorageTypeOK, Progress
    <3>2. [txn |-> doubt, n |-> written + 1] \in Entry /\ [txn |-> doubt, n |-> written + 1].txn = doubt
      BY <3>1 DEF Entry
    <3> QED BY <2>1, <3>2, Zenon DEF WriteEntry
  <2>2. CASE WriteFlush
    <3>1. Flush.txn = None
      BY DEF Flush
    <3> QED BY <2>2, <3>1, Zenon DEF WriteFlush
  <2> QED BY <2>1, <2>2, Zenon
<1>2. /\ pc = "commit" /\ UNCHANGED <<meta, data, wal, db>>
      /\ doubt' = doubt \/ (doubt' = None /\ pc' = "open")
      /\ thrown \subseteq thrown' /\ doubt \in thrown' \cup {doubt'}
  BY Zenon DEF WriteEntry, WriteFlush, disk, history
<1>3. Loaded' = Loaded /\ Visible' = Visible
  BY <1>2, Zenon DEF Loaded, Visible, LoadedIteration
<1>4. Range(buffer') = Range(buffer) \cup {e}
  <2>1. buffer \in Log /\ buffer \in Contents
    BY Shapes, Zenon DEF Shape
  <2>2. <<e>> \in Log /\ Range(<<e>>) = {e}
    <3>1. <<e>> \in Log
      BY <1>1 DEF Log
    <3>2. Range(<<e>>) = {<<e>>[i] : i \in 1..Len(<<e>>)}
      BY <3>1, RangeEquality, Zenon DEF Log
    <3> QED BY <3>1, <3>2
  <2>3. buffer' = buffer \o <<e>>
    BY <1>1, <2>1, AppendIsConcat, Zenon DEF Contents
  <2> QED BY <2>1, <2>2, <2>3, LogConcat, Zenon
<1>5. pc' = "commit" => doubt' = doubt
  BY <1>2, Zenon
<1> QED BY <1>1, <1>2, <1>3, <1>4, <1>5, Zenon DEF Claims, Running

\* Records go from the buffer to the log.
LEMMA ClaimsLogged ==
  ASSUME StorageInv, StorageInv', Durable, Claims, FileSync \/ Spill
  PROVE  Claims'
<1>1. Shape /\ Shape'
  BY Shapes, ShapesNext, Zenon
<1>2. /\ pc \in Running /\ UNCHANGED <<meta, data, db, doubt, thrown>>
      /\ pc' = "commit" => pc = "commit"
  BY Zenon DEF FileSync, Spill, history, Running, StorageInv, Progress
<1>3. PICK s \in Log : /\ wal' = [wal EXCEPT ![iteration] = @ \o s]
                       /\ buffer = s \o buffer'
  <2>1. CASE FileSync
    <3>1. buffer \in Log /\ buffer \o <<>> = buffer
      BY <1>1, ConcatEmptySeq, Zenon DEF Shape, Log
    <3> QED BY <2>1, <3>1, Zenon DEF FileSync
  <2>2. CASE Spill
    <3>1. buffer \in Seq(Entry \cup {Flush}) /\ buffer # <<>>
      BY <1>1, <2>2, Zenon DEF Spill, Shape, Contents
    <3>2. PICK h \in Entry \cup {Flush} : h = Head(buffer)
      BY <3>1, HeadTailProperties, Zenon
    <3>3. <<h>> \in Log /\ buffer = <<h>> \o Tail(buffer)
      BY <3>1, <3>2 DEF Log
    <3>4. wal[iteration] \in Log
      BY <1>2, Zenon DEF StorageInv, StorageTypeOK, Progress, Running
    <3>5. Append(wal[iteration], h) = wal[iteration] \o <<h>>
      BY <3>4, AppendIsConcat DEF Log
    <3> QED BY <2>2, <3>2, <3>3, <3>5, Zenon DEF Spill
  <2> QED BY <2>1, <2>2, Zenon
<1>4. Loaded' = Loaded /\ Visible' = Visible \o s
  BY <1>2, <1>3, Logged, Zenon
<1>5. Visible \in Log /\ buffer' \in Log
  BY <1>1, Zenon DEF Shape
<1>6. Range(Visible') = Range(Visible) \cup Range(s) /\ Range(buffer) = Range(s) \cup Range(buffer')
  BY <1>3, <1>4, <1>5, LogConcat, Zenon
<1> QED BY <1>2, <1>4, <1>6, Zenon DEF Claims

\* The records of a commit that returns are in the database.
LEMMA ClaimsReturned ==
  ASSUME StorageInv, StorageInv', Durable, Claims, CommitReturns
  PROVE  Claims'
<1>1. Shape
  BY Shapes, Zenon
<1>2. /\ pc = "return" /\ pc' = "open" /\ doubt' = None /\ db' = db \o GroupEntries(doubt)
      /\ UNCHANGED <<meta, data, wal, buffer, thrown>>
  BY Zenon DEF CommitReturns, disk
<1>3. doubt \in Txn
  BY <1>2, Zenon DEF StorageInv, Progress
<1>4. Loaded' = Loaded /\ Visible' = Visible
  BY <1>2, Zenon DEF Loaded, Visible, LoadedIteration
<1>5. Range(db') = Range(db) \cup Range(GroupEntries(doubt))
  BY <1>1, <1>2, <1>3, GroupFacts, LogConcat, Zenon DEF Shape
<1>6. ASSUME NEW e \in Range(Visible) \cup Range(buffer), e.txn = doubt
      PROVE  e \in Range(GroupEntries(doubt))
  <2>1. Real(e) /\ e \notin {Flush, Torn}
    BY <1>3, <1>6, StorageAssumption DEF Durable, Core, Records, Flush, Torn
  <2>2. e.n \in 1..Len(Group[doubt])
    BY <1>6, <2>1, Zenon DEF Real
  <2>3. e \in Entry
    <3>1. Range(Visible) \subseteq Entry \cup {Flush, Torn} /\ Range(buffer) \subseteq Entry \cup {Flush, Torn}
      BY <1>1, RangeOfSeq, Zenon DEF Shape, Log
    <3> QED BY <2>1, <3>1, Zenon
  <2>4. e = [txn |-> doubt, n |-> e.n]
    BY <1>6, <2>3 DEF Entry
  <2>5. /\ GroupEntries(doubt)[e.n] = e /\ e.n \in 1..Len(GroupEntries(doubt))
        /\ GroupEntries(doubt) \in Log
    BY <1>3, <2>2, <2>4, GroupFacts, Zenon
  <2> QED BY <2>5, RangeEquality, Zenon DEF Log
<1> QED BY <1>2, <1>4, <1>5, <1>6, Zenon DEF Claims, Running

\* Every step keeps the relation between the database and the records.
LEMMA ClaimsKept ==
  ASSUME StorageInv, StorageInv', Durable, Claims, [StorageNext]_vars
  PROVE  Claims'
<1>1. CASE Initialize
  BY <1>1, ClaimsFirst, Zenon
<1>2. CASE LoadFromStorage \/ Replay \/ RemoveLeftover \/ CreateDirectory \/ WriteData \/ MoveMeta
           \/ RemoveOldData \/ RemoveOldLog \/ Close \/ Crash
  <2>1. pc' \notin Running
    BY <1>2, Zenon DEF LoadFromStorage, Replay, RemoveLeftover, CreateDirectory, WriteData, MoveMeta,
           RemoveOldData, RemoveOldLog, Close, Crash, Stop, Running
  <2> QED BY <2>1, Zenon DEF Claims
<1>3. CASE \E t \in Txn : BeginCommit(t)
  <2>1. PICK t \in Txn : BeginCommit(t)
    BY <1>3, Zenon
  <2>2. /\ pc = "open" /\ doubt' = t /\ UNCHANGED <<meta, data, wal, db, buffer, thrown>>
        /\ \A i \in 1..Len(Group[t]) : ~Taken(GroupEntries(t)[i], db)
    BY <2>1, Zenon DEF BeginCommit, disk, memory, history
  <2>3. Loaded' = Loaded /\ Visible' = Visible
    BY <2>2, Zenon DEF Loaded, Visible, LoadedIteration
  <2>4. doubt = None
    BY <2>2, Zenon DEF Durable, Committing
  <2> QED BY <2>2, <2>3, <2>4, Zenon DEF Claims, Running
<1>4. CASE WriteEntry \/ WriteFlush
  BY <1>4, ClaimsWritten, Zenon
<1>5. CASE FileSync \/ Spill
  BY <1>5, ClaimsLogged, Zenon
<1>6. CASE CommitReturns
  BY <1>6, ClaimsReturned, Zenon
<1>7. CASE UNCHANGED vars
  <2>1. UNCHANGED <<meta, data, wal, pc, db, buffer, doubt, thrown>>
    BY <1>7, Zenon DEF vars, disk, memory, history
  <2>2. Loaded' = Loaded /\ Visible' = Visible
    BY <2>1, Zenon DEF Loaded, Visible, LoadedIteration
  <2> QED BY <2>1, <2>2, Zenon DEF Claims
<1> QED BY <1>1, <1>2, <1>3, <1>4, <1>5, <1>6, <1>7, Zenon DEF StorageNext, Recover

\* Until the log is spoilt.
DurableInv == StorageInv /\ (~Spoiled => Durable /\ Claims)

\* The invariant holds at first.
LEMMA DurableFirst == StorageInit => DurableInv
<1>1. StorageInit => Claims
  BY Zenon DEF StorageInit, Claims, Running
<1> QED BY <1>1, InitInv, DurableInit, Zenon DEF DurableInv

\* Every step keeps the invariant, and what a restart finds.
LEMMA DurableStep ==
  NoFailures /\ DurableInv /\ [StorageNext]_vars => DurableInv' /\ (~Spoiled' => Grown)
<1> SUFFICES ASSUME NoFailures, DurableInv, [StorageNext]_vars
             PROVE  DurableInv' /\ (~Spoiled' => Grown)
  BY Zenon
<1>1. StorageInv /\ StorageInv'
  BY NextInv, Zenon DEF DurableInv
<1>2. ASSUME ~Spoiled' PROVE Durable' /\ Claims' /\ Grown
  <2>1. Durable /\ Claims /\ ~reused' /\ ~retried'
    BY <1>1, <1>2, SpoiledStays, Zenon DEF DurableInv
  <2>2. Durable' /\ Grown
    <3>1. CASE Recover
      BY <1>1, <2>1, <3>1, RecoverKeeps, Zenon
    <3>2. CASE WriteEntry
      BY <1>1, <2>1, <3>2, WriteKeeps, Zenon
    <3>3. CASE FileSync \/ Spill
      BY <1>1, <2>1, <3>3, LoggingKeeps, Zenon
    <3>4. CASE (\E t \in Txn : BeginCommit(t)) \/ WriteFlush \/ CommitReturns \/ Close \/ Crash
      BY <1>1, <2>1, <3>4, OtherKeeps, Zenon
    <3>5. CASE UNCHANGED vars
      BY <2>1, <3>5, StutterKeeps, Zenon
    <3> QED BY <3>1, <3>2, <3>3, <3>4, <3>5, Zenon DEF StorageNext
  <2>3. Claims'
    BY <1>1, <2>1, ClaimsKept, Zenon
  <2> QED BY <2>2, <2>3, Zenon
<1> QED BY <1>1, <1>2, Zenon DEF DurableInv

\* What the invariant says about a restart.
LEMMA DurableMeans == DurableInv => Recoverable /\ RestartKeepsCommitted
<1> SUFFICES ASSUME DurableInv, ~Spoiled
             PROVE  RecoverableAlways /\ (pc \in Running => Committed(db) = Committed(acked))
  BY Zenon DEF Recoverable, RestartKeepsCommitted, Running
<1>1. StorageInv /\ Durable /\ Shape
  BY Shapes, Zenon DEF DurableInv
<1>2. ASSUME wal[LoadedIteration] # NoFile
      PROVE  ~ReplayThrows(Loaded, wal[LoadedIteration])
  <2>1. Visible = wal[LoadedIteration]
    BY <1>2, Zenon DEF Visible
  <2>2. Loaded \in Log /\ Visible \in Log /\ buffer \in Log
    BY <1>1, Zenon DEF Shape
  <2>3. Clean(Loaded, Visible)
    BY <1>1, <2>2, CleanPrefix, Zenon DEF Durable, Core
  <2> QED BY <2>1, <2>2, <2>3, CleanThrowsNot, Zenon
<1>3. \/ Committed(Recovered) = Committed(acked)
      \/ doubt # None /\ Committed(Recovered) = Committed(acked \o GroupEntries(doubt))
  BY <1>1, CommittedSame, Zenon DEF Durable, Core, NotYet, Already
<1>4. pc \in Running => Committed(db) = Committed(acked)
  BY <1>1, CommittedSame, Zenon DEF Durable, Serving
<1> QED BY <1>2, <1>3, <1>4, Zenon DEF RecoverableAlways

-----------------------------------------------------------------------------
(* Theorems.                                                                *)

\* The files and the memory of the process hold values of their types; a replay
\* in particular never applies a record that a crash cut short
\* (WriteAheadLog::Replay).
THEOREM StorageTypeCorrect == StorageSpec => []StorageTypeOK
<1>1. StorageInv => StorageTypeOK
  BY Zenon DEF StorageInv
<1> QED BY <1>1, InitInv, NextInv, PTL DEF StorageSpec

\* However many crashes interrupt commits, recoveries and checkpoints,
\* meta.info names a directory that is completely written
\* (StorageManager::CreateCheckpoint).
THEOREM CheckpointsAreComplete == StorageSpec => []CheckpointComplete
<1>1. StorageInv => CheckpointComplete
  BY Zenon DEF StorageInv
<1> QED BY <1>1, InitInv, NextInv, PTL DEF StorageSpec

\* At every moment, between any two file operations, the log replays and a
\* restart finds all committed transactions, each once and in order, with all or
\* nothing of the one that commits, and else at most records of commits that
\* threw; for any transactions whose statements did not fail, any number of
\* crashes, until a checkpoint meets an old log or a commit makes again what a
\* commit that threw left in the log (WriteAheadLog::Replay, CreateCheckpoint).
THEOREM CommitsAreDurable == ASSUME NoFailures PROVE StorageSpec => []Recoverable
BY NoFailures, DurableFirst, DurableStep, DurableMeans, PTL DEF StorageSpec

\* Of the transactions whose commit did not throw, an open database has the
\* committed ones in memory, each once and in order, after any crashes and
\* restarts, until one of the same two events (LoadDatabase).
THEOREM RestartsKeepCommits == ASSUME NoFailures PROVE StorageSpec => []RestartKeepsCommitted
BY NoFailures, DurableFirst, DurableStep, DurableMeans, PTL DEF StorageSpec

\* No step takes back what a restart would have found, and it grows by whole
\* transactions only (WriteAheadLog::Flush, CreateCheckpoint).
THEOREM NothingForgotten == ASSUME NoFailures PROVE StorageSpec => NeverForgets
<1>1. DurableInv /\ [StorageNext]_vars => [~Spoiled' => Grown]_vars
  BY DurableStep, Zenon
<1>2. NeverForgets <=> [][~Spoiled' => Grown]_vars
  BY Zenon DEF NeverForgets, Grown
<1> QED BY <1>1, <1>2, NoFailures, DurableFirst, DurableStep, PTL DEF StorageSpec
=============================================================================
