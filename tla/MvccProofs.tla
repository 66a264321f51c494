----------------------------- MODULE MvccProofs -----------------------------
(***************************************************************************)
(* Snapshot isolation of the table, for any number of transactions, rows   *)
(* and values. The table runs its transactions as the transaction manager  *)
(* does (TableRefinesManager), so what is proved of the manager holds      *)
(* here; the invariant of the chains is then kept by every step, and what  *)
(* a transaction reads follows from it.                                    *)
(***************************************************************************)
EXTENDS EndProofs, ChainProofs, TransactionManagerProofs

-----------------------------------------------------------------------------
(* The end of a transaction: RemoveTransaction and the chains.              *)

\* RemoveTransaction cleans up in the order of the commits.
LEMMA EndIsRemoval ==
  ASSUME Manager, OwnedOnce', MvccInv, NEW t \in active_transactions, NEW n \in Nat,
         NEW unlinked \in SUBSET Txn, RemoveTransaction(t, commit_id', unlinked, n),
         commit_id' \in [Txn -> Nat],
         \A u \in Txn : u # t => commit_id'[u] = commit_id[u] /\ (WritesNext(u) => Writes(u)),
         WritesNext(t) => commit_id'[t] = current_start_timestamp,
         NEW clean, clean = CleanedBy(t, commit_id', n)
  PROVE  Removal(t, clean)
<1>W. PICK W : W = {u \in Txn : Writes(u)}
  BY Zenon
<1>V. PICK V : V = {u \in Txn : WritesNext(u)}
  BY Zenon
<1>1. TMTypeOK /\ OwnedOnce /\ Stamps /\ t \in Txn
  BY Zenon DEF Manager, TMTypeOK
<1>2. Elems(recently_committed_transactions) \subseteq Txn
  BY <1>1, ElemsWithin DEF TMTypeOK
<1>3. InOrder(recently_committed_transactions, commit_id, W)
  <2>1. ListOrder(recently_committed_transactions)
    BY Zenon DEF MvccInv
  <2>2. \A i \in 1..Len(recently_committed_transactions) :
          recently_committed_transactions[i] \in W => Writes(recently_committed_transactions[i])
    BY <1>W, Zenon
  <2> QED BY <2>1, <2>2 DEF ListOrder, InOrder
<1>4. StampedOnly(t, W, V)
  BY <1>W, <1>V DEF StampedOnly
<1>5. OrderlyRemoval(t, clean, V)
  <2>1. OrderlyRemoval(t, Elems(SubSeq(Committed(t, commit_id'), 1, n)), V)
    BY <1>1, <1>3, <1>4, RemovalInOrder
  <2> QED BY <2>1, Zenon DEF CleanedBy
<1>6. PICK rc, rcn : rc = Elems(recently_committed_transactions)
                     /\ rcn = Elems(recently_committed_transactions')
  BY Zenon
<1>7. /\ active_transactions' = active_transactions \ {t}
      /\ clean \subseteq rc \cup CommittedSet(t, commit_id')
      /\ rcn = (rc \cup CommittedSet(t, commit_id')) \ clean
      /\ CleanedUp' = CleanedUp \cup clean /\ Started' = Started
      /\ \A u \in clean, w \in rcn : w \in V => commit_id'[u] < commit_id'[w]
      /\ InOrder(recently_committed_transactions', commit_id', V)
  BY <1>5, <1>6 DEF OrderlyRemoval
<1>8. /\ CommittedSet(t, commit_id') \subseteq {t}
      /\ commit_id'[t] # 0 => t \in CommittedSet(t, commit_id')
  BY Zenon DEF CommittedSet
<1>9. active_transactions \cap rc = {}
  BY <1>1, <1>6 DEF OwnedOnce
<1>10. InUse = active_transactions \cup rc /\ InUse' = (active_transactions \ {t}) \cup rcn
  BY <1>6, <1>7 DEF InUse
<1>11. /\ clean \subseteq InUse /\ clean \cap active_transactions' = {}
       /\ InUse' \subseteq InUse \ clean
       /\ InUse \ (clean \cup {t}) \subseteq InUse'
       /\ commit_id'[t] # 0 /\ t \notin clean => t \in InUse'
  BY <1>7, <1>8, <1>9, <1>10
<1>12. rcn \subseteq Txn
  BY <1>1, <1>2, <1>6, <1>7, <1>8
<1>13. ASSUME NEW u \in clean, NEW w \in InUse' \ active_transactions', WritesNext(w)
       PROVE  commit_id'[u] < commit_id'[w]
  <2>1. w \in rcn /\ w \in Txn
    BY <1>7, <1>10, <1>12
  <2> QED BY <2>1, <1>7, <1>13, <1>V
<1>14. ListOrder(recently_committed_transactions)'
  <2>1. \A i \in 1..Len(recently_committed_transactions') :
          WritesNext(recently_committed_transactions'[i]) => recently_committed_transactions'[i] \in V
    <3>1. \A i \in 1..Len(recently_committed_transactions') :
            recently_committed_transactions'[i] \in Txn
      BY <1>6, <1>12 DEF Elems
    <3> QED BY <3>1, <1>V
  <2> QED BY <2>1, <1>7 DEF ListOrder, InOrder, Writes, WritesNext
<1>15. transaction_id' = transaction_id
  BY Zenon DEF RemoveTransaction
<1>16. InUse' \cap freed' = {}
  <2>1. active_transactions' \cap freed' = {} /\ rcn \cap freed' = {}
    BY <1>6, Zenon DEF OwnedOnce
  <2> QED BY <2>1, <1>7, <1>10
<1> QED BY <1>7, <1>11, <1>13, <1>14, <1>15, <1>16, Zenon DEF Removal

\* Cleanup and rollback take the versions of the transactions in S out of the
\* chains, and no others, but for rows that are raced from then on.
Unlinked(S) ==
  /\ version_pointers' \in [Row -> Seq(Txn \X Nat)]
  /\ raced \subseteq raced' /\ raced' \subseteq Row
  /\ \A r \in Row : MayShrink(r)
  /\ \A r \in Row \ raced' :
       /\ version_pointers'[r] = Only(version_pointers[r], Staying(r, S))
       /\ Relinked(r, S)
  /\ \A r \in Row : version_pointers[r] = <<>> => version_pointers'[r] = <<>>

\* Unlink does so.
LEMMA ChainsRelinked ==
  ASSUME MvccTypeOK, NEW S, Unlink(S)
  PROVE  Unlinked(S)
<1>0. PICK lost \in SUBSET Overlaps(S) : \E dangling \in SUBSET (Overlaps(S) \ lost) :
        /\ version_pointers' = [r \in Row |-> Only(version_pointers[r],
             (Staying(r, S) \ {i \in {1} : r \in lost}) \cup {i \in {2} : r \in dangling})]
        /\ raced' = raced \cup dangling \cup lost
  BY Zenon DEF Unlink
<1>d. PICK dangling \in SUBSET (Overlaps(S) \ lost) :
        /\ version_pointers' = [r \in Row |-> Only(version_pointers[r],
             (Staying(r, S) \ {i \in {1} : r \in lost}) \cup {i \in {2} : r \in dangling})]
        /\ raced' = raced \cup dangling \cup lost
  BY <1>0, Zenon
<1>1. /\ raced \subseteq tainted /\ tainted \subseteq Row /\ pushing \subseteq Txn \X Row
      /\ version_pointers \in [Row -> Seq(Txn \X Nat)]
  BY Zenon DEF MvccTypeOK
<1>2. \A r \in Overlaps(S) : r \in Row /\ Len(version_pointers[r]) > 1
  <2>1. \A p \in pushing : p[2] \in Row
    BY <1>1, Zenon
  <2> QED BY <2>1, <1>1, Zenon DEF Overlaps
<1>3. raced \subseteq raced' /\ raced' \subseteq Row
  BY <1>1, <1>2, <1>d, Zenon
<1>4. ASSUME NEW r \in Row
      PROVE  \E keep \in SUBSET (1..Len(version_pointers[r])) :
               /\ Thinned(version_pointers[r], version_pointers'[r], keep)
               /\ r \notin raced' => /\ keep = Staying(r, S)
                                     /\ version_pointers'[r] = Only(version_pointers[r], keep)
  <2>1. PICK c \in Chain : c = version_pointers[r]
    BY <1>1, Zenon DEF Chain
  <2>2. PICK keep : keep = (Staying(r, S) \ {i \in {1} : r \in lost}) \cup {i \in {2} : r \in dangling}
    BY Zenon
  <2>3. Staying(r, S) \subseteq 1..Len(c)
    BY <2>1, Zenon DEF Staying
  <2>4. r \in dangling => 2 \in 1..Len(c)
    <3>1. r \in dangling => Len(c) > 1
      BY <2>1, <1>2, Zenon
    <3>2. Len(c) \in Nat
      BY DEF Chain
    <3> QED BY <3>1, <3>2
  <2>5. keep \in SUBSET (1..Len(c))
    BY <2>2, <2>3, <2>4, Zenon
  <2>6. version_pointers'[r] = Only(c, keep)
    BY <2>1, <2>2, <1>d, Zenon
  <2>7. Thinned(c, version_pointers'[r], keep)
    BY <2>5, <2>6, OnlyKeepsOrder, Zenon
  <2>8. r \notin raced' => keep = Staying(r, S)
    BY <2>2, <1>d, Zenon
  <2> QED BY <2>1, <2>5, <2>6, <2>7, <2>8, Zenon
<1>5. ASSUME NEW r \in Row PROVE MayShrink(r) /\ version_pointers'[r] \in Seq(Txn \X Nat)
  <2>1. PICK keep : Thinned(version_pointers[r], version_pointers'[r], keep)
    BY <1>4, Zenon
  <2>2. version_pointers'[r] \in Seq(Txn \X Nat)
    BY <2>1, Zenon DEF Thinned
  <2> QED BY <2>1, <2>2, Zenon DEF MayShrink
<1>6. ASSUME NEW r \in Row \ raced'
      PROVE  /\ version_pointers'[r] = Only(version_pointers[r], Staying(r, S))
             /\ Relinked(r, S)
  <2>1. PICK c, d : c = version_pointers[r] /\ d = version_pointers'[r]
    BY Zenon
  <2>2. Thinned(c, d, Staying(r, S)) /\ d = Only(c, Staying(r, S))
    BY <2>1, <1>4, Zenon
  <2>3. \A i : i \in Staying(r, S) <=> i \in 1..Len(c) /\ c[i][1] \notin S
    BY <2>1, Zenon DEF Staying
  <2>4. Shortened(c, d, S)
    <3>1. PICK f \in [1..Len(d) -> 1..Len(c)] :
            /\ \A k \in 1..Len(d) : d[k] = c[f[k]] /\ f[k] \in Staying(r, S)
            /\ \A k, l \in 1..Len(d) : k < l => f[k] < f[l]
            /\ \A i \in Staying(r, S) : \E k \in 1..Len(d) : f[k] = i
      BY <2>2, Zenon DEF Thinned
    <3>2. /\ \A k \in 1..Len(d) : d[k] = c[f[k]] /\ c[f[k]][1] \notin S
          /\ \A i \in 1..Len(c) : c[i][1] \notin S => \E k \in 1..Len(d) : f[k] = i
      BY <2>3, <3>1, Zenon
    <3>3. d \in Seq(Txn \X Nat)
      BY <2>2, Zenon DEF Thinned
    <3> QED BY <3>1, <3>2, <3>3, Zenon DEF Shortened
  <2> QED BY <2>1, <2>2, <2>4, Zenon DEF Relinked
<1>7. ASSUME NEW r \in Row, version_pointers[r] = <<>> PROVE version_pointers'[r] = <<>>
  <2>1. PICK d \in Seq(Txn \X Nat) : d = version_pointers'[r]
    BY <1>5, Zenon
  <2>2. \E f : f \in [1..Len(d) -> 1..Len(version_pointers[r])]
    BY <2>1, <1>4, Zenon DEF Thinned
  <2>3. 1..Len(version_pointers[r]) = {}
    BY <1>7
  <2>4. 1 \notin 1..Len(d)
    BY <2>2, <2>3, Zenon
  <2> QED BY <2>1, <2>4
<1>8. version_pointers' \in [Row -> Seq(Txn \X Nat)]
  BY <1>5, <1>d, Zenon
<1> QED BY <1>3, <1>5, <1>6, <1>7, <1>8, Zenon DEF Unlinked

\* So the chain of a row loses the versions rolled back, on top, and those cleaned
\* up, at the end.
LEMMA RowIsCut ==
  ASSUME Manager, MvccInv, NEW r \in Row \ tainted, NEW t, NEW T, NEW clean, Ending(t, T, clean),
         Unlinked(T \cup clean), r \notin raced', NEW a, TopPart(r, T, a)
  PROVE  \E b, n : EndedAt(r, T, clean, a, b, n) /\ CutShape(r, a, b, n)
<1>1. MvccTypeOK /\ Pointers /\ Ordered(r) /\ r \in Row \ raced
  BY Zenon DEF MvccInv, MvccTypeOK
<1>2. PICK c \in Chain : c = version_pointers[r]
  BY <1>1, Zenon DEF MvccTypeOK, Chain
<1>3. PICK n \in Nat : n = Len(c)
  BY DEF Chain
<1>4. /\ a \in 0..Len(c)
      /\ \A i \in 1..Len(c) : c[i][1] \in T <=> i <= a
  BY <1>2, Zenon DEF TopPart, Positions, Writer
<1>5. ASSUME NEW i \in 1..Len(c), NEW j \in 1..Len(c), i < j, c[i][1] \notin T, c[i][1] \in clean
      PROVE  c[j][1] \in clean
  <2>1. i \in Positions(r) /\ j \in Positions(r) /\ Writer(r, i) \notin T /\ Writer(r, i) \in clean
    BY <1>2, <1>5, Zenon DEF Positions, Writer
  <2>2. Writer(r, j) \in clean
    BY <2>1, <1>1, <1>5, CleanedBelow, Zenon
  <2> QED BY <2>2, <1>2 DEF Writer
<1>6. PICK b : KeptPart(c, T \cup clean, a, b)
  BY <1>4, <1>5, KeptInterval, Zenon
<1>7. IsPart(Only(c, Staying(r, T \cup clean)), c, a, b)
  <2>1. Staying(r, T \cup clean) = {i \in 1..Len(c) : c[i][1] \notin T \cup clean}
    BY <1>2, Zenon DEF Staying
  <2> QED BY <2>1, <1>6, OnlyCuts, Zenon
<1>8. version_pointers'[r] = Only(c, Staying(r, T \cup clean))
  BY <1>1, <1>2, Zenon DEF Unlinked
<1>9. EndedAt(r, T, clean, a, b, n)
  BY <1>2, <1>3, <1>4, <1>6 DEF KeptPart, EndedAt, Positions, Writer
<1>10. CutShape(r, a, b, n)
  BY <1>2, <1>3, <1>7, <1>8, Zenon DEF IsPart, CutShape
<1> QED BY <1>9, <1>10

\* The rows of the entries in an undo buffer are rows of the table.
LEMMA RowsOfType ==
  ASSUME MvccTypeOK, NEW t \in Txn
  PROVE  RowsOf(t) \subseteq Row
<1>1. \A i \in 1..Len(undo[t]) : undo[t][i] \in UndoEntry
  BY DEF MvccTypeOK
<1>2. \A e \in UndoEntry : e.row \in Row
  BY Zenon DEF UndoEntry
<1> QED BY <1>1, <1>2, Zenon DEF RowsOf

\* CommitTransaction keeps the invariant.
LEMMA CommitKeeps ==
  ASSUME Manager, OwnedOnce', MvccInv, NEW t \in Txn, Commit(t)
  PROVE  MvccInv'
<1>n. PICK n \in Nat :
        /\ CommitTransactionCleaning(t, n)
        /\ undo' = Kept(Stamped(t, current_start_timestamp, Len(undo[t])), freed')
        /\ cardinality' = CardinalityAfter(t, Len(undo[t]))
        /\ Unlink(CleanedBy(t, [commit_id EXCEPT ![t] = current_start_timestamp], n))
  <2>1. Len(recently_committed_transactions) + 1 \in Nat
    BY DEF Manager, TMTypeOK
  <2> QED BY <2>1 DEF Commit
<1>1. /\ count' = count /\ base' = base /\ deleted' = deleted /\ mine' = mine
      /\ tainted' = raced' \cup IF current_start_timestamp < TRANSACTION_ID_START
                                  THEN tainted ELSE tainted \cup RowsOf(t)
      /\ pushing' \subseteq pushing /\ undoing' = {}
  BY Zenon DEF Commit, EndOverlap
<1>2. /\ t \in active_transactions /\ commit_id' = [commit_id EXCEPT ![t] = current_start_timestamp]
      /\ RemoveTransaction(t, commit_id', {}, n)
  BY <1>n, Zenon DEF CommitTransactionCleaning, MayEnd
<1>3. /\ MvccTypeOK /\ TMTypeOK /\ Unborn /\ Pointers
      /\ current_start_timestamp \in Nat /\ commit_id \in [Txn -> Nat]
  BY Zenon DEF MvccInv, Manager, TMTypeOK
<1>l. Len(undo[t]) \in Nat
  BY <1>3 DEF MvccTypeOK
<1>c. PICK clean : clean = CleanedBy(t, commit_id', n)
  BY Zenon
<1>4. /\ commit_id' \in [Txn -> Nat] /\ commit_id'[t] = current_start_timestamp
      /\ \A u \in Txn : u # t => commit_id'[u] = commit_id[u]
  BY <1>2, <1>3, Zenon
<1>5. Removal(t, clean)
  <2>1. \A u \in Txn : u # t => commit_id'[u] = commit_id[u] /\ (WritesNext(u) => Writes(u))
    BY <1>1, <1>4 DEF Writes, WritesNext
  <2>2. {} \in SUBSET Txn
    BY Zenon
  <2> QED BY <2>1, <2>2, <1>2, <1>4, <1>c, EndIsRemoval, Zenon
<1>6. Ending(t, {}, clean)
  BY <1>1, <1>4, <1>5 DEF Ending
<1>7. Unlinked({} \cup clean)
  <2>1. {} \cup clean = clean
    BY Zenon
  <2>2. Unlink({} \cup clean)
    BY <2>1, <1>n, <1>2, <1>c
  <2> QED BY <2>2, <1>3, ChainsRelinked, Zenon
<1>8. /\ version_pointers' \in [Row -> Seq(Txn \X Nat)]
      /\ raced \subseteq raced' /\ raced' \subseteq Row /\ \A r \in Row : MayShrink(r)
      /\ \A r \in Row \ raced' : Relinked(r, {} \cup clean)
      /\ \A r \in Row : version_pointers[r] = <<>> => version_pointers'[r] = <<>>
  BY <1>7, Zenon DEF Unlinked
<1>s. PICK st : st = Stamped(t, current_start_timestamp, Len(undo[t]))
  BY Zenon
<1>9. ASSUME NEW u \in Txn
      PROVE  /\ st[u] \in Seq(UndoEntry) /\ Len(st[u]) = Len(undo[u])
             /\ u # t => st[u] = undo[u]
             /\ \A k \in 1..Len(undo[u]) :
                  /\ st[u][k].row = undo[u][k].row /\ st[u][k].tuple_data = undo[u][k].tuple_data
                  /\ u = t => st[u][k].version_number = current_start_timestamp
  <2>1. /\ st \in [Txn -> Seq(UndoEntry)] /\ Len(st[u]) = Len(undo[u])
        /\ u # t => st[u] = undo[u]
        /\ \A k \in 1..Len(undo[u]) :
             /\ st[u][k].row = undo[u][k].row /\ st[u][k].tuple_data = undo[u][k].tuple_data
             /\ u = t /\ k <= Len(undo[t]) => st[u][k].version_number = current_start_timestamp
    BY <1>3, <1>s, StampedEntries
  <2> QED BY <2>1, <1>l
<1>10. \A u \in Txn : undo'[u] = IF u \in freed' THEN <<>> ELSE st[u]
  BY <1>n, <1>s, Zenon DEF Kept
<1>11. MvccTypeOK'
  <2>1. undo' \in [Txn -> Seq(UndoEntry)]
    <3>1. undo' = [u \in Txn |-> IF u \in freed' THEN <<>> ELSE st[u]]
      BY <1>n, <1>s, Zenon DEF Kept
    <3> QED BY <3>1, <1>9
  <2>2. cardinality' \in 0..(SizeT - 1)
    BY <1>n, <1>3, <1>l, CardinalityInRange, Zenon
  <2>3. /\ tainted' \subseteq Row /\ raced' \subseteq tainted'
        /\ pushing' \subseteq Txn \X Row /\ undoing' \subseteq Row
    BY <1>1, <1>3, <1>8, RowsOfType, Zenon DEF MvccTypeOK
  <2>4. count' \in 0..MaxRows /\ base' \in [Row -> Stored] /\ deleted' \in [Row -> BOOLEAN]
        /\ mine' \in [Txn -> [Row -> Val \cup {Absent, NoWrite}]]
    BY <1>1, <1>3, Zenon DEF MvccTypeOK
  <2> QED BY <2>1, <2>2, <2>3, <2>4, <1>8, Zenon DEF MvccTypeOK
<1>12. Unborn'
  BY <1>1, <1>3, <1>8, Zenon DEF Unborn
<1>13. BuffersStay(t, {})
  <2>1. ASSUME NEW u \in InUse' PROVE u \in Txn /\ undo'[u] = st[u]
    <3>1. u \in InUse /\ u \notin freed'
      BY <1>5, Zenon DEF Removal
    <3>2. u \in Txn
      BY <3>1, <1>3, ListsType, Zenon
    <3> QED BY <3>1, <3>2, <1>10, Zenon
  <2> QED BY <2>1, <1>9 DEF BuffersStay
<1>14. tainted \subseteq tainted'
  BY <1>1, Zenon
<1>15. ASSUME NEW r \in Row \ tainted' PROVE RowEnds(r, t, {}, clean)
  <2>1. r \in Row \ tainted /\ r \notin raced' /\ r \notin raced
    BY <1>1, <1>8, <1>14, Zenon
  <2>2. TopPart(r, {}, 0)
    <3>1. Len(version_pointers[r]) \in Nat
      BY <1>3 DEF MvccTypeOK
    <3> QED BY <3>1 DEF TopPart, Positions
  <2>3. PICK b, m : EndedAt(r, {}, clean, 0, b, m) /\ CutShape(r, 0, b, m)
    BY <2>1, <2>2, <1>6, <1>7, RowIsCut, Zenon
  <2>4. State(r, 0)' = State(r, 0)
    BY <1>1, Zenon DEF State
  <2>5. InTime(r, t, {})
    <3>1. SUFFICES ASSUME NEW i \in Positions(r), Writer(r, i) = t
                   PROVE  current_start_timestamp < TRANSACTION_ID_START
      BY Zenon DEF InTime
    <3>0. version_pointers[r] \in Chain
      BY <1>3, <2>1, Zenon DEF MvccTypeOK, Chain
    <3>2. PICK p \in Txn \X Nat : p = version_pointers[r][i]
      BY <3>0 DEF Chain, Positions
    <3>3. LeadsTo(p, r) /\ p[1] = t
      BY <2>1, <3>1, <3>2, <1>3, Zenon DEF Pointers, Writer
    <3>4. r \in RowsOf(t)
      BY <3>3, Zenon DEF LeadsTo, Entry, RowsOf
    <3> QED BY <3>4, <1>1, Zenon
  <2> QED BY <2>3, <2>4, <2>5, Zenon DEF RowEnds
<1> QED BY <1>6, <1>8, <1>11, <1>12, <1>13, <1>14, <1>15, EndKeeps, Zenon

\* Who has a version of a row has the topmost ones, all of them.
LEMMA OnTopIsTopPart ==
  ASSUME Manager, MvccInv, NEW r \in Row \ tainted, NEW t \in active_transactions,
         NEW a \in Nat, a <= Len(version_pointers[r]), OnTop(t, r) = 1..a
  PROVE  TopPart(r, {t}, a)
<1>1. MvccTypeOK /\ Pointers /\ Ordered(r) /\ r \in Row \ raced
  BY Zenon DEF MvccInv, MvccTypeOK
<1>2. PICK n \in Nat : n = Len(version_pointers[r])
  BY <1>1 DEF MvccTypeOK
<1>3. Positions(r) = 1..n /\ a \in 0..n
  BY <1>2 DEF Positions
<1>4. \A i \in 1..n : i \in OnTop(t, r) <=> \A j \in 1..i : Writer(r, j) = t
  BY <1>2, Zenon DEF OnTop, Writer
<1>5. ASSUME NEW i \in 1..n PROVE Writer(r, i) = t <=> i <= a
  <2>1. i <= a => Writer(r, i) = t
    BY <1>4
  <2>2. ASSUME Writer(r, i) = t, NEW j \in 1..i PROVE Writer(r, j) = t
    <3>1. j \in Positions(r) /\ i \in Positions(r) /\ (j = i \/ j < i)
      BY <1>3
    <3> QED BY <3>1, <2>2, <1>1, TopWriters, Zenon
  <2>3. Writer(r, i) = t => i \in OnTop(t, r)
    BY <2>2, <1>4, Zenon
  <2> QED BY <2>1, <2>3
<1> QED BY <1>2, <1>3, <1>5 DEF TopPart

\* RollbackTransaction keeps the invariant.
LEMMA RollbackKeeps ==
  ASSUME Manager, OwnedOnce', MvccInv, NEW t \in Txn, Rollback(t)
  PROVE  MvccInv'
<1>n. PICK n \in 0..(Len(recently_committed_transactions) + 1) :
        /\ RollbackTransactionCleaning(t, n)
        /\ Unlink({t} \cup CleanedBy(t, commit_id, n))
  BY Zenon DEF Rollback
<1>0. n \in Nat
  BY DEF Manager, TMTypeOK
<1>1. /\ count' = count /\ cardinality' = cardinality /\ tainted' = tainted \cup raced'
      /\ pushing' \subseteq pushing /\ undoing' \subseteq Row
      /\ base' = [r \in Row |-> UndoneBase(t, r)]
      /\ deleted' = [r \in Row |-> UndoneDeleted(t, r)]
      /\ undo' = Kept(undo, freed' \cup {t})
      /\ mine' = [mine EXCEPT ![t] = [r \in Row |-> NoWrite]]
  BY Zenon DEF Rollback, EndOverlap
<1>2. /\ t \in active_transactions /\ commit_id' = commit_id
      /\ RemoveTransaction(t, commit_id', {t}, n)
  BY <1>n, Zenon DEF RollbackTransactionCleaning, MayEnd
<1>3. /\ MvccTypeOK /\ TMTypeOK /\ Unborn /\ OwnEntries /\ commit_id \in [Txn -> Nat]
      /\ mine \in [Txn -> [Row -> Val \cup {Absent, NoWrite}]]
      /\ undo \in [Txn -> Seq(UndoEntry)]
  BY Zenon DEF MvccInv, Manager, TMTypeOK, MvccTypeOK
<1>c. PICK clean : clean = CleanedBy(t, commit_id', n)
  BY Zenon
<1>4. \A u \in Txn, r \in Row : mine'[u][r] = IF u = t THEN NoWrite ELSE mine[u][r]
  BY <1>1, <1>3, Zenon
<1>5. Removal(t, clean)
  <2>1. /\ ~WritesNext(t)
        /\ \A u \in Txn : u # t => commit_id'[u] = commit_id[u] /\ (WritesNext(u) => Writes(u))
    BY <1>2, <1>4 DEF Writes, WritesNext
  <2>2. {t} \in SUBSET Txn /\ commit_id' \in [Txn -> Nat]
    BY <1>2, <1>3
  <2> QED BY <2>1, <2>2, <1>0, <1>2, <1>c, EndIsRemoval, Zenon
<1>6. Ending(t, {t}, clean)
  BY <1>1, <1>2, <1>5 DEF Ending
<1>7. Unlinked({t} \cup clean)
  <2>1. Unlink({t} \cup clean)
    BY <1>n, <1>2, <1>c
  <2> QED BY <2>1, <1>3, ChainsRelinked, Zenon
<1>8. /\ version_pointers' \in [Row -> Seq(Txn \X Nat)]
      /\ raced \subseteq raced' /\ raced' \subseteq Row /\ \A r \in Row : MayShrink(r)
      /\ \A r \in Row \ raced' : Relinked(r, {t} \cup clean)
      /\ \A r \in Row : version_pointers[r] = <<>> => version_pointers'[r] = <<>>
  BY <1>7, Zenon DEF Unlinked
<1>9. ASSUME NEW r \in Row
      PROVE  /\ base'[r] \in Stored /\ deleted'[r] \in BOOLEAN
             /\ version_pointers[r] = <<>> => deleted'[r] = deleted[r]
             /\ \E a \in Nat : /\ a <= Len(version_pointers[r]) /\ OnTop(t, r) = 1..a
                               /\ State(r, 0)' = State(r, a)
  <2>1. base'[r] = UndoneBase(t, r) /\ deleted'[r] = UndoneDeleted(t, r)
    BY <1>1, Zenon
  <2>2. count' = count /\ MvccTypeOK /\ OwnEntries /\ Unborn /\ t \in active_transactions
    BY <1>1, <1>2, <1>3, Zenon
  <2> QED BY <2>1, <2>2, UndoneRow
<1>10. MvccTypeOK'
  <2>1. undo' \in [Txn -> Seq(UndoEntry)]
    BY <1>1, <1>3 DEF Kept
  <2>2. base' \in [Row -> Stored] /\ deleted' \in [Row -> BOOLEAN]
    BY <1>1, <1>9, Zenon
  <2>3. mine' \in [Txn -> [Row -> Val \cup {Absent, NoWrite}]]
    BY <1>1, <1>3, Zenon
  <2>4. /\ count' \in 0..MaxRows /\ cardinality' \in 0..(SizeT - 1)
        /\ tainted' \subseteq Row /\ raced' \subseteq tainted'
        /\ pushing' \subseteq Txn \X Row /\ undoing' \subseteq Row
    BY <1>1, <1>3, <1>8, Zenon DEF MvccTypeOK
  <2> QED BY <2>1, <2>2, <2>3, <2>4, <1>8, Zenon DEF MvccTypeOK
<1>11. Unborn'
  <2>1. ASSUME NEW r \in Row, r >= count
        PROVE  version_pointers'[r] = <<>> /\ ~deleted'[r] /\ \A u \in Txn : mine'[u][r] = NoWrite
    <3>1. version_pointers[r] = <<>> /\ ~deleted[r] /\ \A u \in Txn : mine[u][r] = NoWrite
      BY <2>1, <1>3, Zenon DEF Unborn
    <3> QED BY <3>1, <1>4, <1>8, <1>9, Zenon
  <2> QED BY <2>1, <1>1, Zenon DEF Unborn
<1>12. BuffersStay(t, {t})
  <2>1. ASSUME NEW u \in InUse' \ {t} PROVE u \in Txn /\ undo'[u] = undo[u]
    <3>1. u \in InUse /\ u \notin freed'
      BY <1>5 DEF Removal
    <3>2. u \in Txn
      BY <3>1, <1>3, ListsType
    <3>3. undo' = Kept(undo, freed' \cup {t})
      BY <1>1, Zenon
    <3> QED BY <3>1, <3>2, <3>3 DEF Kept
  <2> QED BY <2>1 DEF BuffersStay
<1>13. ASSUME NEW r \in Row \ tainted' PROVE RowEnds(r, t, {t}, clean)
  <2>1. r \in Row \ tainted /\ r \notin raced'
    BY <1>1, Zenon
  <2>2. PICK a \in Nat : /\ a <= Len(version_pointers[r]) /\ OnTop(t, r) = 1..a
                         /\ State(r, 0)' = State(r, a)
    BY <1>9, Zenon
  <2>3. TopPart(r, {t}, a)
    BY <2>1, <2>2, <1>2, OnTopIsTopPart
  <2>4. PICK b, m : EndedAt(r, {t}, clean, a, b, m) /\ CutShape(r, a, b, m)
    BY <2>1, <2>3, <1>6, <1>7, RowIsCut
  <2>5. InTime(r, t, {t})
    BY Zenon DEF InTime
  <2> QED BY <2>2, <2>4, <2>5, Zenon DEF RowEnds
<1>14. tainted \subseteq tainted'
  BY <1>1, Zenon
<1> QED BY <1>6, <1>8, <1>10, <1>11, <1>12, <1>13, <1>14, EndKeeps, Zenon

-----------------------------------------------------------------------------
(* The transaction manager inside.                                          *)

\* The versioned table takes only steps of the transaction manager.
LEMMA ManagerStep ==
  [MvccNext]_vars => [TMNext]_tmVars
<1> SUFFICES ASSUME [MvccNext]_vars PROVE [TMNext]_tmVars
  BY Zenon
<1>1. CASE UNCHANGED vars
  BY <1>1, Zenon DEF vars
<1>2. ASSUME NEW t \in Txn, Start(t) PROVE TMNext
  BY <1>2, Zenon DEF Start, TMNext
<1>3. ASSUME NEW t \in Txn, NEW v \in Val, DataTableAppend(t, v) PROVE UNCHANGED tmVars
  BY <1>3, Zenon DEF DataTableAppend
<1>4. ASSUME NEW t \in Txn, NEW r \in Row, Delete(t, r) PROVE UNCHANGED tmVars
  BY <1>4, Zenon DEF Delete
<1>5. ASSUME NEW t \in Txn, NEW r \in Row, NEW v \in Val, Update(t, r, v) PROVE UNCHANGED tmVars
  BY <1>5, Zenon DEF Update
<1>6. ASSUME NEW t \in Txn, Commit(t) PROVE TMNext
  BY <1>6, Zenon DEF Commit, CommitTransaction, TMNext
<1>7. ASSUME NEW t \in Txn, CommitFails(t) PROVE TMNext
  BY <1>7, Zenon DEF CommitFails, TMNext
<1>8. ASSUME NEW t \in Txn, Rollback(t) PROVE TMNext
  BY <1>8, Zenon DEF Rollback, RollbackTransaction, TMNext
<1> QED BY <1>1, <1>2, <1>3, <1>4, <1>5, <1>6, <1>7, <1>8 DEF MvccNext

\* What is proved about the transaction manager holds with the table on top.
THEOREM TableRefinesManager == MvccSpec => TMSpec
<1>1. MvccInit => TMInit
  BY Zenon DEF MvccInit
<1> QED BY <1>1, ManagerStep, PTL DEF MvccSpec, TMSpec

\* A step that changes nothing.
LEMMA SameInv ==
  ASSUME MvccInv, UNCHANGED vars
  PROVE  MvccInv'
<1>1. /\ active_transactions' = active_transactions /\ freed' = freed
      /\ recently_committed_transactions' = recently_committed_transactions
      /\ old_transactions' = old_transactions
      /\ transaction_id' = transaction_id /\ commit_id' = commit_id
  BY Zenon DEF vars, tmVars, lists, fields
<1>2. /\ count' = count /\ base' = base /\ deleted' = deleted /\ cardinality' = cardinality
      /\ version_pointers' = version_pointers /\ undo' = undo /\ mine' = mine /\ tainted' = tainted
      /\ pushing' = pushing /\ undoing' = undoing /\ raced' = raced
  BY Zenon DEF vars, table, history, overlap
<1>3. InUse' = InUse /\ Started' = Started /\ CleanedUp' = CleanedUp
  BY <1>1 DEF InUse, Started, CleanedUp
<1>4. MvccTypeOK'
  BY <1>2, Zenon DEF MvccInv, MvccTypeOK
<1>5. Pointers'
  <2>1. \A p, r : (LeadsTo(p, r)' <=> LeadsTo(p, r)) /\ Entry(p)' = Entry(p)
    BY <1>2, <1>3 DEF LeadsTo, Entry
  <2>2. Pointers
    BY Zenon DEF MvccInv
  <2> QED BY <2>1, <2>2, <1>2 DEF Pointers, Positions
<1>o. OwnEntries'
  <2>1. \A r, i : OwnEntry(r, i)' <=> OwnEntry(r, i)
    BY <1>2, Zenon DEF OwnEntry, Entry
  <2>2. OwnEntries
    BY Zenon DEF MvccInv
  <2> QED BY <2>1, <2>2, <1>1, <1>2, <1>3, Zenon DEF OwnEntries, Positions, Writer
<1>6. WritesLinked' /\ Unborn'
  <2>1. WritesLinked /\ Unborn
    BY Zenon DEF MvccInv
  <2>2. WritesLinked'
    BY <2>1, <1>2, <1>3 DEF WritesLinked, Positions, Writer
  <2>3. Unborn'
    BY <2>1, <1>2, Zenon DEF Unborn
  <2> QED BY <2>2, <2>3, Zenon
<1>7. WritersKnown' /\ CommitsDiffer' /\ ListOrder(recently_committed_transactions)'
  <2>1. WritersKnown /\ CommitsDiffer /\ ListOrder(recently_committed_transactions)
    BY Zenon DEF MvccInv
  <2>2. WritersKnown'
    BY <2>1, <1>1, <1>2, <1>3, Zenon DEF WritersKnown, HasCommitted
  <2>3. CommitsDiffer'
    BY <2>1, <1>1, <1>2, <1>3 DEF CommitsDiffer, HasCommitted, Writes
  <2>4. ListOrder(recently_committed_transactions)'
    BY <2>1, <1>1, <1>2 DEF ListOrder, Writes
  <2> QED BY <2>2, <2>3, <2>4, Zenon
<1>8. ASSUME NEW r \in Row \ tainted' PROVE Ordered(r)' /\ Recorded(r)'
  <2>1. Ordered(r) /\ Recorded(r) /\ r \in Row
    BY <1>2 DEF MvccInv
  <2>2. Undisturbed(r)
    BY <1>1, <1>2, <1>3 DEF Undisturbed, Retired, State
  <2> QED BY <2>1, <2>2, RowKept
<1> QED BY <1>4, <1>5, <1>o, <1>6, <1>7, <1>8, Zenon DEF MvccInv

-----------------------------------------------------------------------------
(* The theorems.                                                            *)

\* Every step of the table keeps the invariant.
LEMMA MvccStep ==
  ASSUME Manager, OwnedOnce', MvccInv, [MvccNext]_vars
  PROVE  MvccInv'
<1>1. CASE UNCHANGED vars
  BY <1>1, SameInv
<1>2. ASSUME NEW t \in Txn, Start(t) PROVE MvccInv'
  BY <1>2, StartKeeps
<1>3. ASSUME NEW t \in Txn, NEW v \in Val, DataTableAppend(t, v) PROVE MvccInv'
  BY <1>3, AppendKeeps
<1>4. ASSUME NEW t \in Txn, NEW r \in Row, Delete(t, r) PROVE MvccInv'
  <2>1. PICK id : id = ReportedRowId(t, r)
    BY Zenon
  <2>2. t \in active_transactions /\ Matches(t, r, id) /\ ~Conflict(t, id)
    BY <2>1, <1>4, Zenon DEF Delete, CanPush
  <2>3. Found(t, r, id)
    BY <2>1, <2>2, ScanFinds, Zenon
  <2> QED BY <2>1, <2>3, <1>4, DeleteKeeps, Zenon
<1>5. ASSUME NEW t \in Txn, NEW r \in Row, NEW v \in Val, Update(t, r, v) PROVE MvccInv'
  <2>1. PICK id : id = ReportedRowId(t, r)
    BY Zenon
  <2>2. t \in active_transactions /\ Matches(t, r, id) /\ ~Conflict(t, id)
    BY <2>1, <1>5, Zenon DEF Update, CanPush
  <2>3. Found(t, r, id)
    BY <2>1, <2>2, ScanFinds, Zenon
  <2> QED BY <2>1, <2>3, <1>5, UpdateKeeps, Zenon
<1>6. ASSUME NEW t \in Txn, Commit(t) PROVE MvccInv'
  BY <1>6, CommitKeeps
<1>7. ASSUME NEW t \in Txn, CommitFails(t) PROVE MvccInv'
  <2>1. PICK k \in Nat : cardinality' = CardinalityAfter(t, k)
    <3>1. Len(undo[t]) \in Nat
      BY DEF MvccInv, MvccTypeOK
    <3> QED BY <3>1, <1>7 DEF CommitFails
  <2>2. cardinality' \in 0..(SizeT - 1)
    BY <2>1, CardinalityInRange, Zenon DEF MvccInv
  <2> QED BY <2>2, <1>7, FailKeeps
<1>8. ASSUME NEW t \in Txn, Rollback(t) PROVE MvccInv'
  BY <1>8, RollbackKeeps, Zenon
<1> QED BY <1>1, <1>2, <1>3, <1>4, <1>5, <1>6, <1>7, <1>8 DEF MvccNext

\* The table is empty at first.
LEMMA MvccStart == MvccInit => MvccInv
<1> SUFFICES ASSUME MvccInit PROVE MvccInv
  BY Zenon
<1>1. /\ active_transactions = {} /\ recently_committed_transactions = <<>>
      /\ old_transactions = <<>> /\ freed = {} /\ commit_id = [t \in Txn |-> 0]
      /\ count = 0 /\ base = [r \in Row |-> NullValue] /\ deleted = [r \in Row |-> FALSE]
      /\ version_pointers = [r \in Row |-> <<>>] /\ undo = [t \in Txn |-> <<>>]
      /\ cardinality = 0 /\ mine = [t \in Txn |-> [r \in Row |-> NoWrite]] /\ tainted = {}
      /\ pushing = {} /\ undoing = {} /\ raced = {}
  BY Zenon DEF MvccInit, TMInit
<1>2. MvccTypeOK
  <2>1. 0 \in 0..MaxRows /\ 0 \in 0..(SizeT - 1) /\ NullValue \in Stored
    BY MvccAssumption DEF Stored
  <2>2. <<>> \in Seq(Txn \X Nat) /\ <<>> \in Seq(UndoEntry)
    OBVIOUS
  <2> QED BY <1>1, <2>1, <2>2, Zenon DEF MvccTypeOK
<1>3. \A r \in Row : Positions(r) = {}
  BY <1>1 DEF Positions
<1>4. \A u \in Txn, r \in Row : mine[u][r] = NoWrite
  BY <1>1
<1>5. Pointers /\ OwnEntries /\ WritersKnown /\ Unborn
  BY <1>1, <1>3, <1>4, Zenon DEF Pointers, OwnEntries, WritersKnown, Unborn
<1>6. InUse = {} /\ CleanedUp = {} /\ 1..Len(recently_committed_transactions) = {}
  BY <1>1 DEF InUse, CleanedUp, Elems
<1>7. WritesLinked /\ CommitsDiffer /\ ListOrder(recently_committed_transactions)
  BY <1>4, <1>6, Zenon DEF WritesLinked, CommitsDiffer, ListOrder, Writes
<1>8. ASSUME NEW r \in Row PROVE Ordered(r) /\ Recorded(r)
  <2>1. Retired(r) = {}
    BY <1>6, Zenon DEF Retired
  <2>2. r >= 0 /\ Len(version_pointers[r]) = 0
    BY <1>1 DEF Row
  <2>3. FromStorage(State(r, 0)) = Absent
    BY <2>2, <1>1, MvccAssumption DEF State, FromStorage
  <2> QED BY <2>1, <2>2, <2>3, <1>3, Zenon DEF Ordered, Recorded
<1> QED BY <1>2, <1>5, <1>7, <1>8, Zenon DEF MvccInv

\* The inductive invariant, with what holds of the transaction manager.
LEMMA InvariantHolds == MvccSpec => [](Manager /\ MvccInv)
<1>1. MvccSpec => []Manager
  BY TableRefinesManager, TypeCorrect, OneOwner, StampsInvariant, CleanupIsSafe, PTL DEF Manager
<1>2. MvccInit => MvccInv
  BY MvccStart
<1>3. MvccInv /\ Manager /\ Manager' /\ [MvccNext]_vars => MvccInv'
  BY MvccStep DEF Manager
<1> QED BY <1>1, <1>2, <1>3, PTL DEF MvccSpec

\* The rows, chains and undo buffers of a table keep their types.
THEOREM MvccTypeCorrect == MvccSpec => []MvccTypeOK
<1>1. MvccInv => MvccTypeOK
  BY Zenon DEF MvccInv
<1> QED BY <1>1, InvariantHolds, PTL

\* No version chain leads into the undo buffer of a destroyed transaction, or to an
\* entry for another row, in whatever order transactions end and are cleaned up,
\* unless a push and a commit or rollback have changed it at the same time
\* (StorageChunk::Cleanup and Undo).
THEOREM ChainsAreSound == MvccSpec => []ChainsLeadToEntries
<1>1. ASSUME Manager, MvccInv PROVE ChainsLeadToEntries
  <2>1. ASSUME NEW r \in Row \ raced, NEW i \in 1..Len(version_pointers[r])
        PROVE  LeadsTo(version_pointers[r][i], r)
    BY <1>1, Zenon DEF MvccInv, Pointers, Positions
  <2>2. InUse \cap freed = {}
    BY <1>1 DEF Manager, OwnedOnce, InUse
  <2> QED BY <2>1, <2>2, Zenon DEF LeadsTo, ChainsLeadToEntries, LeadToEntries
<1> QED BY <1>1, InvariantHolds, PTL

\* The chains run from newer to older versions (the scan loops of data_table.cpp
\* stop at the first visible version).
THEOREM ChainsAreOrdered == MvccSpec => []ChainsDescend
<1>1. ASSUME MvccInv PROVE ChainsDescend
  <2>1. ASSUME NEW r \in Row \ tainted,
               NEW i \in 1..Len(version_pointers[r]), NEW j \in 1..Len(version_pointers[r]), i < j
        PROVE  \/ VersionNumber(version_pointers[r][i]) > VersionNumber(version_pointers[r][j])
               \/ /\ version_pointers[r][i][1] = version_pointers[r][j][1]
                  /\ version_pointers[r][i][2] > version_pointers[r][j][2]
    <3>1. Ordered(r)
      BY <1>1, Zenon DEF MvccInv
    <3> QED BY <2>1, <3>1 DEF Ordered, Positions, Writer
  <2> QED BY <2>1, Zenon DEF ChainsDescend
<1> QED BY <1>1, InvariantHolds, PTL

\* Snapshot isolation, for any number of transactions and rows, where no tuple is
\* NULL: a scan returns the transaction's own last write, else what was committed
\* before it started (DataTable::Scan).
THEOREM SnapshotIsolation ==
  ASSUME NULL \notin Val
  PROVE  MvccSpec => []SnapshotReads
<1>1. Manager /\ MvccInv => SnapshotReads
  BY SnapshotRead, Zenon
<1> QED BY <1>1, InvariantHolds, PTL

\* The same for tuples that may be NULL, up to the representation of NULL.
THEOREM SnapshotIsolationUpToNull == MvccSpec => []SnapshotReadsUpToNull
<1>1. Manager /\ MvccInv => SnapshotReadsUpToNull
  BY SnapshotRead
<1> QED BY <1>1, InvariantHolds, PTL

\* A transaction that starts now reads the last committed state, where no tuple is
\* NULL.
THEOREM ReadsLatest ==
  ASSUME NULL \notin Val
  PROVE  MvccSpec => []LatestCommittedRead
<1>1. Manager /\ MvccInv => LatestCommittedRead
  BY LatestRead, Zenon
<1> QED BY <1>1, InvariantHolds, PTL

\* The same for tuples that may be NULL, up to the representation of NULL.
THEOREM ReadsLatestUpToNull == MvccSpec => []LatestCommittedUpToNull
<1>1. Manager /\ MvccInv => LatestCommittedUpToNull
  BY LatestRead, Zenon
<1> QED BY <1>1, InvariantHolds, PTL
=============================================================================
