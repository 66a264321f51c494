----------------------------- MODULE EndProofs ------------------------------
(***************************************************************************)
(* What the end of a transaction keeps of the invariant of the version     *)
(* chains: UndoBuffer::Commit stamps its entries, UndoBuffer::Rollback     *)
(* takes them out of the chains, and the cleanup of the transactions that  *)
(* nobody can look past (UndoBuffer::Cleanup) cuts the chains at their old *)
(* end.                                                                    *)
(***************************************************************************)
EXTENDS RowProofs

\* The number of the version at i of the old chain of r, after the step.
NumberNext(r, i) ==
  IF Writer(r, i) \in active_transactions' THEN transaction_id[Writer(r, i)]
                                           ELSE commit_id'[Writer(r, i)]

\* Positions of a part of a chain in the whole.
LEMMA ShiftFacts ==
  ASSUME NEW a \in Nat, NEW b \in Nat, NEW n \in Nat, a <= b, b <= n
  PROVE  /\ b - a \in Nat /\ b - a \in 0..(b - a) /\ (b - a) + a = b
         /\ 0 + a = a /\ 1 + a = a + 1
         /\ \A k \in 1..(b - a) :
              /\ k + a \in (a + 1)..b /\ k + a \in 1..n /\ k + a # 0 /\ a < n
              /\ k - 1 \in 0..(b - a) /\ (k - 1) + a = (k + a) - 1
              /\ k # 1 => k - 1 \in 1..(b - a) /\ k + a # 1
         /\ \A k, l \in 1..(b - a) : k < l => k + a < l + a
         /\ \A k \in 0..(b - a) : k # 0 => k \in 1..(b - a)
         /\ b < n => b + 1 \in 1..n /\ (b + 1) - 1 = b
OBVIOUS

\* The chain of r, of length n, is cut to the versions from a + 1 to b.
CutShape(r, a, b, n) ==
  /\ n = Len(version_pointers[r])
  /\ Len(version_pointers'[r]) = b - a
  /\ \A k \in 1..(b - a) : version_pointers'[r][k] = version_pointers[r][k + a]

\* Those versions keep their tuples and have the numbers they should have.
CutEntries(r, a, b) ==
  /\ transaction_id' = transaction_id
  /\ \A i \in (a + 1)..b :
       LET p == version_pointers[r][i]
       IN  /\ undo'[p[1]][p[2]].version_number = NumberNext(r, i)
           /\ undo'[p[1]][p[2]].tuple_data = undo[p[1]][p[2]].tuple_data
           /\ mine'[p[1]][r] = mine[p[1]][r]

CutNumbers(r, a, b) ==
  /\ \A i \in (a + 1)..b : Writer(r, i) \notin active_transactions' =>
       /\ commit_id'[Writer(r, i)] < TRANSACTION_ID_START
       /\ \A w \in Retired(r)' : commit_id'[w] < commit_id'[Writer(r, i)]
  /\ \A i, j \in (a + 1)..b :
       Writer(r, i) \in active_transactions' /\ Writer(r, j) \in active_transactions' =>
         Writer(r, i) = Writer(r, j)
  /\ \A i, j \in (a + 1)..b : i < j =>
       \/ NumberNext(r, i) > NumberNext(r, j)
       \/ Writer(r, i) = Writer(r, j) /\ version_pointers[r][i][2] > version_pointers[r][j][2]

\* The tuple below the versions cut off at the top is now in the table.
CutTop(r, a, n) ==
  /\ FromStorage(State(r, 0)') = FromStorage(State(r, a))
  /\ a < n => Newest(r, a + 1)

\* The versions cut off at the end are those of committed transactions, of which
\* the one at b + 1 was the last, or there are none.
CutEnd(r, b, n) ==
  \/ /\ b = n
     /\ Retired(r)' = Retired(r)
     /\ \A w \in Retired(r) : commit_id'[w] = commit_id[w] /\ mine'[w][r] = mine[w][r]
  \/ /\ b < n /\ Newest(r, b + 1)
     /\ Writer(r, b + 1) \in Retired(r)' /\ mine'[Writer(r, b + 1)][r] = mine[Writer(r, b + 1)][r]
     /\ \A w \in Retired(r)' : commit_id'[w] <= commit_id'[Writer(r, b + 1)]

\* A row keeps its order and its record when its chain is cut like this.
LEMMA RowCut ==
  ASSUME NEW r \in Row, Recorded(r), NEW a \in Nat, NEW b \in Nat, NEW n \in Nat,
         a <= b, b <= n,
         CutShape(r, a, b, n), CutEntries(r, a, b), CutNumbers(r, a, b), CutTop(r, a, n),
         CutEnd(r, b, n)
  PROVE  Ordered(r)' /\ Recorded(r)'
<1> DEFINE m == b - a
<1>1. /\ m \in Nat /\ m \in 0..m /\ m + a = b
      /\ 0 + a = a /\ 1 + a = a + 1
      /\ \A k \in 1..m :
           /\ k + a \in (a + 1)..b /\ k + a \in 1..n /\ k + a # 0 /\ a < n
           /\ k - 1 \in 0..m /\ (k - 1) + a = (k + a) - 1
           /\ k # 1 => k - 1 \in 1..m /\ k + a # 1
      /\ \A k, l \in 1..m : k < l => k + a < l + a
      /\ \A k \in 0..m : k # 0 => k \in 1..m
  BY ShiftFacts
<1>2. /\ Positions(r)' = 1..m
      /\ \A k \in 1..m : Writer(r, k)' = Writer(r, k + a)
      /\ \A k \in 1..m : version_pointers'[r][k] = version_pointers[r][k + a]
  BY Zenon DEF Positions, Writer, CutShape
<1>3. \A k \in 1..m : Number(r, k)' = NumberNext(r, k + a)
  BY <1>2, Zenon DEF Number, NumberNext, CutEntries
<1>4. \A k \in 1..m : VersionNumber(version_pointers[r][k])' = NumberNext(r, k + a)
  <2> TAKE k \in 1..m
  <2>1. k + a \in (a + 1)..b
    BY <1>1, Zenon
  <2>2. undo'[version_pointers[r][k + a][1]][version_pointers[r][k + a][2]].version_number
          = NumberNext(r, k + a)
    BY <2>1, Zenon DEF CutEntries
  <2> QED BY <2>2, <1>2, Zenon DEF VersionNumber, Entry
<1> HIDE DEF m
<1>5. Ordered(r)'
  <2>1. \A k \in 1..m : Writer(r, k)' \notin active_transactions' =>
          /\ commit_id'[Writer(r, k)'] < TRANSACTION_ID_START
          /\ \A w \in Retired(r)' : commit_id'[w] < commit_id'[Writer(r, k)']
    <3> TAKE k \in 1..m
    <3>1. k + a \in (a + 1)..b /\ Writer(r, k)' = Writer(r, k + a)
      BY <1>1, <1>2, Zenon
    <3>2. Writer(r, k + a) \notin active_transactions' =>
            /\ commit_id'[Writer(r, k + a)] < TRANSACTION_ID_START
            /\ \A w \in Retired(r)' : commit_id'[w] < commit_id'[Writer(r, k + a)]
      BY <3>1, Zenon DEF CutNumbers
    <3> QED BY <3>1, <3>2, Zenon
  <2>2. \A k, l \in 1..m :
          Writer(r, k)' \in active_transactions' /\ Writer(r, l)' \in active_transactions' =>
             Writer(r, k)' = Writer(r, l)'
    <3> TAKE k, l \in 1..m
    <3>1. /\ k + a \in (a + 1)..b /\ Writer(r, k)' = Writer(r, k + a)
          /\ l + a \in (a + 1)..b /\ Writer(r, l)' = Writer(r, l + a)
      BY <1>1, <1>2, Zenon
    <3>2. Writer(r, k + a) \in active_transactions' /\ Writer(r, l + a) \in active_transactions' =>
            Writer(r, k + a) = Writer(r, l + a)
      BY <3>1, Zenon DEF CutNumbers
    <3> QED BY <3>1, <3>2, Zenon
  <2>3. \A k, l \in 1..m : k < l =>
           \/ Number(r, k)' > Number(r, l)'
           \/ /\ Writer(r, k)' = Writer(r, l)'
              /\ version_pointers'[r][k][2] > version_pointers'[r][l][2]
    <3> SUFFICES ASSUME NEW k \in 1..m, NEW l \in 1..m, k < l
                 PROVE  \/ Number(r, k)' > Number(r, l)'
                        \/ /\ Writer(r, k)' = Writer(r, l)'
                           /\ version_pointers'[r][k][2] > version_pointers'[r][l][2]
      BY Zenon
    <3>1. k + a \in (a + 1)..b /\ l + a \in (a + 1)..b /\ k + a < l + a
      BY <1>1, Zenon
    <3>2. \/ NumberNext(r, k + a) > NumberNext(r, l + a)
          \/ /\ Writer(r, k + a) = Writer(r, l + a)
             /\ version_pointers[r][k + a][2] > version_pointers[r][l + a][2]
      BY <3>1, Zenon DEF CutNumbers
    <3> QED BY <3>2, <1>2, <1>3, Zenon
  <2> QED BY <2>1, <2>2, <2>3, <1>2, <1>3, <1>4, Zenon DEF Ordered
<1>6. \A k \in 0..m : FromStorage(State(r, k)') = FromStorage(State(r, k + a))
  <2> TAKE k \in 0..m
  <2>1. CASE k = 0
    <3>1. k + a = a
      BY <2>1, <1>1, Zenon
    <3>2. State(r, k)' = State(r, 0)' /\ State(r, k + a) = State(r, a)
      BY <2>1, <3>1, Zenon
    <3> QED BY <3>2, Zenon DEF CutTop
  <2>2. CASE k # 0
    <3>1. k \in 1..m /\ k + a \in (a + 1)..b /\ k + a # 0
      BY <2>2, <1>1, Zenon
    <3>2. State(r, k)' = undo'[version_pointers'[r][k][1]][version_pointers'[r][k][2]].tuple_data
      BY <2>2, Zenon DEF State, Entry
    <3>3. State(r, k + a) =
            undo[version_pointers[r][k + a][1]][version_pointers[r][k + a][2]].tuple_data
      BY <3>1, Zenon DEF State, Entry
    <3>4. undo'[version_pointers[r][k + a][1]][version_pointers[r][k + a][2]].tuple_data
            = undo[version_pointers[r][k + a][1]][version_pointers[r][k + a][2]].tuple_data
      BY <3>1, Zenon DEF CutEntries
    <3> QED BY <3>1, <3>2, <3>3, <3>4, <1>2, Zenon
  <2> QED BY <2>1, <2>2, Zenon
<1>7. ASSUME NEW k \in 1..m, Newest(r, k)'
      PROVE  FromStorage(State(r, k - 1)') = mine'[Writer(r, k)'][r]
  <2>1. k + a \in (a + 1)..b /\ k + a \in 1..n /\ k - 1 \in 0..m /\ (k - 1) + a = (k + a) - 1
    BY <1>1, Zenon
  <2>2. Newest(r, k + a)
    <3>1. CASE k = 1
      <4>1. a < n
        BY <1>1, Zenon
      <4>2. k + a = a + 1
        BY <3>1, <1>1, Zenon
      <4> QED BY <4>1, <4>2, Zenon DEF CutTop
    <3>2. CASE k # 1
      <4>1. k - 1 \in 1..m
        BY <3>2, <1>1, Zenon
      <4>4. (k - 1) + a = (k + a) - 1 /\ k + a # 1
        BY <3>2, <1>1, Zenon
      <4>2. Writer(r, k - 1)' # Writer(r, k)'
        BY <3>2, <1>7, Zenon DEF Newest
      <4>3. Writer(r, k - 1)' = Writer(r, (k - 1) + a) /\ Writer(r, k)' = Writer(r, k + a)
        BY <4>1, <1>2, Zenon
      <4> QED BY <4>2, <4>3, <4>4, Zenon DEF Newest
    <3> QED BY <3>1, <3>2, Zenon
  <2>3. FromStorage(State(r, (k + a) - 1)) = mine[Writer(r, k + a)][r]
    BY <2>1, <2>2, Zenon DEF Recorded, Positions, CutShape
  <2>4. FromStorage(State(r, k - 1)') = FromStorage(State(r, (k - 1) + a))
    BY <2>1, <1>6, Zenon
  <2>5. mine'[Writer(r, k + a)][r] = mine[Writer(r, k + a)][r]
    BY <2>1, Zenon DEF Writer, CutEntries
  <2>6. Writer(r, k)' = Writer(r, k + a)
    BY <1>2, Zenon
  <2> QED BY <2>1, <2>3, <2>4, <2>5, <2>6, Zenon
<1>8. LET last == FromStorage(State(r, m)')
      IN  \/ Retired(r)' = {} /\ last = Absent
          \/ \E u \in Retired(r)' :
               last = mine'[u][r] /\ \A w \in Retired(r)' : commit_id'[w] <= commit_id'[u]
  <2>1. m \in 0..m /\ m + a = b
    BY <1>1, Zenon
  <2>2. FromStorage(State(r, m)') = FromStorage(State(r, b))
    BY <2>1, <1>6, Zenon
  <2>3. CASE b = n /\ Retired(r)' = Retired(r)
             /\ \A w \in Retired(r) : commit_id'[w] = commit_id[w] /\ mine'[w][r] = mine[w][r]
    <3>1. LET last == FromStorage(State(r, n))
          IN  \/ Retired(r) = {} /\ last = Absent
              \/ \E u \in Retired(r) :
                   last = mine[u][r] /\ \A w \in Retired(r) : commit_id[w] <= commit_id[u]
      BY Zenon DEF Recorded, CutShape
    <3> QED BY <3>1, <2>2, <2>3, Zenon
  <2>4. CASE /\ b < n /\ Newest(r, b + 1)
             /\ Writer(r, b + 1) \in Retired(r)' /\ mine'[Writer(r, b + 1)][r] = mine[Writer(r, b + 1)][r]
             /\ \A w \in Retired(r)' : commit_id'[w] <= commit_id'[Writer(r, b + 1)]
    <3>1. b + 1 \in 1..n /\ (b + 1) - 1 = b
      BY <2>4, ShiftFacts, Zenon
    <3>2. FromStorage(State(r, (b + 1) - 1)) = mine[Writer(r, b + 1)][r]
      BY <3>1, <2>4, Zenon DEF Recorded, Positions, CutShape
    <3>3. FromStorage(State(r, m)') = mine'[Writer(r, b + 1)][r]
      BY <3>1, <3>2, <2>2, <2>4, Zenon
    <3> QED BY <3>3, <2>4, Zenon
  <2> QED BY <2>3, <2>4, Zenon DEF CutEnd
<1>9. Len(version_pointers'[r]) = m
  BY Zenon DEF m, CutShape
<1>10. Recorded(r)'
  BY <1>2, <1>7, <1>8, <1>9, Zenon DEF Recorded
<1> QED BY <1>5, <1>10, Zenon

-----------------------------------------------------------------------------
(* The end of a transaction.                                                *)

\* u has written after the step.
WritesNext(u) == \E r \in Row : mine'[u][r] # NoWrite

\* What the removal of t, which cleans up the set clean, does to the lists: every
\* writer still to be cleaned up committed after those in clean.
Removal(t, clean) ==
  /\ t \in active_transactions
  /\ active_transactions' = active_transactions \ {t}
  /\ transaction_id' = transaction_id
  /\ commit_id' \in [Txn -> Nat]
  /\ \A u \in Txn : u # t => commit_id'[u] = commit_id[u]
  /\ clean \subseteq InUse /\ clean \cap active_transactions' = {}
  /\ InUse' \subseteq InUse \ clean
  /\ InUse \ (clean \cup {t}) \subseteq InUse'
  /\ commit_id'[t] # 0 /\ t \notin clean => t \in InUse'
  /\ InUse' \cap freed' = {}
  /\ CleanedUp' = CleanedUp \cup clean
  /\ Started' = Started
  /\ \A u \in clean, w \in InUse' \ active_transactions' :
       WritesNext(w) => commit_id'[u] < commit_id'[w]
  /\ ListOrder(recently_committed_transactions)'

\* t ends by a commit, with a new commit_id, or by a rollback, which takes the
\* versions of T = {t} out and forgets its writes.
Ending(t, T, clean) ==
  /\ Removal(t, clean)
  /\ \/ T = {} /\ commit_id'[t] = current_start_timestamp /\ mine' = mine
     \/ T = {t} /\ commit_id' = commit_id /\ mine' = [mine EXCEPT ![t] = [r \in Row |-> NoWrite]]

\* What is known of the writer of a version.
LEMMA WriterFacts ==
  ASSUME Manager, MvccTypeOK, Pointers, NEW r \in Row \ raced, NEW i \in Positions(r)
  PROVE  /\ Writer(r, i) \in InUse /\ Writer(r, i) \in Txn
         /\ mine[Writer(r, i)][r] # NoWrite
         /\ Number(r, i) \in Nat
         /\ Writer(r, i) \in active_transactions =>
              Number(r, i) = transaction_id[Writer(r, i)] /\ Number(r, i) >= TRANSACTION_ID_START
         /\ Writer(r, i) \notin active_transactions => Number(r, i) = commit_id[Writer(r, i)]
<1>1. version_pointers[r] \in Seq(Txn \X Nat)
  BY Zenon DEF MvccTypeOK
<1>2. version_pointers[r][i] \in Txn \X Nat
  BY <1>1 DEF Positions
<1>3. Writer(r, i) \in Txn
  BY <1>2, Zenon DEF Writer
<1>4. Writer(r, i) \in InUse /\ mine[Writer(r, i)][r] # NoWrite
  BY Zenon DEF Pointers, LeadsTo, Writer
<1>5. /\ transaction_id[Writer(r, i)] \in Nat /\ commit_id[Writer(r, i)] \in Nat
      /\ TRANSACTION_ID_START \in Nat
  BY <1>3, ConstantsAssumption, Zenon DEF Manager, TMTypeOK
<1>6. Writer(r, i) \in active_transactions => TRANSACTION_ID_START <= transaction_id[Writer(r, i)]
  BY Zenon DEF Manager, Stamps
<1> QED BY <1>3, <1>4, <1>5, <1>6, Zenon DEF Number

\* The versions of a running transaction are on top of the chain.
LEMMA TopWriters ==
  ASSUME Manager, MvccTypeOK, Pointers, NEW r \in Row \ raced, Ordered(r), NEW t \in active_transactions,
         NEW i \in Positions(r), NEW j \in Positions(r), i < j, Writer(r, j) = t
  PROVE  Writer(r, i) = t
<1>1. Number(r, j) >= TRANSACTION_ID_START /\ Number(r, j) \in Nat
  BY WriterFacts, Zenon
<1>2. Number(r, i) \in Nat /\ (Writer(r, i) \notin active_transactions => Number(r, i) = commit_id[Writer(r, i)])
  BY WriterFacts, Zenon
<1>3. Number(r, i) > Number(r, j) \/ Writer(r, i) = Writer(r, j)
  BY Zenon DEF Ordered
<1>4. Writer(r, i) \notin active_transactions => commit_id[Writer(r, i)] < TRANSACTION_ID_START
  BY Zenon DEF Ordered
<1>5. Writer(r, i) \in active_transactions => Writer(r, i) = Writer(r, j)
  BY Zenon DEF Ordered
<1>6. TRANSACTION_ID_START \in Nat
  BY ConstantsAssumption, Zenon
<1> QED BY <1>1, <1>2, <1>3, <1>4, <1>5, <1>6

\* A commit_id is below the next time stamp, which is not zero while a
\* transaction runs.
LEMMA CommitsBelowNext ==
  ASSUME Manager, NEW t \in active_transactions
  PROVE  /\ current_start_timestamp \in Nat /\ current_start_timestamp > 0
         /\ \A u \in Txn : commit_id[u] \in Nat /\ commit_id[u] < current_start_timestamp
<1>1. /\ current_start_timestamp \in Nat /\ start_time[t] \in Nat
      /\ \A u \in Txn : commit_id[u] \in Nat
  BY Zenon DEF Manager, TMTypeOK
<1>2. start_time[t] < current_start_timestamp
  BY Zenon DEF Manager, Stamps
<1>3. \A u \in Txn : commit_id[u] # 0 => commit_id[u] < current_start_timestamp
  BY Zenon DEF Manager, Stamps
<1> QED BY <1>1, <1>2, <1>3

\* The number of a version, after the end of t.
LEMMA NextNumber ==
  ASSUME Manager, MvccTypeOK, Pointers, NEW r \in Row \ raced, NEW i \in Positions(r),
         NEW t, NEW T, NEW clean, Ending(t, T, clean), Writer(r, i) \notin T
  PROVE  /\ Writer(r, i) # t => NumberNext(r, i) = Number(r, i)
         /\ Writer(r, i) = t => NumberNext(r, i) = current_start_timestamp
         /\ mine'[Writer(r, i)][r] = mine[Writer(r, i)][r]
<1>1. /\ t \in Txn /\ t \in active_transactions /\ active_transactions' = active_transactions \ {t}
      /\ \A u \in Txn : u # t => commit_id'[u] = commit_id[u]
      /\ T = {} => commit_id'[t] = current_start_timestamp
      /\ T = {} \/ T = {t}
  <2>1. t \in active_transactions /\ active_transactions \subseteq Txn
    BY Zenon DEF Ending, Removal, Manager, TMTypeOK
  <2> QED BY <2>1, Zenon DEF Ending, Removal
<1>2. Writer(r, i) \in Txn
  BY WriterFacts, Zenon
<1>3. ASSUME Writer(r, i) # t PROVE NumberNext(r, i) = Number(r, i)
  BY <1>1, <1>2, <1>3, Zenon DEF NumberNext, Number
<1>4. ASSUME Writer(r, i) = t PROVE NumberNext(r, i) = current_start_timestamp
  BY <1>1, <1>4, Zenon DEF NumberNext
<1>5. mine'[Writer(r, i)][r] = mine[Writer(r, i)][r]
  <2>1. mine \in [Txn -> [Row -> Val \cup {Absent, NoWrite}]]
    BY Zenon DEF MvccTypeOK
  <2> QED BY <2>1, <1>1, <1>2, Zenon DEF Ending
<1> QED BY <1>3, <1>4, <1>5, Zenon

\* The new numbers descend like the old ones.
LEMMA NextDescends ==
  ASSUME Manager, MvccTypeOK, Pointers, NEW r \in Row \ raced, Ordered(r),
         NEW t, NEW T, NEW clean, Ending(t, T, clean),
         NEW i \in Positions(r), NEW j \in Positions(r), i < j, Writer(r, i) \notin T
  PROVE  /\ Writer(r, j) \notin T
         /\ \/ NumberNext(r, i) > NumberNext(r, j)
            \/ Writer(r, i) = Writer(r, j) /\ version_pointers[r][i][2] > version_pointers[r][j][2]
<1>1. t \in active_transactions /\ (T = {} \/ T = {t})
  BY Zenon DEF Ending, Removal
<1>2. Writer(r, j) = t => Writer(r, i) = t
  BY <1>1, TopWriters, Zenon
<1>3. Writer(r, j) \notin T
  BY <1>1, <1>2, Zenon
<1>4. /\ Number(r, i) \in Nat /\ Number(r, j) \in Nat /\ Writer(r, j) \in Txn
      /\ Writer(r, j) \notin active_transactions => Number(r, j) = commit_id[Writer(r, j)]
  BY WriterFacts, Zenon
<1>5. \/ Number(r, i) > Number(r, j)
      \/ Writer(r, i) = Writer(r, j) /\ version_pointers[r][i][2] > version_pointers[r][j][2]
  BY Zenon DEF Ordered
<1>6. CASE Writer(r, i) = Writer(r, j)
  <2>1. Number(r, i) = Number(r, j)
    BY <1>6, Zenon DEF Number
  <2> QED BY <2>1, <1>3, <1>4, <1>5
<1>7. CASE Writer(r, i) # Writer(r, j)
  <2>1. Number(r, i) > Number(r, j) /\ Writer(r, j) # t
    BY <1>2, <1>5, <1>7, Zenon
  <2>2. NumberNext(r, j) = Number(r, j)
    BY <2>1, <1>3, NextNumber, Zenon
  <2>3. CASE Writer(r, i) = t
    <3>1. NumberNext(r, i) = current_start_timestamp
      BY <2>3, NextNumber, Zenon
    <3>2. Writer(r, j) \notin active_transactions
      BY <2>1, <2>3, <1>1, Zenon DEF Ordered
    <3>3. commit_id[Writer(r, j)] < current_start_timestamp
         /\ commit_id[Writer(r, j)] \in Nat /\ current_start_timestamp \in Nat
      BY <1>1, <1>4, CommitsBelowNext, Zenon
    <3> QED BY <3>1, <3>2, <3>3, <2>2, <1>3, <1>4, Zenon
  <2>4. CASE Writer(r, i) # t
    <3>1. NumberNext(r, i) = Number(r, i)
      BY <2>4, NextNumber, Zenon
    <3> QED BY <3>1, <2>1, <2>2, <1>3, Zenon
  <2> QED BY <2>3, <2>4, Zenon
<1> QED BY <1>6, <1>7, Zenon

\* Below a version that is cleaned up there are only such versions.
LEMMA CleanedBelow ==
  ASSUME Manager, MvccTypeOK, Pointers, NEW r \in Row \ raced, Ordered(r),
         NEW t, NEW T, NEW clean, Ending(t, T, clean),
         NEW i \in Positions(r), NEW j \in Positions(r), i < j,
         Writer(r, i) \notin T, Writer(r, i) \in clean
  PROVE  Writer(r, j) \in clean
<1> DEFINE u == Writer(r, i)
           w == Writer(r, j)
<1> SUFFICES ASSUME w \notin clean PROVE FALSE
  BY Zenon
<1>1. /\ t \in active_transactions /\ active_transactions' = active_transactions \ {t}
      /\ clean \cap active_transactions' = {}
      /\ InUse \ (clean \cup {t}) \subseteq InUse'
      /\ commit_id'[t] # 0 /\ t \notin clean => t \in InUse'
      /\ \A x \in Txn : x # t => commit_id'[x] = commit_id[x]
  BY Zenon DEF Ending, Removal
<1>2. (T = {} /\ commit_id'[t] = current_start_timestamp) \/ T = {t}
  BY Zenon DEF Ending
<1>3. w \notin T /\ NumberNext(r, i) > NumberNext(r, j)
  BY NextDescends
<1>4. u \in Txn /\ w \in Txn /\ w \in InUse /\ mine[w][r] # NoWrite
  BY WriterFacts, Zenon
<1>5. w \in InUse'
  <2>1. w = t => commit_id'[t] # 0
    BY <1>1, <1>2, <1>3, CommitsBelowNext
  <2> QED BY <2>1, <1>1, <1>4, Zenon
<1>6. NumberNext(r, i) = commit_id'[u]
  BY <1>1, Zenon DEF NumberNext
<1>7. CASE w \in active_transactions'
  <2>1. w \in active_transactions /\ w # t
    BY <1>1, <1>7, Zenon
  <2>2. u \notin active_transactions
    <3>1. u \in active_transactions => u = w
      BY <2>1, Zenon DEF Ordered
    <3> QED BY <3>1, Zenon
  <2>3. commit_id[u] < TRANSACTION_ID_START /\ u # t
    BY <2>2, <1>1, Zenon DEF Ordered
  <2>4. NumberNext(r, j) = Number(r, j) /\ Number(r, j) >= TRANSACTION_ID_START /\ Number(r, j) \in Nat
    BY <2>1, <1>3, NextNumber, WriterFacts
  <2>5. commit_id[u] \in Nat /\ TRANSACTION_ID_START \in Nat
    BY <1>4, ConstantsAssumption, Zenon DEF Manager, TMTypeOK
  <2>6. commit_id'[u] = commit_id[u]
    BY <2>3, <1>1, <1>4, Zenon
  <2> HIDE DEF u
  <2> QED BY <2>3, <2>4, <2>5, <2>6, <1>3, <1>6
<1>8. CASE w \notin active_transactions'
  <2>1. WritesNext(w)
    <3>1. mine'[w][r] = mine[w][r]
      BY <1>3, NextNumber, Zenon
    <3> QED BY <3>1, <1>4, Zenon DEF WritesNext
  <2>2. commit_id'[u] < commit_id'[w]
    BY <2>1, <1>5, <1>8, Zenon DEF Ending, Removal
  <2>3. NumberNext(r, j) = commit_id'[w]
    BY <1>8, Zenon DEF NumberNext
  <2>4. commit_id'[u] \in Nat /\ commit_id'[w] \in Nat
    BY <1>4, Zenon DEF Ending, Removal
  <2> HIDE DEF u, w
  <2> QED BY <2>2, <2>3, <2>4, <1>3, <1>6
<1> QED BY <1>7, <1>8, Zenon

\* The versions of T are the first a in the chain of r.
TopPart(r, T, a) ==
  /\ a \in 0..Len(version_pointers[r])
  /\ \A i \in Positions(r) : Writer(r, i) \in T <=> i <= a

\* Who has retired from r after the end of t.
LEMMA RetiredNext ==
  ASSUME Manager, MvccTypeOK, WritesLinked, NEW r \in Row \ raced,
         NEW t, NEW T, NEW clean, Ending(t, T, clean)
  PROVE  /\ Retired(r) \subseteq Retired(r)'
         /\ \A w \in Retired(r) : /\ w \in Txn /\ commit_id'[w] = commit_id[w]
                                  /\ mine'[w][r] = mine[w][r]
         /\ \A w \in Retired(r)' : w \notin Retired(r) =>
              w \in clean /\ \E i \in Positions(r) : Writer(r, i) = w /\ w \notin T
<1>1. /\ t \in active_transactions /\ clean \subseteq InUse
      /\ \A u \in Txn : u # t => commit_id'[u] = commit_id[u]
      /\ CleanedUp' = CleanedUp \cup clean
  BY Zenon DEF Ending, Removal
<1>2. t \notin CleanedUp
  BY <1>1, Zenon DEF Manager, OwnedOnce, CleanedUp
<1>3. CleanedUp \subseteq Txn
  BY ListsType, Zenon DEF Manager
<1>4. InUse \subseteq Txn
  BY ListsType, Zenon DEF Manager
<1>5. mine \in [Txn -> [Row -> Val \cup {Absent, NoWrite}]]
  BY Zenon DEF MvccTypeOK
<1>6. \A u \in Txn : u \notin T => mine'[u][r] = mine[u][r]
  BY <1>5, Zenon DEF Ending
<1>7. \A u \in T : u = t /\ mine'[u][r] = NoWrite
  BY <1>1, <1>4, <1>5 DEF Ending, InUse
<1>8. \A w \in CleanedUp : w \in Txn /\ w # t /\ w \notin T
  BY <1>2, <1>3, <1>7, Zenon
<1>9. ASSUME NEW w \in Retired(r)
      PROVE  /\ w \in Txn /\ commit_id'[w] = commit_id[w] /\ mine'[w][r] = mine[w][r]
             /\ w \in Retired(r)'
  BY <1>1, <1>6, <1>8, Zenon DEF Retired
<1>10. ASSUME NEW w \in Retired(r)', w \notin Retired(r)
       PROVE  w \in clean /\ \E i \in Positions(r) : Writer(r, i) = w /\ w \notin T
  <2>1. w \in CleanedUp \cup clean /\ mine'[w][r] # NoWrite
    BY <1>1, Zenon DEF Retired
  <2>2. w \notin T
    BY <2>1, <1>7, Zenon
  <2>3. w \in Txn
    BY <2>1, <1>1, <1>3, <1>4, Zenon
  <2>4. mine[w][r] # NoWrite
    BY <2>1, <2>2, <2>3, <1>6, Zenon
  <2>5. w \in clean
    BY <2>1, <2>4, <1>10, Zenon DEF Retired
  <2>6. \E i \in Positions(r) : Writer(r, i) = w
    BY <2>4, <2>5, <1>1, Zenon DEF WritesLinked
  <2> QED BY <2>2, <2>5, <2>6, Zenon
<1> QED BY <1>9, <1>10, Zenon

\* A committed version that stays, or is cleaned up now, is newer than those
\* cleaned up before.
LEMMA RetiredBefore ==
  ASSUME Manager, MvccTypeOK, Pointers, WritesLinked, NEW r \in Row \ raced, Ordered(r),
         NEW t, NEW T, NEW clean, Ending(t, T, clean),
         NEW i \in Positions(r), Writer(r, i) \notin T, Writer(r, i) \notin active_transactions',
         NEW w \in Retired(r)
  PROVE  commit_id'[w] < commit_id'[Writer(r, i)]
<1>1. w \in Txn /\ commit_id'[w] = commit_id[w]
  BY RetiredNext, Zenon
<1>2. /\ t \in active_transactions /\ active_transactions' = active_transactions \ {t}
      /\ \A u \in Txn : u # t => commit_id'[u] = commit_id[u]
      /\ (T = {} /\ commit_id'[t] = current_start_timestamp) \/ T = {t}
  BY Zenon DEF Ending, Removal
<1>3. Writer(r, i) \in Txn
  BY WriterFacts, Zenon
<1>4. CASE Writer(r, i) = t
  <2>1. commit_id[w] < current_start_timestamp
    BY <1>1, <1>2, CommitsBelowNext, Zenon
  <2> QED BY <2>1, <1>1, <1>2, <1>4, Zenon
<1>5. CASE Writer(r, i) # t
  <2>1. Writer(r, i) \notin active_transactions
    BY <1>2, <1>5, Zenon
  <2>2. commit_id[w] < commit_id[Writer(r, i)]
    BY <2>1, Zenon DEF Ordered
  <2> QED BY <2>2, <1>1, <1>2, <1>3, <1>5, Zenon
<1> QED BY <1>4, <1>5, Zenon

\* The entries of the versions that stay have their numbers and their tuples.
EntriesStay(r, T, clean) ==
  \A i \in Positions(r) : Writer(r, i) \notin T \cup clean =>
    LET p == version_pointers[r][i]
    IN  /\ undo'[p[1]][p[2]].version_number = NumberNext(r, i)
        /\ undo'[p[1]][p[2]].tuple_data = undo[p[1]][p[2]].tuple_data

\* A commit_id that gets into the chain of r is not among the identifiers.
InTime(r, t, T) ==
  (T = {} /\ \E i \in Positions(r) : Writer(r, i) = t) =>
    current_start_timestamp < TRANSACTION_ID_START

\* In the chain of r, of length n, the first a versions are those of T and the
\* versions from a + 1 to b stay.
EndedAt(r, T, clean, a, b, n) ==
  /\ n \in Nat /\ n = Len(version_pointers[r]) /\ Positions(r) = 1..n
  /\ a \in Nat /\ b \in Nat /\ a <= b /\ b <= n
  /\ \A i \in 1..n : Writer(r, i) \in T <=> i <= a
  /\ \A i \in 1..n : Writer(r, i) \notin T \cup clean <=> a < i /\ i <= b

\* A version that stays and is committed is newer than what has retired.
LEMMA KeptAreNewer ==
  ASSUME Manager, MvccTypeOK, Pointers, WritesLinked, NEW r \in Row \ raced, Ordered(r),
         NEW t, NEW T, NEW clean, Ending(t, T, clean), NEW i \in Positions(r),
         Writer(r, i) \notin T, Writer(r, i) \notin clean, Writer(r, i) \notin active_transactions',
         NEW w \in Retired(r)'
  PROVE  commit_id'[w] < commit_id'[Writer(r, i)]
<1>1. CASE w \in Retired(r)
  BY <1>1, RetiredBefore, Zenon
<1>2. CASE w \notin Retired(r)
  <2>1. w \in clean
    BY <1>2, RetiredNext
  <2>2. Writer(r, i) \in InUse /\ mine[Writer(r, i)][r] # NoWrite
    BY WriterFacts, Zenon
  <2>3. mine'[Writer(r, i)][r] = mine[Writer(r, i)][r]
    BY NextNumber, Zenon
  <2>4. Writer(r, i) = t => commit_id'[t] # 0
    <3>1. t \in active_transactions
      BY Zenon DEF Ending, Removal
    <3>2. (T = {} /\ commit_id'[t] = current_start_timestamp) \/ T = {t}
      BY Zenon DEF Ending
    <3> QED BY <3>1, <3>2, CommitsBelowNext
  <2>5. Writer(r, i) \in InUse'
    BY <2>2, <2>4, Zenon DEF Ending, Removal
  <2>6. WritesNext(Writer(r, i))
    BY <2>2, <2>3, Zenon DEF WritesNext
  <2> QED BY <2>1, <2>5, <2>6, Zenon DEF Ending, Removal
<1> QED BY <1>1, <1>2, Zenon

\* Its commit_id is not among the identifiers.
LEMMA KeptInTime ==
  ASSUME Manager, MvccTypeOK, Pointers, NEW r \in Row \ raced, Ordered(r),
         NEW t, NEW T, NEW clean, Ending(t, T, clean), InTime(r, t, T), NEW i \in Positions(r),
         Writer(r, i) \notin T, Writer(r, i) \notin active_transactions'
  PROVE  commit_id'[Writer(r, i)] < TRANSACTION_ID_START
<1>1. /\ active_transactions' = active_transactions \ {t} /\ t \in active_transactions
      /\ \A u \in Txn : u # t => commit_id'[u] = commit_id[u]
  BY Zenon DEF Ending, Removal
<1>2. (T = {} /\ commit_id'[t] = current_start_timestamp) \/ T = {t}
  BY Zenon DEF Ending
<1>3. CASE Writer(r, i) = t
  BY <1>2, <1>3, Zenon DEF InTime
<1>4. CASE Writer(r, i) # t
  <2>1. Writer(r, i) \notin active_transactions /\ Writer(r, i) \in Txn
    BY <1>1, <1>4, WriterFacts, Zenon
  <2>2. commit_id[Writer(r, i)] < TRANSACTION_ID_START
    BY <2>1, Zenon DEF Ordered
  <2> QED BY <2>1, <2>2, <1>1, <1>4, Zenon
<1> QED BY <1>3, <1>4, Zenon

\* The versions that stay keep their order.
LEMMA EndedNumbers ==
  ASSUME Manager, MvccTypeOK, Pointers, WritesLinked, NEW r \in Row \ raced, Ordered(r),
         NEW t, NEW T, NEW clean, Ending(t, T, clean), NEW a, NEW b, NEW n,
         EndedAt(r, T, clean, a, b, n), InTime(r, t, T)
  PROVE  CutNumbers(r, a, b)
<1>1. /\ n \in Nat /\ Positions(r) = 1..n
      /\ a \in Nat /\ b \in Nat /\ a <= b /\ b <= n
  BY Zenon DEF EndedAt
<1>2. \A i \in 1..n : Writer(r, i) \in T <=> i <= a
  BY Zenon DEF EndedAt
<1>3. \A i \in 1..n : Writer(r, i) \notin T \cup clean <=> a < i /\ i <= b
  BY Zenon DEF EndedAt
<1>4. \A i \in (a + 1)..b : i \in Positions(r) /\ Writer(r, i) \notin T /\ Writer(r, i) \notin clean
  BY <1>1, <1>3
<1>5. \A i \in (a + 1)..b : Writer(r, i) \notin active_transactions' =>
        /\ commit_id'[Writer(r, i)] < TRANSACTION_ID_START
        /\ \A w \in Retired(r)' : commit_id'[w] < commit_id'[Writer(r, i)]
  BY <1>4, KeptInTime, KeptAreNewer, Zenon
<1>6. active_transactions' \subseteq active_transactions
  BY Zenon DEF Ending, Removal
<1>7. \A i, j \in (a + 1)..b :
        Writer(r, i) \in active_transactions' /\ Writer(r, j) \in active_transactions' =>
          Writer(r, i) = Writer(r, j)
  BY <1>4, <1>6, Zenon DEF Ordered
<1>8. ASSUME NEW i \in (a + 1)..b, NEW j \in (a + 1)..b, i < j
      PROVE  \/ NumberNext(r, i) > NumberNext(r, j)
             \/ /\ Writer(r, i) = Writer(r, j)
                /\ version_pointers[r][i][2] > version_pointers[r][j][2]
  BY <1>4, <1>8, NextDescends, Zenon
<1> QED BY <1>5, <1>7, <1>8, Zenon DEF CutNumbers

\* Nobody retires from r when no version is cut off at the end.
LEMMA EndedWhole ==
  ASSUME Manager, MvccTypeOK, Pointers, WritesLinked, NEW r \in Row \ raced, Ordered(r),
         NEW t, NEW T, NEW clean, Ending(t, T, clean), NEW a, NEW b, NEW n,
         EndedAt(r, T, clean, a, b, n), b = n
  PROVE  CutEnd(r, b, n)
<1>1. /\ n \in Nat /\ Positions(r) = 1..n
      /\ a \in Nat /\ b \in Nat /\ a <= b /\ b <= n
  BY Zenon DEF EndedAt
<1>2. \A i \in 1..n : Writer(r, i) \in T <=> i <= a
  BY Zenon DEF EndedAt
<1>3. \A i \in 1..n : Writer(r, i) \notin T \cup clean <=> a < i /\ i <= b
  BY Zenon DEF EndedAt
<1>4. ASSUME NEW w \in Retired(r)', w \notin Retired(r) PROVE FALSE
  <2>1. w \in clean
    BY <1>4, RetiredNext, Zenon
  <2>2. PICK i \in Positions(r) : Writer(r, i) = w /\ w \notin T
    BY <1>4, RetiredNext, Zenon
  <2>3. i \in 1..n /\ a < i /\ i <= b
    BY <2>2, <1>1, <1>2
  <2> QED BY <2>1, <2>2, <2>3, <1>3, Zenon
<1>5. Retired(r) \subseteq Retired(r)'
  BY RetiredNext, Zenon
<1>6. \A w \in Retired(r) : commit_id'[w] = commit_id[w] /\ mine'[w][r] = mine[w][r]
  BY RetiredNext, Zenon
<1>7. Retired(r)' = Retired(r)
  BY <1>4, <1>5, Zenon
<1> QED BY <1>6, <1>7, Zenon DEF CutEnd

\* Otherwise the last one to retire is the writer at b + 1.
LEMMA EndedLast ==
  ASSUME Manager, MvccTypeOK, Pointers, WritesLinked, NEW r \in Row \ raced, Ordered(r),
         NEW t, NEW T, NEW clean, Ending(t, T, clean), NEW a, NEW b, NEW n,
         EndedAt(r, T, clean, a, b, n), NEW e \in Positions(r),
         \A i \in Positions(r) : i <= b \/ i = e \/ e < i,
         Writer(r, e) \in clean, Writer(r, e) \notin T, NEW w \in Retired(r)'
  PROVE  commit_id'[w] <= commit_id'[Writer(r, e)]
<1>1. /\ n \in Nat /\ Positions(r) = 1..n
      /\ a \in Nat /\ b \in Nat /\ a <= b /\ b <= n
  BY Zenon DEF EndedAt
<1>2. \A i \in 1..n : Writer(r, i) \in T <=> i <= a
  BY Zenon DEF EndedAt
<1>3. \A i \in 1..n : Writer(r, i) \notin T \cup clean <=> a < i /\ i <= b
  BY Zenon DEF EndedAt
<1>4. \A u \in Txn : commit_id'[u] \in Nat
  BY Zenon DEF Ending, Removal
<1>5. clean \cap active_transactions' = {}
  BY Zenon DEF Ending, Removal
<1>6. Writer(r, e) \in Txn
  BY WriterFacts, Zenon
<1>7. CASE w \in Retired(r)
  <2>1. commit_id'[w] < commit_id'[Writer(r, e)]
    BY <1>5, <1>7, RetiredBefore, Zenon
  <2>2. w \in Txn
    BY <1>7, RetiredNext, Zenon
  <2> QED BY <2>1, <2>2, <1>4, <1>6
<1>8. CASE w \notin Retired(r)
  <2>1. w \in clean
    BY <1>8, RetiredNext, Zenon
  <2>2. PICK i \in Positions(r) : Writer(r, i) = w /\ w \notin T
    BY <1>8, RetiredNext, Zenon
  <2>3. i \in 1..n /\ ~(a < i /\ i <= b) /\ ~(i <= a)
    BY <2>1, <2>2, <1>1, <1>2, <1>3, Zenon
  <2>4. i = e \/ e < i
    BY <2>3, <1>1
  <2>5. w \in Txn
    BY <2>2, WriterFacts, Zenon
  <2>6. CASE i = e
    BY <2>2, <2>5, <2>6, <1>4
  <2>7. CASE e < i
    <3>1. NumberNext(r, e) > NumberNext(r, i) \/ Writer(r, e) = Writer(r, i)
      <4>1. /\ Writer(r, i) \notin T
            /\ \/ NumberNext(r, e) > NumberNext(r, i)
               \/ /\ Writer(r, e) = Writer(r, i)
                  /\ version_pointers[r][e][2] > version_pointers[r][i][2]
        BY <2>7, NextDescends, Zenon
      <4> QED BY <4>1, Zenon
    <3>2. NumberNext(r, e) = commit_id'[Writer(r, e)] /\ NumberNext(r, i) = commit_id'[w]
      BY <2>1, <2>2, <1>5, Zenon DEF NumberNext
    <3> QED BY <3>1, <3>2, <2>2, <2>5, <1>4, <1>6
  <2> QED BY <2>4, <2>6, <2>7, Zenon
<1> QED BY <1>7, <1>8, Zenon

\* Both together.
LEMMA EndedEnd ==
  ASSUME Manager, MvccTypeOK, Pointers, WritesLinked, NEW r \in Row \ raced, Ordered(r),
         NEW t, NEW T, NEW clean, Ending(t, T, clean), NEW a, NEW b, NEW n,
         EndedAt(r, T, clean, a, b, n)
  PROVE  CutEnd(r, b, n)
<1>1. /\ n \in Nat /\ Positions(r) = 1..n
      /\ a \in Nat /\ b \in Nat /\ a <= b /\ b <= n
  BY Zenon DEF EndedAt
<1>2. \A i \in 1..n : Writer(r, i) \in T <=> i <= a
  BY Zenon DEF EndedAt
<1>3. \A i \in 1..n : Writer(r, i) \notin T \cup clean <=> a < i /\ i <= b
  BY Zenon DEF EndedAt
<1>4. CASE b = n
  BY <1>4, EndedWhole, Zenon
<1>5. CASE b < n
  <2>e. PICK e \in Nat : e = b + 1
    BY <1>1
  <2>1. e \in 1..n /\ ~(e <= b) /\ ~(e <= a) /\ e - 1 = b
    BY <2>e, <1>1, <1>5
  <2>2. Writer(r, e) \in clean /\ Writer(r, e) \notin T /\ e \in Positions(r)
    BY <2>1, <1>1, <1>2, <1>3, Zenon
  <2>3. Newest(r, e)
    <3>1. CASE b = 0
      BY <3>1, <2>e DEF Newest
    <3>2. CASE b # 0
      <4>1. b \in 1..n /\ b <= b /\ (a < b \/ b <= a)
        BY <3>2, <1>1
      <4>2. Writer(r, b) \notin T \cup clean \/ Writer(r, b) \in T
        BY <4>1, <1>2, <1>3, Zenon
      <4> QED BY <4>2, <2>1, <2>2, Zenon DEF Newest
    <3> QED BY <3>1, <3>2, Zenon
  <2>4. mine'[Writer(r, e)][r] = mine[Writer(r, e)][r]
    BY <2>2, NextNumber, Zenon
  <2>5. mine[Writer(r, e)][r] # NoWrite
    BY <2>2, WriterFacts, Zenon
  <2>6. CleanedUp' = CleanedUp \cup clean
    BY Zenon DEF Ending, Removal
  <2>7. Writer(r, e) \in Retired(r)'
    BY <2>2, <2>4, <2>5, <2>6, Zenon DEF Retired
  <2>8. \A w \in Retired(r)' : commit_id'[w] <= commit_id'[Writer(r, e)]
    <3>1. \A i \in Positions(r) : i <= b \/ i = e \/ e < i
      BY <2>e, <1>1
    <3> QED BY <2>2, <3>1, EndedLast, Zenon
  <2> QED BY <2>e, <2>3, <2>4, <2>7, <2>8, <1>5, Zenon DEF CutEnd
<1> QED BY <1>1, <1>4, <1>5

\* The version below those of T is the newest one of its transaction.
LEMMA EndedTop ==
  ASSUME Manager, MvccTypeOK, Pointers, WritesLinked, NEW r \in Row \ raced, Ordered(r),
         NEW t, NEW T, NEW clean, Ending(t, T, clean), NEW a, NEW b, NEW n,
         EndedAt(r, T, clean, a, b, n),
         FromStorage(State(r, 0)') = FromStorage(State(r, a))
  PROVE  CutTop(r, a, n)
<1>1. /\ n \in Nat /\ Positions(r) = 1..n
      /\ a \in Nat /\ b \in Nat /\ a <= b /\ b <= n
  BY Zenon DEF EndedAt
<1>2. \A i \in 1..n : Writer(r, i) \in T <=> i <= a
  BY Zenon DEF EndedAt
<1>3. \A i \in 1..n : Writer(r, i) \notin T \cup clean <=> a < i /\ i <= b
  BY Zenon DEF EndedAt
<1>4. ASSUME a < n PROVE Newest(r, a + 1)
  <2>1. a + 1 \in 1..n /\ ~(a + 1 <= a)
    BY <1>1, <1>4
  <2>2. Writer(r, a + 1) \notin T
    BY <2>1, <1>2, Zenon
  <2>3. CASE a = 0
    BY <2>3 DEF Newest
  <2>4. CASE a # 0
    <3>1. a \in 1..n /\ a <= a /\ (a + 1) - 1 = a
      BY <2>4, <1>1
    <3>2. Writer(r, a) \in T
      BY <3>1, <1>2, Zenon
    <3> QED BY <3>1, <3>2, <2>2, Zenon DEF Newest
  <2> QED BY <2>3, <2>4, Zenon
<1> QED BY <1>4, Zenon DEF CutTop

\* A row keeps its order and its record when a transaction ends.
LEMMA EndedRow ==
  ASSUME Manager, MvccTypeOK, Pointers, WritesLinked, NEW r \in Row \ raced, Ordered(r), Recorded(r),
         NEW t, NEW T, NEW clean, Ending(t, T, clean), NEW a, NEW b, NEW n,
         EndedAt(r, T, clean, a, b, n), CutShape(r, a, b, n),
         EntriesStay(r, T, clean), InTime(r, t, T),
         FromStorage(State(r, 0)') = FromStorage(State(r, a))
  PROVE  Ordered(r)' /\ Recorded(r)'
<1>1. CutEntries(r, a, b)
  <2>1. transaction_id' = transaction_id
    BY Zenon DEF Ending, Removal
  <2>2. \A i \in (a + 1)..b : i \in Positions(r) /\ Writer(r, i) \notin T \cup clean
    BY DEF EndedAt
  <2>3. \A i \in (a + 1)..b : mine'[version_pointers[r][i][1]][r] = mine[version_pointers[r][i][1]][r]
    <3> TAKE i \in (a + 1)..b
    <3>1. mine'[Writer(r, i)][r] = mine[Writer(r, i)][r]
      BY <2>2, NextNumber, Zenon
    <3> QED BY <3>1, Zenon DEF Writer
  <2> QED BY <2>1, <2>2, <2>3, Zenon DEF CutEntries, EntriesStay
<1>2. CutNumbers(r, a, b) /\ CutEnd(r, b, n) /\ CutTop(r, a, n)
  BY EndedNumbers, EndedEnd, EndedTop, Zenon
<1>3. a \in Nat /\ b \in Nat /\ n \in Nat /\ a <= b /\ b <= n
  BY Zenon DEF EndedAt
<1> QED BY <1>1, <1>2, <1>3, RowCut, Zenon

-----------------------------------------------------------------------------
(* The chains and the history after the end of a transaction.               *)

\* The chain of r loses the versions of S.
Relinked(r, S) == Shortened(version_pointers[r], version_pointers'[r], S)

\* Those in use after the end of t keep their undo buffers; t has stamped its own.
BuffersStay(t, T) ==
  \A u \in InUse' \ T :
    /\ Len(undo'[u]) = Len(undo[u])
    /\ \A k \in 1..Len(undo[u]) :
         /\ undo'[u][k].row = undo[u][k].row /\ undo'[u][k].tuple_data = undo[u][k].tuple_data
         /\ undo'[u][k].version_number =
              IF u = t THEN current_start_timestamp ELSE undo[u][k].version_number

\* A transaction that neither the end of t undoes (T) nor its cleanup drops (clean)
\* stays in use, and keeps its writes.
OthersStay(t, T, clean) ==
  /\ t \in Txn /\ t \in active_transactions /\ T \subseteq {t}
  /\ \A u \in InUse : u \notin T \cup clean => u \in InUse' /\ u \in Txn
  /\ \A u \in InUse' : u \in InUse /\ u \in Txn /\ u \notin clean
  /\ \A u \in Txn, r \in Row : mine'[u][r] = IF u \in T THEN NoWrite ELSE mine[u][r]

\* That is what the end of t means for the others.
LEMMA EndFacts ==
  ASSUME Manager, MvccTypeOK, NEW t, NEW T, NEW clean, Ending(t, T, clean)
  PROVE  OthersStay(t, T, clean)
<1>1. /\ t \in active_transactions /\ commit_id'[t] # 0 /\ t \notin clean => t \in InUse'
      /\ InUse' \subseteq InUse \ clean /\ InUse \ (clean \cup {t}) \subseteq InUse'
      /\ t \in active_transactions
  BY Zenon DEF Ending, Removal
<1>2. InUse \subseteq Txn /\ active_transactions \subseteq Txn
  BY ListsType, Zenon DEF Manager, InUse
<1>3. mine \in [Txn -> [Row -> Val \cup {Absent, NoWrite}]]
  BY Zenon DEF MvccTypeOK
<1>4. CASE T = {} /\ commit_id'[t] = current_start_timestamp /\ mine' = mine
  <2>1. current_start_timestamp # 0
    BY <1>1, CommitsBelowNext
  <2> QED BY <2>1, <1>1, <1>2, <1>4, Zenon DEF OthersStay
<1>5. CASE T = {t} /\ mine' = [mine EXCEPT ![t] = [r \in Row |-> NoWrite]]
  BY <1>1, <1>2, <1>3, <1>5, Zenon DEF OthersStay
<1> QED BY <1>4, <1>5, Zenon DEF Ending

\* p leads where it led, to the same tuple, stamped if it is of t.
LeadsOn(p, r, t) ==
  /\ LeadsTo(p, r)'
  /\ undo'[p[1]][p[2]].tuple_data = undo[p[1]][p[2]].tuple_data
  /\ undo'[p[1]][p[2]].version_number =
       IF p[1] = t THEN current_start_timestamp ELSE undo[p[1]][p[2]].version_number

\* So do the pointers to entries of such transactions.
LEMMA EndLeads ==
  ASSUME Manager, MvccTypeOK, NEW t, NEW T, NEW clean, Ending(t, T, clean), BuffersStay(t, T),
         NEW r \in Row, NEW p \in Txn \X Nat, LeadsTo(p, r), p[1] \notin T \cup clean
  PROVE  LeadsOn(p, r, t)
<1>1. PICK u \in Txn, k \in Nat : p = <<u, k>>
  OBVIOUS
<1>2. /\ u \in InUse /\ k \in 1..Len(undo[u]) /\ undo[u][k].row = r /\ mine[u][r] # NoWrite
      /\ u \notin T \cup clean
  BY <1>1, Zenon DEF LeadsTo, Entry
<1>3. u \in InUse' /\ mine'[u][r] = mine[u][r]
  <2>1. OthersStay(t, T, clean)
    BY EndFacts, Zenon
  <2> QED BY <1>2, <2>1, Zenon DEF OthersStay
<1>4. /\ Len(undo'[u]) = Len(undo[u])
      /\ undo'[u][k].row = undo[u][k].row /\ undo'[u][k].tuple_data = undo[u][k].tuple_data
      /\ undo'[u][k].version_number =
           IF u = t THEN current_start_timestamp ELSE undo[u][k].version_number
  BY <1>2, <1>3 DEF BuffersStay
<1> QED BY <1>1, <1>2, <1>3, <1>4, Zenon DEF LeadsOn, LeadsTo, Entry

\* The pointers lead to entries after the end of t.
LEMMA EndPointers ==
  ASSUME Manager, MvccTypeOK, Pointers, NEW t, NEW T, NEW clean, Ending(t, T, clean),
         BuffersStay(t, T), raced \subseteq raced',
         \A r \in Row \ raced' : Relinked(r, T \cup clean)
  PROVE  Pointers'
<1> SUFFICES ASSUME NEW r \in Row \ raced', NEW i \in Positions(r)'
             PROVE  /\ LeadsTo(version_pointers[r][i], r)'
                    /\ Entry(version_pointers[r][i])'.tuple_data = Absent =>
                         i = Len(version_pointers'[r])
  BY Zenon DEF Pointers
<1>r. r \in Row \ raced
  BY Zenon
<1>n. PICK n \in Nat, m \in Nat : n = Len(version_pointers[r]) /\ m = Len(version_pointers'[r])
  <2>1. PICK c \in Seq(Txn \X Nat), d \in Seq(Txn \X Nat) :
          c = version_pointers[r] /\ d = version_pointers'[r]
    BY Zenon DEF MvccTypeOK, Relinked, Shortened
  <2>2. Len(c) \in Nat /\ Len(d) \in Nat
    OBVIOUS
  <2> QED BY <2>1, <2>2, Zenon
<1>f. PICK f \in [1..m -> 1..n] :
        /\ \A k \in 1..m : /\ version_pointers'[r][k] = version_pointers[r][f[k]]
                           /\ version_pointers[r][f[k]][1] \notin T \cup clean
        /\ \A k, l \in 1..m : k < l => f[k] < f[l]
  BY <1>n, Zenon DEF Relinked, Shortened
<1>1. i \in 1..m /\ f[i] \in 1..n /\ f[i] \in Positions(r)
  BY <1>n, Zenon DEF Positions
<1>2. PICK p \in Txn \X Nat : p = version_pointers[r][f[i]]
  <2>1. PICK s \in Seq(Txn \X Nat) : s = version_pointers[r]
    BY Zenon DEF MvccTypeOK
  <2>2. s[f[i]] \in Txn \X Nat
    BY <1>1, <1>n, <2>1
  <2> QED BY <2>1, <2>2, Zenon
<1>3. p[1] \notin T \cup clean /\ version_pointers'[r][i] = p
  BY <1>1, <1>2, <1>f, Zenon
<1>4. LeadsTo(p, r) /\ (Entry(p).tuple_data = Absent => f[i] = n)
  BY <1>1, <1>2, <1>n, <1>r, Zenon DEF Pointers
<1>6. LeadsOn(p, r, t)
  BY <1>3, <1>4, <1>r, EndLeads, Zenon
<1>7. LeadsTo(p, r)' /\ (undo'[p[1]][p[2]].tuple_data = Absent => f[i] = n)
  BY <1>4, <1>6, Zenon DEF LeadsOn, Entry
<1>5. f[i] = n => i = m
  <2>1. m \in 1..m /\ (i = m \/ i < m)
    BY <1>1
  <2>2. i < m => f[i] < f[m] /\ f[m] \in 1..n
    BY <2>1, <1>1, <1>f, Zenon
  <2> QED BY <2>1, <2>2, <1>1
<1> QED BY <1>3, <1>5, <1>7, <1>n, Zenon DEF Entry, LeadsTo

\* The writes of those in use are in the chains after the end of t.
LEMMA EndLinked ==
  ASSUME Manager, MvccTypeOK, WritesLinked, NEW t, NEW T, NEW clean, Ending(t, T, clean),
         raced \subseteq raced', \A r \in Row \ raced' : Relinked(r, T \cup clean)
  PROVE  WritesLinked'
<1> SUFFICES ASSUME NEW r \in Row \ raced', NEW u \in InUse', mine'[u][r] # NoWrite
             PROVE  \E k \in Positions(r)' : Writer(r, k)' = u
  BY Zenon DEF WritesLinked
<1>1. u \in InUse /\ u \notin T \cup clean /\ mine[u][r] # NoWrite
  <2>1. OthersStay(t, T, clean)
    BY EndFacts, Zenon
  <2> QED BY <2>1, Zenon DEF OthersStay
<1>2. PICK i \in Positions(r) : Writer(r, i) = u
  <2>1. r \in Row \ raced
    BY Zenon
  <2> QED BY <2>1, <1>1, Zenon DEF WritesLinked
<1>3. PICK k \in Positions(r)' : version_pointers'[r][k] = version_pointers[r][i]
  BY <1>1, <1>2 DEF Relinked, Shortened, Positions, Writer
<1> QED BY <1>2, <1>3, Zenon DEF Writer

\* Who has committed after the end of t.
LEMMA EndKnown ==
  ASSUME Manager, MvccTypeOK, WritersKnown, CommitsDiffer, NEW t, NEW T, NEW clean,
         Ending(t, T, clean)
  PROVE  (WritersKnown /\ ListOrder(recently_committed_transactions) /\ CommitsDiffer)'
<1>1. /\ t \in active_transactions /\ active_transactions' = active_transactions \ {t}
      /\ \A u \in Txn : u # t => commit_id'[u] = commit_id[u]
      /\ Started' = Started /\ ListOrder(recently_committed_transactions)'
  BY Zenon DEF Ending, Removal
<1>2. /\ T \subseteq {t} /\ t \in Txn
      /\ \A u \in Txn, r \in Row : mine'[u][r] = IF u \in T THEN NoWrite ELSE mine[u][r]
  <2>1. OthersStay(t, T, clean)
    BY EndFacts, Zenon
  <2> QED BY <2>1, Zenon DEF OthersStay
<1>3. \A u \in Txn : Writes(u)' => u \notin T /\ Writes(u)
  BY <1>2, Zenon DEF Writes
<1>4. \A u \in Txn : u # t => (HasCommitted(u)' <=> HasCommitted(u))
  BY <1>1, Zenon DEF HasCommitted
<1>5. /\ current_start_timestamp > 0 /\ current_start_timestamp \in Nat
      /\ \A u \in Txn : commit_id[u] \in Nat /\ commit_id[u] < current_start_timestamp
  BY <1>1, CommitsBelowNext, Zenon
<1>6. T = {t} \/ commit_id'[t] = current_start_timestamp
  BY Zenon DEF Ending
<1>7. T # {t} => HasCommitted(t)'
  BY <1>1, <1>5, <1>6 DEF HasCommitted, Started
<1>8. WritersKnown'
  <2> SUFFICES ASSUME NEW u \in Txn, NEW r \in Row, mine'[u][r] # NoWrite
               PROVE  u \in active_transactions' \/ HasCommitted(u)'
    BY Zenon DEF WritersKnown
  <2>1. mine[u][r] # NoWrite /\ u \notin T
    BY <1>2, Zenon
  <2>2. u \in active_transactions \/ HasCommitted(u)
    BY <2>1, Zenon DEF WritersKnown
  <2> QED BY <2>1, <2>2, <1>1, <1>4, <1>7, Zenon
<1>9. CommitsDiffer'
  <2> SUFFICES ASSUME NEW u \in Txn, NEW w \in Txn, HasCommitted(u)', HasCommitted(w)',
                      Writes(u)', Writes(w)', u # w
               PROVE  commit_id'[u] # commit_id'[w]
    BY Zenon DEF CommitsDiffer
  <2>1. Writes(u) /\ Writes(w) /\ u \notin T /\ w \notin T
    BY <1>3, Zenon
  <2>2. CASE u # t /\ w # t
    <3>1. HasCommitted(u) /\ HasCommitted(w)
      BY <2>2, <1>4, Zenon
    <3> QED BY <3>1, <2>1, <2>2, <1>1, Zenon DEF CommitsDiffer
  <2>3. CASE u = t \/ w = t
    BY <2>1, <2>3, <1>1, <1>5, <1>6
  <2> QED BY <2>2, <2>3, Zenon
<1> QED BY <1>1, <1>8, <1>9, Zenon

\* The entries that stay have their tuples and the numbers they should have.
LEMMA EndEntries ==
  ASSUME Manager, MvccTypeOK, Pointers, NEW r \in Row \ raced, Ordered(r), NEW t, NEW T, NEW clean,
         Ending(t, T, clean), BuffersStay(t, T)
  PROVE  EntriesStay(r, T, clean)
<1>1. ASSUME NEW i \in Positions(r), Writer(r, i) \notin T \cup clean,
             NEW p \in Txn \X Nat, p = version_pointers[r][i]
      PROVE  /\ undo'[p[1]][p[2]].version_number = NumberNext(r, i)
             /\ undo'[p[1]][p[2]].tuple_data = undo[p[1]][p[2]].tuple_data
  <2>1. LeadsTo(p, r) /\ p[1] \notin T \cup clean /\ p[1] = Writer(r, i)
    BY <1>1, Zenon DEF Pointers, Writer
  <2>2. LeadsOn(p, r, t)
    BY <2>1, EndLeads, Zenon
  <2>3. undo[p[1]][p[2]].version_number = Number(r, i)
    BY <1>1, Zenon DEF Ordered, VersionNumber, Entry
  <2>4. /\ Writer(r, i) # t => NumberNext(r, i) = Number(r, i)
        /\ Writer(r, i) = t => NumberNext(r, i) = current_start_timestamp
    BY <1>1, NextNumber, Zenon
  <2> QED BY <2>1, <2>2, <2>3, <2>4, Zenon DEF LeadsOn
<1>2. \A i \in Positions(r) : version_pointers[r][i] \in Txn \X Nat
  <2>1. version_pointers[r] \in Seq(Txn \X Nat)
    BY Zenon DEF MvccTypeOK
  <2> QED BY <2>1 DEF Positions
<1> QED BY <1>1, <1>2, Zenon DEF EntriesStay

\* The part of the chain of r that stays, and the table below it.
RowEnds(r, t, T, clean) ==
  /\ InTime(r, t, T)
  /\ \E a, b, n :
       /\ EndedAt(r, T, clean, a, b, n) /\ CutShape(r, a, b, n)
       /\ FromStorage(State(r, 0)') = FromStorage(State(r, a))

\* The end of a transaction keeps the invariant.
LEMMA EndKeeps ==
  ASSUME Manager, MvccInv, MvccTypeOK', Unborn', NEW t, NEW T, NEW clean, Ending(t, T, clean),
         BuffersStay(t, T), raced \subseteq raced', \A r \in Row : MayShrink(r),
         \A r \in Row \ raced' : Relinked(r, T \cup clean),
         tainted \subseteq tainted', \A r \in Row \ tainted' : RowEnds(r, t, T, clean)
  PROVE  MvccInv'
<1>1. MvccTypeOK /\ Pointers /\ OwnEntries /\ WritesLinked /\ WritersKnown /\ CommitsDiffer
  BY Zenon DEF MvccInv
<1>2. Pointers'
  BY <1>1, EndPointers, Zenon
<1>o. OwnEntries'
  <2>1. /\ active_transactions' = active_transactions \ {t} /\ Started' = Started /\ T \subseteq {t}
    BY <1>1, EndFacts, Zenon DEF Ending, Removal, OthersStay
  <2>2. RunnersStay
    <3>1. \A u \in active_transactions' : u \in InUse' \ T
      BY <2>1, Zenon DEF InUse
    <3> QED BY <2>1, <3>1, Zenon DEF RunnersStay, BuffersStay
  <2> QED BY <2>2, <1>1, OwnStays, Zenon
<1>3. WritesLinked'
  BY <1>1, EndLinked, Zenon
<1>4. (WritersKnown /\ ListOrder(recently_committed_transactions) /\ CommitsDiffer)'
  BY <1>1, EndKnown, Zenon
<1>5. ASSUME NEW r \in Row \ tainted' PROVE Ordered(r)' /\ Recorded(r)'
  <2>1. r \in Row \ raced /\ Ordered(r) /\ Recorded(r)
    BY <1>1, Zenon DEF MvccInv, MvccTypeOK
  <2>2. EntriesStay(r, T, clean)
    BY <2>1, <1>1, EndEntries, Zenon
  <2>3. InTime(r, t, T)
    BY Zenon DEF RowEnds
  <2>4. PICK a, b, n :
          /\ EndedAt(r, T, clean, a, b, n) /\ CutShape(r, a, b, n)
          /\ FromStorage(State(r, 0)') = FromStorage(State(r, a))
    BY Zenon DEF RowEnds
  <2> QED BY <2>1, <2>2, <2>3, <2>4, <1>1, EndedRow, Zenon
<1> QED BY <1>2, <1>o, <1>3, <1>4, <1>5, Zenon DEF MvccInv
=============================================================================
