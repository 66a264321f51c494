----------------------------- MODULE RowProofs ------------------------------
(***************************************************************************)
(* What a transaction that writes a row (Transaction::PushTuple,           *)
(* DataTable::Append, Delete and Update), starts or fails to commit keeps  *)
(* of the invariant of the version chains.                                 *)
(***************************************************************************)
EXTENDS MvccInvariant, TLAPS

-----------------------------------------------------------------------------
(* What a step does to one row.                                             *)

\* The elements of a list are of the type of the list.
LEMMA ElemsWithin ==
  ASSUME NEW S, NEW s \in Seq(S)
  PROVE  Elems(s) \subseteq S
BY DEF Elems

\* The transactions in the lists.
LEMMA ListsType ==
  ASSUME TMTypeOK
  PROVE  InUse \subseteq Txn /\ CleanedUp \subseteq Txn
<1>1. /\ active_transactions \subseteq Txn /\ freed \subseteq Txn
      /\ recently_committed_transactions \in Seq(Txn) /\ old_transactions \in Seq(Txn)
  BY Zenon DEF TMTypeOK
<1>2. Elems(recently_committed_transactions) \subseteq Txn /\ Elems(old_transactions) \subseteq Txn
  BY <1>1, ElemsWithin, Zenon
<1> QED BY <1>1, <1>2, Zenon DEF InUse, CleanedUp

\* Neither the chain of r and its tuples nor the writers of r change.
Undisturbed(r) ==
  /\ version_pointers'[r] = version_pointers[r]
  /\ State(r, 0)' = State(r, 0)
  /\ \A i \in Positions(r) :
       LET p == version_pointers[r][i]
       IN  /\ undo'[p[1]][p[2]] = undo[p[1]][p[2]]
           /\ p[1] \in active_transactions' <=> p[1] \in active_transactions
           /\ p[1] \in active_transactions => transaction_id'[p[1]] = transaction_id[p[1]]
           /\ p[1] \notin active_transactions => commit_id'[p[1]] = commit_id[p[1]]
           /\ mine'[p[1]][r] = mine[p[1]][r]
  /\ Retired(r)' = Retired(r)
  /\ \A u \in Retired(r) : commit_id'[u] = commit_id[u] /\ mine'[u][r] = mine[u][r]

\* Then the row keeps its order and its record.
LEMMA RowKept ==
  ASSUME NEW r \in Row, Ordered(r), Recorded(r), Undisturbed(r)
  PROVE  Ordered(r)' /\ Recorded(r)'
<1>1. Positions(r)' = Positions(r) /\ Len(version_pointers'[r]) = Len(version_pointers[r])
  BY Zenon DEF Undisturbed, Positions
<1>2. \A i : Writer(r, i)' = Writer(r, i) /\ version_pointers'[r][i] = version_pointers[r][i]
  BY Zenon DEF Undisturbed, Writer
<1>3. \A i \in Positions(r) :
        /\ Writer(r, i) \in active_transactions' <=> Writer(r, i) \in active_transactions
        /\ Writer(r, i) \notin active_transactions => commit_id'[Writer(r, i)] = commit_id[Writer(r, i)]
        /\ mine'[Writer(r, i)][r] = mine[Writer(r, i)][r]
  BY Zenon DEF Undisturbed, Writer
<1>4. \A i \in Positions(r) : Number(r, i)' = Number(r, i)
  <2> TAKE i \in Positions(r)
  <2>1. Writer(r, i) \in active_transactions =>
          transaction_id'[Writer(r, i)] = transaction_id[Writer(r, i)]
    BY Zenon DEF Undisturbed, Writer
  <2> QED BY <2>1, <1>2, <1>3, Zenon DEF Number
<1>5. \A i \in Positions(r) :
        undo'[version_pointers[r][i][1]][version_pointers[r][i][2]]
          = undo[version_pointers[r][i][1]][version_pointers[r][i][2]]
  BY Zenon DEF Undisturbed
<1>6. \A i \in Positions(r) :
        VersionNumber(version_pointers[r][i])' = VersionNumber(version_pointers[r][i])
  BY <1>2, <1>5, Zenon DEF VersionNumber, Entry
<1>7. \A i \in Positions(r) : State(r, i)' = State(r, i)
  <2> TAKE i \in Positions(r)
  <2>1. i # 0
    BY DEF Positions
  <2> QED BY <2>1, <1>2, <1>5, Zenon DEF State, Entry
<1>8. /\ Retired(r)' = Retired(r) /\ State(r, 0)' = State(r, 0)
      /\ \A u \in Retired(r) : commit_id'[u] = commit_id[u] /\ mine'[u][r] = mine[u][r]
  BY Zenon DEF Undisturbed
<1>9. Ordered(r)'
  <2>1. \A i \in Positions(r) :
          VersionNumber(version_pointers[r][i])' = Number(r, i)'
    BY <1>4, <1>6, Zenon DEF Ordered
  <2>2. \A i \in Positions(r) : Writer(r, i)' \notin active_transactions' =>
          /\ commit_id'[Writer(r, i)'] < TRANSACTION_ID_START
          /\ \A w \in Retired(r)' : commit_id'[w] < commit_id'[Writer(r, i)']
    BY <1>2, <1>3, <1>8 DEF Ordered
  <2>3. \A i, j \in Positions(r) :
          Writer(r, i)' \in active_transactions' /\ Writer(r, j)' \in active_transactions' =>
            Writer(r, i)' = Writer(r, j)'
    BY <1>2, <1>3 DEF Ordered
  <2>4. \A i, j \in Positions(r) : i < j =>
          \/ Number(r, i)' > Number(r, j)'
          \/ /\ Writer(r, i)' = Writer(r, j)'
             /\ version_pointers'[r][i][2] > version_pointers'[r][j][2]
    BY <1>2, <1>4 DEF Ordered
  <2> QED BY <2>1, <2>2, <2>3, <2>4, <1>1 DEF Ordered
<1>10. \A i \in Positions(r) : State(r, i - 1)' = State(r, i - 1)
  <2> TAKE i \in Positions(r)
  <2>1. i - 1 = 0 \/ i - 1 \in Positions(r)
    BY DEF Positions
  <2> QED BY <2>1, <1>7, <1>8, Zenon
<1>11. State(r, Len(version_pointers[r]))' = State(r, Len(version_pointers[r]))
  <2>1. PICK n : n = Len(version_pointers[r])
    BY Zenon
  <2>2. n = 0 \/ n \in Positions(r)
    BY <2>1 DEF Positions
  <2>3. State(r, n)' = State(r, n)
    BY <2>2, <1>7, <1>8, Zenon
  <2> QED BY <2>1, <2>3, <1>1, Zenon
<1>12. \A i \in Positions(r) : Newest(r, i)' <=> Newest(r, i)
  BY <1>2, Zenon DEF Newest
<1>13. Recorded(r)'
  <2>1. \A i \in Positions(r) : Newest(r, i)' =>
          FromStorage(State(r, i - 1)') = mine'[Writer(r, i)'][r]
    BY <1>2, <1>3, <1>10, <1>12, Zenon DEF Recorded
  <2>2. LET last == FromStorage(State(r, Len(version_pointers[r])))
        IN  \/ Retired(r)' = {} /\ last = Absent
            \/ \E u \in Retired(r)' :
                 last = mine'[u][r] /\ \A w \in Retired(r)' : commit_id'[w] <= commit_id'[u]
    BY <1>8, Zenon DEF Recorded
  <2> QED BY <2>1, <2>2, <1>1, <1>11, Zenon DEF Recorded
<1> QED BY <1>9, <1>13, Zenon

\* Positions shift by one when a version goes in front.
LEMMA ConsFacts ==
  ASSUME NEW S, NEW p \in S, NEW c \in Seq(S)
  PROVE  /\ <<p>> \o c \in Seq(S) /\ Len(<<p>> \o c) = Len(c) + 1 /\ (<<p>> \o c)[1] = p
         /\ \A i \in 1..Len(c) : (<<p>> \o c)[i + 1] = c[i]
         /\ \A i \in 2..(Len(c) + 1) : i - 1 \in 1..Len(c) /\ (<<p>> \o c)[i] = c[i - 1]
OBVIOUS

\* A transaction t pushes an entry with data for r: its chain, of length n, gets a
\* version in front, and the others keep their entries.
Pushed(r, t, data, n) ==
  /\ n \in Nat /\ n = Len(version_pointers[r]) /\ Len(version_pointers'[r]) = n + 1
  /\ version_pointers'[r][1] = <<t, Len(undo[t]) + 1>>
  /\ \A i \in 2..(n + 1) : version_pointers'[r][i] = version_pointers[r][i - 1]
  /\ undo'[t][Len(undo[t]) + 1].version_number = transaction_id[t]
  /\ undo'[t][Len(undo[t]) + 1].tuple_data = data
  /\ \A i \in 1..n :
       LET q == version_pointers[r][i]
       IN  undo'[q[1]][q[2]] = undo[q[1]][q[2]]

\* Push leaves all other entries alone.
LEMMA PushKeepsEntries ==
  ASSUME MvccTypeOK, NEW t \in Txn, NEW type, NEW r, NEW data, Push(t, type, r, data),
         NEW u \in Txn, NEW i \in 1..Len(undo[u])
  PROVE  undo'[u][i] = undo[u][i]
<1>1. undo \in [Txn -> Seq(UndoEntry)]
  BY Zenon DEF MvccTypeOK
<1>2. PICK e : undo' = [undo EXCEPT ![t] = Append(undo[t], e)]
  BY Zenon DEF Push
<1>3. undo[u] \in Seq(UndoEntry)
  BY <1>1, Zenon
<1>4. \A s \in Seq(UndoEntry) : \A k \in 1..Len(s) : Append(s, e)[k] = s[k]
  OBVIOUS
<1>5. undo'[u] = undo[u] \/ undo'[u] = Append(undo[u], e)
  BY <1>1, <1>2, Zenon
<1> QED BY <1>3, <1>4, <1>5, Zenon

\* What Push says of the overlap with commits and rollbacks.
LEMMA PushOverlap ==
  ASSUME MvccTypeOK, NEW t \in Txn, NEW type, NEW r \in Row, NEW data, Push(t, type, r, data)
  PROVE  /\ pushing' \subseteq Txn \X Row /\ undoing' \subseteq Row
         /\ raced \subseteq raced' /\ raced' \subseteq Row
<1>1. /\ pushing \subseteq Txn \X Row /\ undoing \subseteq Row
      /\ raced \subseteq tainted /\ tainted \subseteq Row
  BY Zenon DEF MvccTypeOK
<1>2. pushing' \subseteq Txn \X Row
  <2>1. pushing' = Pushing(t, r) /\ <<t, r>> \in Txn \X Row
    BY Zenon DEF Push
  <2> QED BY <2>1, <1>1, Zenon DEF Pushing
<1>3. undoing' = undoing /\ raced' \in {raced, raced \cup {x \in undoing \cap {r} : OverOther(t, r)}}
  BY Zenon DEF Push
<1> QED BY <1>1, <1>2, <1>3, Zenon

\* Push does this to the chain of its row.
LEMMA PushShape ==
  ASSUME MvccTypeOK, Pointers, NEW t \in Txn, NEW type, NEW r \in Row \ raced, NEW data,
         Push(t, type, r, data)
  PROVE  \E n \in Nat : Pushed(r, t, data, n)
<1>1. /\ undo \in [Txn -> Seq(UndoEntry)] /\ version_pointers \in [Row -> Seq(Txn \X Nat)]
  BY Zenon DEF MvccTypeOK
<1>c. PICK c \in Seq(Txn \X Nat) : c = version_pointers[r]
  BY <1>1, Zenon
<1>n. PICK n \in Nat : n = Len(c)
  BY <1>c
<1>p. PICK p \in Txn \X Nat : p = <<t, Len(undo[t]) + 1>>
  <2>1. undo[t] \in Seq(UndoEntry)
    BY <1>1, Zenon
  <2>2. Len(undo[t]) + 1 \in Nat
    BY <2>1
  <2> QED BY <2>2, Zenon
<1>2. version_pointers'[r] = <<p>> \o c
  BY <1>1, <1>c, <1>p, Zenon DEF Push
<1>3. /\ Len(version_pointers'[r]) = n + 1 /\ version_pointers'[r][1] = p
      /\ \A i \in 2..(n + 1) : version_pointers'[r][i] = c[i - 1]
  BY <1>2, <1>n, ConsFacts
<1>4. /\ undo'[t][Len(undo[t]) + 1].version_number = transaction_id[t]
      /\ undo'[t][Len(undo[t]) + 1].tuple_data = data
  <2>1. undo[t] \in Seq(UndoEntry)
    BY <1>1, Zenon
  <2>2. undo'[t] = Append(undo[t], [type |-> type, row |-> r, tuple_data |-> data,
                                    version_number |-> transaction_id[t]])
    BY <1>1, Zenon DEF Push
  <2>3. undo'[t][Len(undo[t]) + 1] = [type |-> type, row |-> r, tuple_data |-> data,
                                      version_number |-> transaction_id[t]]
    BY <2>1, <2>2
  <2> QED BY <2>3
<1>5. \A i \in 1..n : undo'[c[i][1]][c[i][2]] = undo[c[i][1]][c[i][2]]
  <2> TAKE i \in 1..n
  <2>1. c[i][1] \in Txn
    BY <1>n
  <2>2. c[i][2] \in 1..Len(undo[c[i][1]])
    BY <1>c, <1>n, Zenon DEF Pointers, LeadsTo, Positions
  <2> QED BY <2>1, <2>2, PushKeepsEntries, Zenon
<1>6. Pushed(r, t, data, n)
  BY <1>c, <1>n, <1>p, <1>3, <1>4, <1>5, Zenon DEF Pushed
<1> QED BY <1>6, Zenon

\* No running transaction but t has versions of r.
OnlyWriter(r, t) ==
  \A i \in Positions(r) : Writer(r, i) \in active_transactions => Writer(r, i) = t

\* What t read of r goes into the new version, what t writes into the table.
WritesOver(r, t, data) ==
  /\ FromStorage(data) = FromStorage(State(r, 0))
  /\ FromStorage(State(r, 0)') = mine'[t][r]
  /\ mine'[t][r] # NoWrite
  /\ \A u \in Txn : u # t => mine'[u][r] = mine[u][r]

\* Positions of the chain with a version in front.
LEMMA PushPositions ==
  ASSUME NEW n \in Nat
  PROVE  /\ n + 1 \in 1..(n + 1) /\ (n + 1) - 1 = n
         /\ \A i \in 1..(n + 1) :
              /\ i = 1 \/ (i # 1 /\ i \in 2..(n + 1) /\ i - 1 \in 1..n /\ i - 1 \in 1..(n + 1)
                           /\ i - 1 # 0)
              /\ \A j \in 1..(n + 1) : i < j => j # 1 /\ (i # 1 => i - 1 < j - 1)
OBVIOUS

\* The writers and numbers after the push.
LEMMA PushNumbers ==
  ASSUME Manager, MvccTypeOK, Pointers, NEW r \in Row \ raced, Ordered(r), NEW t \in active_transactions,
         NEW data, NEW n, Pushed(r, t, data, n), UNCHANGED tmVars, OnlyWriter(r, t)
  PROVE  /\ n \in Nat /\ Positions(r)' = 1..(n + 1) /\ Positions(r) = 1..n
         /\ Writer(r, 1)' = t /\ Number(r, 1)' = transaction_id[t]
         /\ \A i \in 2..(n + 1) :
              Writer(r, i)' = Writer(r, i - 1) /\ Number(r, i)' = Number(r, i - 1)
         /\ \A i \in 1..n :
              /\ Writer(r, i) \in Txn
              /\ \/ Writer(r, i) = t /\ Number(r, i) = transaction_id[t]
                 \/ /\ Writer(r, i) # t /\ Writer(r, i) \notin active_transactions
                    /\ Number(r, i) < transaction_id[t]
<1>1. /\ n \in Nat /\ n = Len(version_pointers[r]) /\ Len(version_pointers'[r]) = n + 1
      /\ version_pointers'[r][1] = <<t, Len(undo[t]) + 1>>
      /\ \A i \in 2..(n + 1) : version_pointers'[r][i] = version_pointers[r][i - 1]
  BY Zenon DEF Pushed
<1>2. /\ active_transactions' = active_transactions
      /\ transaction_id' = transaction_id /\ commit_id' = commit_id
  BY Zenon DEF tmVars, lists, fields
<1>3. Positions(r)' = 1..(n + 1) /\ Positions(r) = 1..n
  BY <1>1, Zenon DEF Positions
<1>4. Writer(r, 1)' = t /\ \A i \in 2..(n + 1) : Writer(r, i)' = Writer(r, i - 1)
  BY <1>1 DEF Writer
<1>5. Number(r, 1)' = transaction_id[t] /\ \A i \in 2..(n + 1) : Number(r, i)' = Number(r, i - 1)
  BY <1>2, <1>4, Zenon DEF Number
<1>6. ASSUME NEW i \in 1..n
      PROVE  /\ Writer(r, i) \in Txn
             /\ \/ Writer(r, i) = t /\ Number(r, i) = transaction_id[t]
                \/ /\ Writer(r, i) # t /\ Writer(r, i) \notin active_transactions
                   /\ Number(r, i) < transaction_id[t]
  <2>1. Writer(r, i) \in InUse
    BY <1>3, Zenon DEF Pointers, LeadsTo, Writer
  <2>2. Writer(r, i) \in Txn
    BY <2>1, ListsType, Zenon DEF Manager
  <2>3. commit_id[Writer(r, i)] \in Nat /\ transaction_id[t] \in Nat /\ TRANSACTION_ID_START \in Nat
    BY <2>2, ConstantsAssumption, Zenon DEF Manager, TMTypeOK
  <2>4. TRANSACTION_ID_START <= transaction_id[t]
    BY Zenon DEF Manager, Stamps
  <2>5. CASE Writer(r, i) \in active_transactions
    BY <2>2, <2>5, <1>3, Zenon DEF OnlyWriter, Number
  <2>6. CASE Writer(r, i) \notin active_transactions
    <3>1. Number(r, i) = commit_id[Writer(r, i)] /\ commit_id[Writer(r, i)] < TRANSACTION_ID_START
      BY <2>6, <1>3, Zenon DEF Number, Ordered
    <3>2. commit_id[Writer(r, i)] < transaction_id[t]
      BY <3>1, <2>3, <2>4
    <3> QED BY <3>1, <3>2, <2>2, <2>6, Zenon
  <2> QED BY <2>5, <2>6, Zenon
<1> QED BY <1>1, <1>3, <1>4, <1>5, <1>6, Zenon

\* Nobody retires in a push.
LEMMA PushRetires ==
  ASSUME Manager, NEW r, NEW t \in active_transactions, NEW data, UNCHANGED tmVars,
         WritesOver(r, t, data)
  PROVE  /\ Retired(r)' = Retired(r) /\ commit_id' = commit_id
         /\ \A u \in Retired(r) : mine'[u][r] = mine[u][r]
<1>1. CleanedUp' = CleanedUp /\ commit_id' = commit_id
  BY Zenon DEF tmVars, lists, fields, CleanedUp
<1>2. t \notin CleanedUp
  BY Zenon DEF Manager, OwnedOnce, CleanedUp
<1>3. CleanedUp \subseteq Txn
  BY ListsType, Zenon DEF Manager
<1>4. \A u \in CleanedUp : mine'[u][r] = mine[u][r]
  BY <1>2, <1>3, Zenon DEF WritesOver
<1> QED BY <1>1, <1>4, Zenon DEF Retired

\* The order of a row whose only running writer pushes a version.
LEMMA PushOrdered ==
  ASSUME Manager, MvccTypeOK, Pointers, NEW r \in Row \ raced, Ordered(r), NEW t \in active_transactions,
         NEW data, NEW n, Pushed(r, t, data, n), UNCHANGED tmVars, OnlyWriter(r, t),
         WritesOver(r, t, data)
  PROVE  Ordered(r)'
<1>1. /\ n \in Nat /\ Positions(r)' = 1..(n + 1) /\ Positions(r) = 1..n
      /\ Writer(r, 1)' = t /\ Number(r, 1)' = transaction_id[t]
      /\ \A i \in 2..(n + 1) : Writer(r, i)' = Writer(r, i - 1) /\ Number(r, i)' = Number(r, i - 1)
  BY PushNumbers, Zenon
<1>2. \A i \in 1..n :
        \/ Writer(r, i) = t /\ Number(r, i) = transaction_id[t]
        \/ /\ Writer(r, i) # t /\ Writer(r, i) \notin active_transactions
           /\ Number(r, i) < transaction_id[t]
  BY PushNumbers, Zenon
<1>3. active_transactions' = active_transactions
  BY Zenon DEF tmVars, lists
<1>4. Retired(r)' = Retired(r) /\ commit_id' = commit_id
  BY PushRetires, Zenon
<1>p. \A i \in 1..(n + 1) :
        /\ i = 1 \/ (i # 1 /\ i \in 2..(n + 1) /\ i - 1 \in 1..n)
        /\ \A j \in 1..(n + 1) : i < j => j # 1 /\ (i # 1 => i - 1 < j - 1)
  BY <1>1, PushPositions, Zenon
<1>5. \A i \in 1..(n + 1) : VersionNumber(version_pointers[r][i])' = Number(r, i)'
  <2> TAKE i \in 1..(n + 1)
  <2>1. CASE i = 1
    BY <2>1, <1>1 DEF VersionNumber, Entry, Pushed
  <2>2. CASE i # 1
    <3>1. i \in 2..(n + 1) /\ i - 1 \in 1..n
      BY <2>2, <1>p, Zenon
    <3>2. VersionNumber(version_pointers[r][i])' = VersionNumber(version_pointers[r][i - 1])
      <4>1. version_pointers'[r][i] = version_pointers[r][i - 1]
        BY <3>1, Zenon DEF Pushed
      <4>2. undo'[version_pointers[r][i - 1][1]][version_pointers[r][i - 1][2]] =
              undo[version_pointers[r][i - 1][1]][version_pointers[r][i - 1][2]]
        BY <3>1, Zenon DEF Pushed
      <4> QED BY <4>1, <4>2, Zenon DEF VersionNumber, Entry
    <3>3. VersionNumber(version_pointers[r][i - 1]) = Number(r, i - 1)
      BY <3>1, <1>1, Zenon DEF Ordered
    <3> QED BY <3>1, <3>2, <3>3, <1>1, Zenon
  <2> QED BY <2>1, <2>2, Zenon
<1>6. ASSUME NEW i \in 1..(n + 1), Writer(r, i)' \notin active_transactions
      PROVE  /\ commit_id[Writer(r, i)'] < TRANSACTION_ID_START
             /\ \A w \in Retired(r) : commit_id[w] < commit_id[Writer(r, i)']
  <2>1. i \in 2..(n + 1) /\ i - 1 \in 1..n
    BY <1>1, <1>6, <1>p, Zenon
  <2>2. Writer(r, i)' = Writer(r, i - 1)
    BY <2>1, <1>1, Zenon
  <2>3. Writer(r, i - 1) \notin active_transactions
    BY <2>2, <1>6, Zenon
  <2>4. /\ commit_id[Writer(r, i - 1)] < TRANSACTION_ID_START
        /\ \A w \in Retired(r) : commit_id[w] < commit_id[Writer(r, i - 1)]
    BY <2>1, <2>3, <1>1, Zenon DEF Ordered
  <2> QED BY <2>2, <2>4, Zenon
<1>7. ASSUME NEW i \in 1..(n + 1), Writer(r, i)' \in active_transactions PROVE Writer(r, i)' = t
  BY <1>1, <1>2, <1>7, <1>p, Zenon
<1>8. ASSUME NEW i \in 1..(n + 1), NEW j \in 1..(n + 1), i < j
      PROVE  \/ Number(r, i)' > Number(r, j)'
             \/ /\ Writer(r, i)' = Writer(r, j)'
                /\ version_pointers'[r][i][2] > version_pointers'[r][j][2]
  <2>1. j \in 2..(n + 1) /\ j - 1 \in 1..n
    BY <1>8, <1>p, Zenon
  <2>2. Writer(r, j)' = Writer(r, j - 1) /\ Number(r, j)' = Number(r, j - 1)
    BY <2>1, <1>1, Zenon
  <2>3. CASE i = 1 /\ Writer(r, j - 1) = t
    <3>1. version_pointers'[r][j] = version_pointers[r][j - 1]
      BY <2>1, Zenon DEF Pushed
    <3>2. version_pointers'[r][i][2] = Len(undo[t]) + 1
      BY <2>3 DEF Pushed
    <3>3. version_pointers[r][j - 1][2] \in 1..Len(undo[t])
      BY <2>1, <2>3, <1>1 DEF Pointers, LeadsTo, Writer
    <3>4. Len(undo[t]) \in Nat
      <4>1. t \in Txn /\ undo \in [Txn -> Seq(UndoEntry)]
        BY Zenon DEF Manager, TMTypeOK, MvccTypeOK
      <4> QED BY <4>1
    <3>5. version_pointers'[r][i][2] > version_pointers'[r][j][2]
      BY <3>1, <3>2, <3>3, <3>4
    <3> QED BY <3>5, <2>2, <2>3, <1>1, Zenon
  <2>4. CASE i = 1 /\ Writer(r, j - 1) # t
    <3>1. Number(r, j - 1) < transaction_id[t]
      BY <2>1, <2>4, <1>2, Zenon
    <3> QED BY <3>1, <2>2, <2>4, <1>1, Zenon
  <2>5. CASE i # 1
    <3>1. i \in 2..(n + 1) /\ i - 1 \in 1..n /\ i - 1 < j - 1
      BY <2>5, <1>8, <1>p, Zenon
    <3>2. Writer(r, i)' = Writer(r, i - 1) /\ Number(r, i)' = Number(r, i - 1)
      BY <3>1, <1>1, Zenon
    <3>3. \/ Number(r, i - 1) > Number(r, j - 1)
          \/ /\ Writer(r, i - 1) = Writer(r, j - 1)
             /\ version_pointers[r][i - 1][2] > version_pointers[r][j - 1][2]
      BY <3>1, <2>1, <1>1, Zenon DEF Ordered
    <3>4. /\ version_pointers'[r][j] = version_pointers[r][j - 1]
          /\ version_pointers'[r][i] = version_pointers[r][i - 1]
      BY <3>1, <2>1, Zenon DEF Pushed
    <3> QED BY <3>2, <3>3, <3>4, <2>2, Zenon
  <2> QED BY <2>3, <2>4, <2>5, Zenon
<1>9. \A i, j \in 1..(n + 1) :
        Writer(r, i)' \in active_transactions /\ Writer(r, j)' \in active_transactions =>
          Writer(r, i)' = Writer(r, j)'
  BY <1>7, Zenon
<1> QED BY <1>1, <1>3, <1>4, <1>5, <1>6, <1>8, <1>9 DEF Ordered

\* The record of a row whose only running writer pushes a version.
LEMMA PushRecorded ==
  ASSUME Manager, MvccTypeOK, Pointers, NEW r \in Row \ raced, Ordered(r), Recorded(r),
         NEW t \in active_transactions, NEW data, NEW n, Pushed(r, t, data, n),
         UNCHANGED tmVars, OnlyWriter(r, t), WritesOver(r, t, data)
  PROVE  Recorded(r)'
<1>1. /\ n \in Nat /\ Positions(r)' = 1..(n + 1) /\ Positions(r) = 1..n
      /\ Writer(r, 1)' = t
      /\ \A i \in 2..(n + 1) : Writer(r, i)' = Writer(r, i - 1)
  BY PushNumbers, Zenon
<1>2. \A i \in 1..n :
        /\ Writer(r, i) \in Txn
        /\ \/ Writer(r, i) = t /\ Number(r, i) = transaction_id[t]
           \/ Writer(r, i) # t /\ Number(r, i) < transaction_id[t]
  BY PushNumbers, Zenon
<1>3. /\ Retired(r)' = Retired(r) /\ commit_id' = commit_id
      /\ \A u \in Retired(r) : mine'[u][r] = mine[u][r]
  BY PushRetires, Zenon
<1>p. /\ n + 1 \in 1..(n + 1) /\ (n + 1) - 1 = n
      /\ \A i \in 1..(n + 1) :
           i = 1 \/ (i # 1 /\ i \in 2..(n + 1) /\ i - 1 \in 1..n /\ i - 1 \in 1..(n + 1) /\ i - 1 # 0)
  BY <1>1, PushPositions, Zenon
<1>4. ASSUME NEW i \in 1..(n + 1)
      PROVE  FromStorage(State(r, i)') = FromStorage(State(r, i - 1))
  <2>1. CASE i = 1
    <3>1. State(r, i)' = data
      BY <2>1 DEF State, Entry, Pushed
    <3>2. State(r, i - 1) = State(r, 0)
      BY <2>1
    <3> QED BY <3>1, <3>2, Zenon DEF WritesOver
  <2>2. CASE i # 1
    <3>1. i \in 2..(n + 1) /\ i - 1 \in 1..n /\ i - 1 # 0 /\ i # 0
      BY <2>2, <1>p
    <3>2. version_pointers'[r][i] = version_pointers[r][i - 1]
      BY <3>1, Zenon DEF Pushed
    <3>3. undo'[version_pointers[r][i - 1][1]][version_pointers[r][i - 1][2]] =
            undo[version_pointers[r][i - 1][1]][version_pointers[r][i - 1][2]]
      BY <3>1, Zenon DEF Pushed
    <3>4. State(r, i)' = State(r, i - 1)
      BY <3>1, <3>2, <3>3, Zenon DEF State, Entry
    <3> QED BY <3>4, Zenon
  <2> QED BY <2>1, <2>2, Zenon
<1>5. ASSUME NEW i \in 1..(n + 1), Newest(r, i)'
      PROVE  FromStorage(State(r, i - 1)') = mine'[Writer(r, i)'][r]
  <2>1. CASE i = 1
    <3>1. State(r, i - 1)' = State(r, 0)'
      BY <2>1
    <3> QED BY <3>1, <2>1, <1>1, Zenon DEF WritesOver
  <2>2. CASE i # 1
    <3>1. i \in 2..(n + 1) /\ i - 1 \in 1..n /\ i - 1 \in 1..(n + 1)
      BY <2>2, <1>p, Zenon
    <3>2. Writer(r, i)' = Writer(r, i - 1) /\ Writer(r, i - 1)' # Writer(r, i)'
      BY <3>1, <2>2, <1>5, <1>1, Zenon DEF Newest
    <3>3. Newest(r, i - 1) /\ Writer(r, i - 1) # t
      <4>1. CASE i - 1 = 1
        BY <4>1, <3>2, <1>1, Zenon DEF Newest
      <4>2. CASE i - 1 # 1
        <5>1. i - 1 \in 2..(n + 1) /\ (i - 1) - 1 \in 1..n /\ (i - 1) - 1 < i - 1
          BY <4>2, <3>1, <1>1
        <5>2. Writer(r, i - 1)' = Writer(r, (i - 1) - 1)
          BY <5>1, <1>1, Zenon
        <5>3. Writer(r, (i - 1) - 1) # Writer(r, i - 1)
          BY <5>2, <3>2, Zenon
        <5>4. Number(r, (i - 1) - 1) > Number(r, i - 1)
          BY <5>1, <5>3, <3>1, <1>1, Zenon DEF Ordered
        <5>5. Writer(r, i - 1) # t
          <6> SUFFICES ASSUME Writer(r, i - 1) = t PROVE FALSE
            BY Zenon
          <6>1. Number(r, i - 1) = transaction_id[t]
            BY <3>1, <1>2, Zenon
          <6>2. Number(r, (i - 1) - 1) < transaction_id[t]
            BY <5>1, <5>3, <1>2, Zenon
          <6>3. Number(r, (i - 1) - 1) \in Nat /\ transaction_id[t] \in Nat
            <7>1. Writer(r, (i - 1) - 1) \in Txn /\ t \in Txn
              BY <5>1, <1>2, Zenon DEF Manager, TMTypeOK
            <7>2. transaction_id \in [Txn -> Nat] /\ commit_id \in [Txn -> Nat]
              BY Zenon DEF Manager, TMTypeOK
            <7> QED BY <7>1, <7>2, Zenon DEF Number
          <6> QED BY <6>1, <6>2, <6>3, <5>4
        <5> QED BY <5>3, <5>5, Zenon DEF Newest
      <4> QED BY <4>1, <4>2, Zenon
    <3>4. FromStorage(State(r, (i - 1) - 1)) = mine[Writer(r, i - 1)][r]
      BY <3>1, <3>3, <1>1, Zenon DEF Recorded
    <3>5. Writer(r, i - 1) \in Txn
      BY <3>1, <1>2, Zenon
    <3>6. FromStorage(State(r, i - 1)') = FromStorage(State(r, (i - 1) - 1))
      BY <3>1, <1>4, Zenon
    <3>7. mine'[Writer(r, i - 1)][r] = mine[Writer(r, i - 1)][r]
      BY <3>3, <3>5, Zenon DEF WritesOver
    <3> QED BY <3>2, <3>4, <3>6, <3>7, Zenon
  <2> QED BY <2>1, <2>2, Zenon
<1>6. FromStorage(State(r, n + 1)') = FromStorage(State(r, n))
  BY <1>4, <1>p, Zenon
<1>7. Len(version_pointers'[r]) = n + 1 /\ Len(version_pointers[r]) = n
  BY Zenon DEF Pushed
<1>8. LET last == FromStorage(State(r, n + 1)')
      IN  \/ Retired(r)' = {} /\ last = Absent
          \/ \E u \in Retired(r)' :
               last = mine'[u][r] /\ \A w \in Retired(r)' : commit_id'[w] <= commit_id'[u]
  <2>1. LET last == FromStorage(State(r, n))
        IN  \/ Retired(r) = {} /\ last = Absent
            \/ \E u \in Retired(r) :
                 last = mine[u][r] /\ \A w \in Retired(r) : commit_id[w] <= commit_id[u]
    BY <1>7, Zenon DEF Recorded
  <2> QED BY <2>1, <1>3, <1>6, Zenon
<1> QED BY <1>1, <1>5, <1>7, <1>8, Zenon DEF Recorded

-----------------------------------------------------------------------------
(* The entries of running transactions.                                     *)

\* Who runs has run before, or is new, and keeps the tuples in its undo buffer.
RunnersStay ==
  /\ Started \subseteq Started' /\ active_transactions' \cap Started \subseteq active_transactions
  /\ \A u \in active_transactions \cap active_transactions' : \A k \in 1..Len(undo[u]) :
       k \in 1..Len(undo'[u]) /\ undo'[u][k].tuple_data = undo[u][k].tuple_data

\* The chain of r at most loses versions.
MayShrink(r) == \E keep : Thinned(version_pointers[r], version_pointers'[r], keep)

\* A chain that stays as it is.
LEMMA SameShrinks ==
  ASSUME NEW r \in Row, version_pointers[r] \in Seq(Txn \X Nat),
         version_pointers'[r] = version_pointers[r]
  PROVE  MayShrink(r)
<1>1. PICK c \in Seq(Txn \X Nat) : c = version_pointers[r]
  BY Zenon
<1>2. Thinned(c, c, 1..Len(c))
  <2> DEFINE f == [k \in 1..Len(c) |-> k]
  <2>1. f \in [1..Len(c) -> 1..Len(c)] /\ \A k \in 1..Len(c) : f[k] = k
    BY Zenon
  <2> HIDE DEF f
  <2> QED BY <2>1, Zenon DEF Thinned
<1> QED BY <1>1, <1>2, Zenon DEF MayShrink

\* Then pointers of running transactions lead to their entries as before.
LEMMA OwnStays ==
  ASSUME MvccTypeOK, OwnEntries, RunnersStay, \A r \in Row : MayShrink(r)
  PROVE  OwnEntries'
<1> SUFFICES ASSUME NEW r \in Row, NEW i \in Positions(r)'
             PROVE  /\ Writer(r, i)' \in Started'
                    /\ Writer(r, i)' \in active_transactions' => OwnEntry(r, i)'
  BY Zenon DEF OwnEntries
<1>c. PICK c \in Seq(Txn \X Nat), d \in Seq(Txn \X Nat) :
        c = version_pointers[r] /\ d = version_pointers'[r]
  BY Zenon DEF MvccTypeOK, MayShrink, Thinned
<1>n. PICK n \in Nat, m \in Nat : n = Len(c) /\ m = Len(d)
  BY <1>c
<1>f. PICK f \in [1..m -> 1..n] :
        /\ \A k \in 1..m : d[k] = c[f[k]]
        /\ \A k, l \in 1..m : k < l => f[k] < f[l]
  <2>1. PICK keep : Thinned(c, d, keep)
    BY <1>c, Zenon DEF MayShrink
  <2> QED BY <2>1, <1>n, Zenon DEF Thinned
<1>1. i \in 1..m /\ f[i] \in 1..n /\ f[i] \in Positions(r)
  BY <1>c, <1>n, Zenon DEF Positions
<1>2. PICK p \in Txn \X Nat : p = c[f[i]]
  BY <1>1, <1>n
<1>3. p = version_pointers'[r][i] /\ p = version_pointers[r][f[i]]
  BY <1>c, <1>1, <1>2, <1>f, Zenon
<1>4. /\ p[1] \in Started
      /\ p[1] \in active_transactions =>
           p[2] \in 1..Len(undo[p[1]]) /\ (undo[p[1]][p[2]].tuple_data = Absent => f[i] = n)
  BY <1>c, <1>n, <1>1, <1>3, Zenon DEF OwnEntries, OwnEntry, Writer, Entry
<1>5. f[i] = n => i = m
  <2>1. m \in 1..m /\ (i = m \/ i < m)
    BY <1>1
  <2>2. i < m => f[i] < f[m] /\ f[m] \in 1..n
    BY <2>1, <1>1, <1>f, Zenon
  <2> QED BY <2>1, <2>2, <1>1
<1>6. p[1] \in Started'
  BY <1>4, Zenon DEF RunnersStay
<1>7. ASSUME p[1] \in active_transactions'
      PROVE  p[2] \in 1..Len(undo'[p[1]]) /\ (undo'[p[1]][p[2]].tuple_data = Absent => i = m)
  <2>1. p[1] \in active_transactions
    BY <1>4, <1>7, Zenon DEF RunnersStay
  <2>2. /\ p[2] \in 1..Len(undo'[p[1]])
        /\ undo'[p[1]][p[2]].tuple_data = undo[p[1]][p[2]].tuple_data
    BY <2>1, <1>4, <1>7, Zenon DEF RunnersStay
  <2> QED BY <2>1, <2>2, <1>4, <1>5, Zenon
<1> QED BY <1>c, <1>n, <1>3, <1>6, <1>7, Zenon DEF OwnEntry, Writer, Entry

-----------------------------------------------------------------------------
(* A statement writes a row.                                                *)

\* A running transaction t pushes an entry for id and writes v; an entry without a
\* tuple is the first of its row.
Writing(t, id, data, v) ==
  /\ t \in active_transactions /\ UNCHANGED tmVars
  /\ \E type \in {"INSERT_TUPLE", "DELETE_TUPLE", "UPDATE_TUPLE"} : Push(t, type, id, data)
  /\ data \in Stored \cup {Absent} /\ (data = Absent => version_pointers[id] = <<>>)
  /\ mine' = [mine EXCEPT ![t][id] = v] /\ v \in Val \cup {Absent}

\* What the write leaves alone.
Wrote(t, id, v) ==
  /\ t \in Txn /\ t \in active_transactions /\ v # NoWrite
  /\ InUse' = InUse /\ CleanedUp' = CleanedUp /\ Started' = Started
  /\ active_transactions' = active_transactions
  /\ recently_committed_transactions' = recently_committed_transactions
  /\ transaction_id' = transaction_id /\ commit_id' = commit_id
  /\ mine'[t][id] = v
  /\ \A u \in Txn, r \in Row : u # t \/ r # id => mine'[u][r] = mine[u][r]
  /\ \A r \in Row : r # id => version_pointers'[r] = version_pointers[r]
  /\ raced \subseteq raced'

\* It does.
LEMMA WriteFacts ==
  ASSUME TMTypeOK, MvccTypeOK, NEW t, NEW id \in Row, NEW data, NEW v, Writing(t, id, data, v)
  PROVE  Wrote(t, id, v)
<1>1. /\ version_pointers \in [Row -> Seq(Txn \X Nat)]
      /\ mine \in [Txn -> [Row -> Val \cup {Absent, NoWrite}]]
  BY Zenon DEF MvccTypeOK
<1>2. t \in Txn /\ t \in active_transactions /\ v # NoWrite
  BY MvccAssumption, Zenon DEF Writing, TMTypeOK
<1>3. /\ active_transactions' = active_transactions
      /\ recently_committed_transactions' = recently_committed_transactions
      /\ transaction_id' = transaction_id /\ commit_id' = commit_id
      /\ InUse' = InUse /\ CleanedUp' = CleanedUp /\ Started' = Started
  BY Zenon DEF Writing, tmVars, lists, fields, InUse, CleanedUp, Started
<1>4. /\ mine'[t][id] = v
      /\ \A u \in Txn, r \in Row : u # t \/ r # id => mine'[u][r] = mine[u][r]
  BY <1>1, <1>2, Zenon DEF Writing
<1>5. \A r \in Row : r # id => version_pointers'[r] = version_pointers[r]
  BY <1>1, Zenon DEF Writing, Push
<1>6. raced \subseteq raced'
  BY <1>2, PushOverlap, Zenon DEF Writing
<1> QED BY <1>2, <1>3, <1>4, <1>5, <1>6, Zenon DEF Wrote

\* The types after the write.
LEMMA WriteTypes ==
  ASSUME TMTypeOK, MvccTypeOK, NEW t, NEW id \in Row, NEW data, NEW v, Writing(t, id, data, v)
  PROVE  /\ undo' \in [Txn -> Seq(UndoEntry)] /\ version_pointers' \in [Row -> Seq(Txn \X Nat)]
         /\ mine' \in [Txn -> [Row -> Val \cup {Absent, NoWrite}]]
         /\ Len(undo[t]) \in Nat /\ Len(undo'[t]) = Len(undo[t]) + 1
         /\ undo'[t][Len(undo[t]) + 1].row = id
         /\ pushing' \subseteq Txn \X Row /\ undoing' \subseteq Row /\ raced' \subseteq Row
<1>1. /\ undo \in [Txn -> Seq(UndoEntry)] /\ version_pointers \in [Row -> Seq(Txn \X Nat)]
      /\ mine \in [Txn -> [Row -> Val \cup {Absent, NoWrite}]]
  BY Zenon DEF MvccTypeOK
<1>2. t \in Txn /\ transaction_id[t] \in Nat
  BY Zenon DEF Writing, TMTypeOK
<1>3. PICK type \in {"INSERT_TUPLE", "DELETE_TUPLE", "UPDATE_TUPLE"} : Push(t, type, id, data)
  BY Zenon DEF Writing
<1>4. PICK e : e = [type |-> type, row |-> id, tuple_data |-> data,
                    version_number |-> transaction_id[t]]
  BY Zenon
<1>5. e \in UndoEntry /\ e.row = id
  BY <1>2, <1>4, Zenon DEF Writing, UndoEntry
<1>6. undo' = [undo EXCEPT ![t] = Append(undo[t], e)]
  BY <1>3, <1>4, Zenon DEF Push
<1>7. PICK s \in Seq(UndoEntry) : s = undo[t]
  BY <1>1, <1>2, Zenon
<1>8. /\ Append(s, e) \in Seq(UndoEntry) /\ Len(s) \in Nat
      /\ Len(Append(s, e)) = Len(s) + 1 /\ Append(s, e)[Len(s) + 1] = e
  BY <1>5
<1>9. undo'[t] = Append(s, e) /\ undo' \in [Txn -> Seq(UndoEntry)]
  BY <1>1, <1>2, <1>6, <1>7, <1>8, Zenon
<1>10. <<t, Len(s) + 1>> \in Txn \X Nat
  BY <1>2, <1>8
<1>11. <<<<t, Len(s) + 1>>>> \o version_pointers[id] \in Seq(Txn \X Nat)
  BY <1>1, <1>10, ConsFacts, Zenon
<1>12. version_pointers' = [version_pointers EXCEPT ![id] =
                             <<<<t, Len(s) + 1>>>> \o version_pointers[id]]
  BY <1>3, <1>7, Zenon DEF Push
<1>13. mine' \in [Txn -> [Row -> Val \cup {Absent, NoWrite}]]
  BY <1>1, <1>2, Zenon DEF Writing
<1>14. pushing' \subseteq Txn \X Row /\ undoing' \subseteq Row /\ raced' \subseteq Row
  BY <1>2, <1>3, PushOverlap, Zenon
<1> QED BY <1>1, <1>5, <1>7, <1>8, <1>9, <1>11, <1>12, <1>13, <1>14, Zenon

\* Pointers lead where they led.
LEMMA WriteLeads ==
  ASSUME TMTypeOK, MvccTypeOK, NEW t, NEW id \in Row, NEW data, NEW v, Writing(t, id, data, v),
         NEW r \in Row, NEW p \in Txn \X Nat, LeadsTo(p, r)
  PROVE  LeadsTo(p, r)' /\ undo'[p[1]][p[2]] = undo[p[1]][p[2]]
<1>1. PICK u \in Txn, k \in Nat : p = <<u, k>>
  OBVIOUS
<1>2. u \in InUse /\ k \in 1..Len(undo[u]) /\ undo[u][k].row = r /\ mine[u][r] # NoWrite
  BY <1>1, Zenon DEF LeadsTo, Entry
<1>3. t \in Txn /\ undo \in [Txn -> Seq(UndoEntry)] /\ undo' \in [Txn -> Seq(UndoEntry)]
  <2>1. Wrote(t, id, v) /\ undo' \in [Txn -> Seq(UndoEntry)]
    BY WriteFacts, WriteTypes, Zenon
  <2> QED BY <2>1, Zenon DEF Wrote, MvccTypeOK
<1>4. PICK type : Push(t, type, id, data)
  BY Zenon DEF Writing
<1>5. undo'[u][k] = undo[u][k]
  BY <1>2, <1>3, <1>4, PushKeepsEntries, Zenon
<1>6. Len(undo'[u]) = Len(undo[u]) \/ (u = t /\ Len(undo'[u]) = Len(undo[u]) + 1)
  <2>1. u # t => undo'[u] = undo[u]
    BY <1>3, <1>4, Zenon DEF Push
  <2>2. Len(undo'[t]) = Len(undo[t]) + 1
    BY WriteTypes, Zenon
  <2> QED BY <2>1, <2>2, Zenon
<1>7. k \in 1..Len(undo'[u])
  <2>1. Len(undo[u]) \in Nat
    BY <1>3
  <2> QED BY <2>1, <1>2, <1>6
<1>8. u \in InUse' /\ mine'[u][r] # NoWrite
  <2>1. Wrote(t, id, v)
    BY WriteFacts, Zenon
  <2>2. v # NoWrite /\ (u # t \/ r # id => mine'[u][r] = mine[u][r])
    BY <2>1, Zenon DEF Wrote
  <2> QED BY <2>1, <2>2, <1>2, Zenon DEF Wrote
<1> QED BY <1>1, <1>2, <1>5, <1>7, <1>8, Zenon DEF LeadsTo, Entry

\* All pointers lead to entries after the write.
LEMMA WritePointers ==
  ASSUME TMTypeOK, MvccTypeOK, Pointers, NEW t, NEW id \in Row, NEW data, NEW v,
         Writing(t, id, data, v)
  PROVE  Pointers'
<1>1. Wrote(t, id, v) /\ Len(undo[t]) \in Nat
  BY WriteFacts, WriteTypes, Zenon
<1>2. t \in Txn /\ version_pointers \in [Row -> Seq(Txn \X Nat)]
  BY <1>1, Zenon DEF Wrote, MvccTypeOK
<1>3. id \notin raced => \E n \in Nat : Pushed(id, t, data, n)
  <2>1. PICK type : Push(t, type, id, data)
    BY Zenon DEF Writing
  <2> QED BY <2>1, <1>2, PushShape, Zenon
<1>4. ASSUME NEW r \in Row \ raced, NEW i \in Positions(r), NEW p \in Txn \X Nat, p = version_pointers[r][i]
      PROVE  /\ LeadsTo(p, r)'
             /\ undo'[p[1]][p[2]].tuple_data = Absent => i = Len(version_pointers[r])
  <2>1. LeadsTo(p, r) /\ (undo[p[1]][p[2]].tuple_data = Absent => i = Len(version_pointers[r]))
    BY <1>4, Zenon DEF Pointers, Entry
  <2>2. LeadsTo(p, r)' /\ undo'[p[1]][p[2]] = undo[p[1]][p[2]]
    BY <2>1, WriteLeads, Zenon
  <2> QED BY <2>1, <2>2, Zenon
<1>5. ASSUME NEW r \in Row \ raced', NEW i \in Positions(r)'
      PROVE  /\ LeadsTo(version_pointers[r][i], r)'
             /\ Entry(version_pointers[r][i])'.tuple_data = Absent => i = Len(version_pointers'[r])
  <2>0. r \in Row \ raced /\ (r = id => \E n \in Nat : Pushed(id, t, data, n))
    BY <1>1, <1>3, Zenon DEF Wrote
  <2>1. CASE r # id
    <3>1. version_pointers'[r] = version_pointers[r] /\ i \in Positions(r)
      BY <2>0, <2>1, <1>1, Zenon DEF Wrote, Positions
    <3>2. PICK p \in Txn \X Nat : p = version_pointers[r][i]
      BY <3>1, <1>2 DEF Positions
    <3>3. LeadsTo(p, r)' /\ (undo'[p[1]][p[2]].tuple_data = Absent => i = Len(version_pointers[r]))
      BY <2>0, <3>1, <3>2, <1>4, Zenon
    <3>4. version_pointers'[r][i] = p
      BY <3>1, <3>2, Zenon
    <3> QED BY <3>1, <3>3, <3>4, Zenon DEF Entry, LeadsTo
  <2>2. CASE r = id /\ i = 1
    <3>0. PICK n \in Nat : Pushed(id, t, data, n)
      BY <2>0, <2>2, Zenon
    <3>1. PICK p \in Txn \X Nat : p = <<t, Len(undo[t]) + 1>>
      <4>1. Len(undo[t]) + 1 \in Nat
        BY <1>1
      <4> QED BY <4>1, <1>2, Zenon
    <3>2. version_pointers'[r][i] = p /\ undo'[p[1]][p[2]].tuple_data = data
      BY <2>2, <3>0, <3>1, Zenon DEF Pushed
    <3>3. data = Absent => Len(version_pointers'[r]) = 1
      BY <2>2, <3>0 DEF Pushed, Writing
    <3>4. LeadsTo(p, r)'
      <4>1. Len(undo'[t]) = Len(undo[t]) + 1 /\ undo'[t][Len(undo[t]) + 1].row = id
        BY WriteTypes, Zenon
      <4>2. t \in InUse' /\ mine'[t][id] # NoWrite
        BY <1>1, Zenon DEF Wrote, InUse
      <4> QED BY <4>1, <4>2, <3>1, <2>2, <1>1 DEF LeadsTo, Entry
    <3> QED BY <3>2, <3>3, <3>4, <2>2, Zenon DEF Entry, LeadsTo
  <2>3. CASE r = id /\ i # 1
    <3>0. PICK n \in Nat : Pushed(id, t, data, n)
      BY <2>0, <2>3, Zenon
    <3>1. /\ i \in 2..(n + 1) /\ i - 1 \in 1..n /\ i - 1 \in Positions(r)
          /\ (i - 1 = n => i = n + 1) /\ Len(version_pointers'[r]) = n + 1
          /\ n = Len(version_pointers[r])
      BY <2>3, <3>0 DEF Pushed, Positions
    <3>2. PICK p \in Txn \X Nat : p = version_pointers[r][i - 1]
      BY <3>1, <1>2 DEF Positions
    <3>3. LeadsTo(p, r)' /\ (undo'[p[1]][p[2]].tuple_data = Absent => i = Len(version_pointers'[r]))
      BY <2>0, <3>1, <3>2, <1>4, Zenon
    <3>4. version_pointers'[r][i] = p
      BY <3>0, <3>1, <3>2, <2>3, Zenon DEF Pushed
    <3> QED BY <3>3, <3>4, Zenon DEF Entry, LeadsTo
  <2> QED BY <2>1, <2>2, <2>3, Zenon
<1> QED BY <1>5, Zenon DEF Pointers

\* So do those of running transactions, in all rows.
LEMMA WriteOwn ==
  ASSUME TMTypeOK, MvccTypeOK, OwnEntries, NEW t, NEW id \in Row, NEW data, NEW v,
         Writing(t, id, data, v)
  PROVE  OwnEntries'
<1>1. /\ Wrote(t, id, v) /\ Len(undo[t]) \in Nat /\ Len(undo'[t]) = Len(undo[t]) + 1
      /\ undo' \in [Txn -> Seq(UndoEntry)]
  BY WriteFacts, WriteTypes, Zenon
<1>2. /\ t \in Txn /\ t \in active_transactions /\ active_transactions' = active_transactions
      /\ Started' = Started /\ active_transactions \subseteq Started
      /\ \A r \in Row : r # id => version_pointers'[r] = version_pointers[r]
  BY <1>1, Zenon DEF Wrote, Started
<1>3. PICK type : Push(t, type, id, data)
  BY Zenon DEF Writing
<1>4. ASSUME NEW u \in Txn, NEW k \in 1..Len(undo[u])
      PROVE  k \in 1..Len(undo'[u]) /\ undo'[u][k] = undo[u][k]
  <2>1. undo'[u][k] = undo[u][k]
    BY <1>2, <1>3, PushKeepsEntries, Zenon
  <2>2. u # t => undo'[u] = undo[u]
    BY <1>3, Zenon DEF Push, MvccTypeOK
  <2>3. u = t => k \in 1..Len(undo'[u])
    BY <1>1, <1>4
  <2> QED BY <2>1, <2>2, <2>3, <1>4, Zenon
<1>5. ASSUME NEW r \in Row, NEW i \in Positions(r), NEW p \in Txn \X Nat, p = version_pointers[r][i]
      PROVE  /\ p[1] \in Started
             /\ p[1] \in active_transactions =>
                  /\ p[2] \in 1..Len(undo'[p[1]])
                  /\ undo'[p[1]][p[2]].tuple_data = Absent => i = Len(version_pointers[r])
  <2>1. /\ p[1] \in Started /\ p[1] \in Txn
        /\ p[1] \in active_transactions =>
             /\ p[2] \in 1..Len(undo[p[1]])
             /\ undo[p[1]][p[2]].tuple_data = Absent => i = Len(version_pointers[r])
    BY <1>5, Zenon DEF OwnEntries, OwnEntry, Writer, Entry
  <2> QED BY <2>1, <1>4, Zenon
<1>c. PICK c \in Seq(Txn \X Nat) : c = version_pointers[id]
  BY Zenon DEF MvccTypeOK
<1>n. PICK n \in Nat : n = Len(c)
  OBVIOUS
<1>p. PICK p \in Txn \X Nat : p = <<t, Len(undo[t]) + 1>>
  <2>1. Len(undo[t]) + 1 \in Nat
    BY <1>1
  <2> QED BY <2>1, <1>2, Zenon
<1>6. version_pointers'[id] = <<p>> \o c
  BY <1>3, <1>c, <1>p, Zenon DEF Push, MvccTypeOK
<1>7. /\ Len(version_pointers'[id]) = n + 1 /\ version_pointers'[id][1] = p
      /\ \A i \in 2..(n + 1) : i - 1 \in 1..n /\ version_pointers'[id][i] = c[i - 1]
  BY <1>6, <1>n, ConsFacts
<1>8. /\ p[1] = t /\ p[2] \in 1..Len(undo'[t])
      /\ undo'[p[1]][p[2]].tuple_data = Absent => Len(version_pointers'[id]) = 1
  <2>1. p[1] = t /\ p[2] = Len(undo[t]) + 1 /\ p[2] \in 1..Len(undo'[t])
    BY <1>1, <1>p
  <2>2. undo'[t][Len(undo[t]) + 1].tuple_data = data
    <3>1. PICK e : e.tuple_data = data /\ undo' = [undo EXCEPT ![t] = Append(undo[t], e)]
      BY <1>3, Zenon DEF Push
    <3>2. PICK s \in Seq(UndoEntry) : s = undo[t]
      BY <1>2, Zenon DEF MvccTypeOK
    <3>3. Append(s, e)[Len(s) + 1] = e
      OBVIOUS
    <3>4. undo'[t] = Append(s, e)
      BY <3>1, <3>2, <1>2, Zenon DEF MvccTypeOK
    <3> QED BY <3>1, <3>2, <3>3, <3>4, Zenon
  <2>3. data = Absent => n = 0
    BY <1>c, <1>n, Zenon DEF Writing
  <2> QED BY <2>1, <2>2, <2>3, <1>7
<1>9. ASSUME NEW r \in Row, NEW i \in Positions(r)'
      PROVE  /\ Writer(r, i)' \in Started'
             /\ Writer(r, i)' \in active_transactions' => OwnEntry(r, i)'
  <2>1. CASE r # id
    <3>1. version_pointers'[r] = version_pointers[r] /\ i \in Positions(r)
      BY <2>1, <1>2, Zenon DEF Positions
    <3>2. PICK q \in Txn \X Nat : q = version_pointers[r][i]
      BY <3>1 DEF MvccTypeOK, Positions
    <3>3. q = version_pointers'[r][i]
      BY <3>1, <3>2, Zenon
    <3> QED BY <3>1, <3>2, <3>3, <1>2, <1>5, Zenon DEF OwnEntry, Writer, Entry
  <2>2. CASE r = id /\ i = 1
    BY <2>2, <1>2, <1>7, <1>8, Zenon DEF OwnEntry, Writer, Entry
  <2>3. CASE r = id /\ i # 1
    <3>1. /\ i \in 2..(n + 1) /\ i - 1 \in 1..n /\ i - 1 \in Positions(id)
          /\ (i - 1 = n => i = n + 1)
      BY <2>3, <1>c, <1>n, <1>7 DEF Positions
    <3>2. PICK q \in Txn \X Nat : q = c[i - 1]
      BY <3>1, <1>n
    <3>3. q = version_pointers'[id][i] /\ q = version_pointers[id][i - 1]
      BY <3>1, <3>2, <1>c, <1>7, Zenon
    <3>4. /\ q[1] \in Started
          /\ q[1] \in active_transactions =>
               /\ q[2] \in 1..Len(undo'[q[1]])
               /\ undo'[q[1]][q[2]].tuple_data = Absent => i = n + 1
      BY <3>1, <3>3, <1>5, <1>c, <1>n, Zenon
    <3> QED BY <2>3, <3>3, <3>4, <1>2, <1>7, Zenon DEF OwnEntry, Writer, Entry
  <2> QED BY <2>1, <2>2, <2>3, Zenon
<1> QED BY <1>9, Zenon DEF OwnEntries

\* All writes are in the chains after the write.
LEMMA WriteLinked ==
  ASSUME TMTypeOK, MvccTypeOK, Pointers, WritesLinked, NEW t, NEW id \in Row, NEW data, NEW v,
         Writing(t, id, data, v)
  PROVE  WritesLinked'
<1>1. Wrote(t, id, v)
  BY WriteFacts, Zenon
<1>2. id \notin raced => \E n \in Nat : Pushed(id, t, data, n)
  <2>1. PICK type : Push(t, type, id, data)
    BY Zenon DEF Writing
  <2> QED BY <2>1, <1>1, PushShape, Zenon DEF Wrote
<1>3. ASSUME NEW n \in Nat, Pushed(id, t, data, n)
      PROVE  /\ Positions(id)' = 1..(n + 1) /\ Positions(id) = 1..n
             /\ Writer(id, 1)' = t
             /\ \A i \in 2..(n + 1) : Writer(id, i)' = Writer(id, i - 1)
  <2>1. /\ n = Len(version_pointers[id]) /\ Len(version_pointers'[id]) = n + 1
        /\ version_pointers'[id][1] = <<t, Len(undo[t]) + 1>>
        /\ \A i \in 2..(n + 1) : version_pointers'[id][i] = version_pointers[id][i - 1]
    BY <1>3, Zenon DEF Pushed
  <2>2. \A k : <<t, k>>[1] = t
    BY Zenon
  <2> QED BY <2>1, <2>2, Zenon DEF Positions, Writer
<1>4. ASSUME NEW r \in Row \ raced', NEW u \in InUse', mine'[u][r] # NoWrite
      PROVE  \E i \in Positions(r)' : Writer(r, i)' = u
  <2>1. /\ u \in InUse /\ u \in Txn /\ r \in Row \ raced
        /\ r = id => \E n \in Nat : Pushed(id, t, data, n)
    BY <1>1, <1>2, <1>4, ListsType, Zenon DEF Wrote
  <2>2. CASE r # id
    <3>1. mine[u][r] # NoWrite
      BY <2>1, <2>2, <1>1, <1>4, Zenon DEF Wrote
    <3>2. version_pointers'[r] = version_pointers[r]
      BY <2>2, <1>1, Zenon DEF Wrote
    <3> QED BY <3>1, <3>2, <2>1 DEF WritesLinked, Positions, Writer
  <2>3. CASE r = id /\ u = t
    <3>0. PICK n \in Nat : Pushed(id, t, data, n)
      BY <2>1, <2>3, Zenon
    <3>1. 1 \in 1..(n + 1)
      OBVIOUS
    <3> QED BY <3>0, <3>1, <2>3, <1>3, Zenon
  <2>4. CASE r = id /\ u # t
    <3>0. PICK n \in Nat : Pushed(id, t, data, n)
      BY <2>1, <2>4, Zenon
    <3>1. mine[u][r] # NoWrite
      BY <2>1, <2>4, <1>1, <1>4, Zenon DEF Wrote
    <3>2. PICK i \in 1..n : Writer(id, i) = u
      BY <3>0, <3>1, <2>1, <2>4, <1>3, Zenon DEF WritesLinked
    <3>3. i + 1 \in 1..(n + 1) /\ i + 1 \in 2..(n + 1) /\ (i + 1) - 1 = i
      OBVIOUS
    <3>4. Writer(id, i + 1)' = u
      BY <3>0, <3>2, <3>3, <1>3, Zenon
    <3> QED BY <3>0, <3>3, <3>4, <2>4, <1>3, Zenon
  <2> QED BY <2>2, <2>3, <2>4, Zenon
<1> QED BY <1>4, Zenon DEF WritesLinked

\* The transactions of the history keep their places.
LEMMA WriteKnown ==
  ASSUME TMTypeOK, OwnedOnce, MvccTypeOK, WritersKnown,
         ListOrder(recently_committed_transactions), CommitsDiffer,
         NEW t, NEW id \in Row, NEW data, NEW v, Writing(t, id, data, v)
  PROVE  (WritersKnown /\ ListOrder(recently_committed_transactions) /\ CommitsDiffer)'
<1>1. Wrote(t, id, v)
  BY WriteFacts, Zenon
<1>2. \A u \in Txn : u # t => (Writes(u)' <=> Writes(u))
  BY <1>1, Zenon DEF Wrote, Writes
<1>3. \A u : HasCommitted(u)' <=> HasCommitted(u)
  BY <1>1, Zenon DEF Wrote, HasCommitted
<1>4. WritersKnown'
  BY <1>1, <1>3, Zenon DEF WritersKnown, Wrote
<1>5. CommitsDiffer'
  BY <1>1, <1>2, <1>3, Zenon DEF CommitsDiffer, Wrote, HasCommitted
<1>6. ListOrder(recently_committed_transactions)'
  <2>1. PICK rc : rc = recently_committed_transactions
    BY Zenon
  <2>2. rc \in Seq(Txn) /\ t \notin Elems(rc)
    BY <2>1, <1>1, Zenon DEF TMTypeOK, OwnedOnce, Wrote
  <2>3. \A j \in 1..Len(rc) : rc[j] \in Txn /\ rc[j] # t
    BY <2>2 DEF Elems
  <2>4. \A j \in 1..Len(rc) : Writes(rc[j])' => Writes(rc[j])
    BY <2>3, <1>2, Zenon
  <2>5. rc = recently_committed_transactions' /\ commit_id' = commit_id
    BY <2>1, <1>1, Zenon DEF Wrote
  <2> QED BY <2>1, <2>4, <2>5, Zenon DEF ListOrder
<1> QED BY <1>4, <1>5, <1>6, Zenon

\* Other rows keep their order and their record.
LEMMA WriteOthers ==
  ASSUME Manager, MvccTypeOK, Pointers, NEW t, NEW id \in Row, NEW data, NEW v,
         Writing(t, id, data, v), NEW r \in Row \ raced, r # id, State(r, 0)' = State(r, 0)
  PROVE  Undisturbed(r)
<1>1. Wrote(t, id, v)
  BY WriteFacts, Zenon DEF Manager
<1>2. version_pointers \in [Row -> Seq(Txn \X Nat)]
  BY Zenon DEF MvccTypeOK
<1>3. \A u \in Txn : mine'[u][r] = mine[u][r]
  BY <1>1, Zenon DEF Wrote
<1>4. CleanedUp \subseteq Txn /\ CleanedUp' = CleanedUp /\ commit_id' = commit_id
  BY <1>1, ListsType, Zenon DEF Wrote, Manager
<1>5. Retired(r)' = Retired(r) /\ \A u \in Retired(r) : u \in Txn
  BY <1>3, <1>4, Zenon DEF Retired
<1>6. ASSUME NEW i \in Positions(r), NEW p \in Txn \X Nat, p = version_pointers[r][i]
      PROVE  /\ undo'[p[1]][p[2]] = undo[p[1]][p[2]]
             /\ mine'[p[1]][r] = mine[p[1]][r]
  <2>1. LeadsTo(p, r) /\ p[1] \in Txn
    BY <1>6, Zenon DEF Pointers
  <2>2. undo'[p[1]][p[2]] = undo[p[1]][p[2]]
    BY <2>1, WriteLeads, Zenon DEF Manager
  <2> QED BY <2>1, <2>2, <1>3, Zenon
<1>7. \A i \in Positions(r) : version_pointers[r][i] \in Txn \X Nat
  BY <1>2 DEF Positions
<1>8. /\ active_transactions' = active_transactions /\ transaction_id' = transaction_id
      /\ version_pointers'[r] = version_pointers[r]
  BY <1>1, Zenon DEF Wrote
<1> QED BY <1>3, <1>4, <1>5, <1>6, <1>7, <1>8, Zenon DEF Undisturbed

\* Without a conflict t is the only running transaction with versions of the row.
LEMMA NoConflictAlone ==
  ASSUME Manager, MvccTypeOK, Pointers, NEW id \in Row, Ordered(id), NEW t \in active_transactions,
         ~Conflict(t, id)
  PROVE  OnlyWriter(id, t)
<1> SUFFICES ASSUME NEW j \in Positions(id), Writer(id, j) \in active_transactions
             PROVE  Writer(id, j) = t
  BY Zenon DEF OnlyWriter
<1>1. PICK n \in Nat : n = Len(version_pointers[id])
  BY DEF MvccTypeOK
<1>2. Positions(id) = 1..n /\ 1 \in Positions(id) /\ (j = 1 \/ 1 < j)
  BY <1>1 DEF Positions
<1>3. Writer(id, 1) \in Txn
  <2>1. version_pointers[id] \in Seq(Txn \X Nat)
    BY Zenon DEF MvccTypeOK
  <2> QED BY <2>1, <1>1, <1>2 DEF Writer
<1>4. Writer(id, 1) \in active_transactions
  <2> SUFFICES ASSUME Writer(id, 1) \notin active_transactions PROVE FALSE
    BY Zenon
  <2>1. Number(id, 1) = commit_id[Writer(id, 1)] /\ commit_id[Writer(id, 1)] < TRANSACTION_ID_START
    BY <1>2, Zenon DEF Number, Ordered
  <2>2. Number(id, j) = transaction_id[Writer(id, j)]
    BY Zenon DEF Number
  <2>3. TRANSACTION_ID_START <= transaction_id[Writer(id, j)]
    BY Zenon DEF Manager, Stamps
  <2>4. Number(id, 1) > Number(id, j)
    BY <1>2, Zenon DEF Ordered
  <2>5. /\ commit_id[Writer(id, 1)] \in Nat /\ transaction_id[Writer(id, j)] \in Nat
        /\ TRANSACTION_ID_START \in Nat
    BY <1>3, ConstantsAssumption, Zenon DEF Manager, TMTypeOK
  <2> QED BY <2>1, <2>2, <2>3, <2>4, <2>5
<1>5. Writer(id, 1) = Writer(id, j)
  BY <1>2, <1>4, Zenon DEF Ordered
<1>6. VersionNumber(version_pointers[id][1]) = transaction_id[Writer(id, 1)]
  BY <1>2, <1>4, Zenon DEF Ordered, Number
<1>7. TRANSACTION_ID_START <= transaction_id[Writer(id, 1)]
  BY <1>4, Zenon DEF Manager, Stamps
<1>8. version_pointers[id] # <<>> /\ Head(version_pointers[id]) = version_pointers[id][1]
  <2>1. version_pointers[id] \in Seq(Txn \X Nat)
    BY Zenon DEF MvccTypeOK
  <2> QED BY <2>1, <1>1, <1>2
<1>9. transaction_id[Writer(id, 1)] = transaction_id[t]
  <2>1. transaction_id[Writer(id, 1)] \in Nat /\ TRANSACTION_ID_START \in Nat
    BY <1>3, ConstantsAssumption, Zenon DEF Manager, TMTypeOK
  <2> QED BY <2>1, <1>6, <1>7, <1>8, Zenon DEF Conflict
<1>10. Writer(id, 1) = t
  BY <1>4, <1>9, Zenon DEF Manager, Stamps
<1> QED BY <1>5, <1>10, Zenon

\* Rows other than id hold what they held, and id, if it follows the rules, gets
\* from t, the only one to write it now, a version with what it held.
WritesRow(t, id, data, v) ==
  /\ tainted \subseteq tainted'
  /\ \A r \in Row : r # id => State(r, 0)' = State(r, 0)
  /\ id \notin tainted' =>
       /\ ~Conflict(t, id)
       /\ FromStorage(data) = FromStorage(State(id, 0))
       /\ FromStorage(State(id, 0)') = v

\* A write keeps the invariant.
LEMMA WriteKeeps ==
  ASSUME Manager, MvccInv, MvccTypeOK', Unborn', NEW t, NEW id \in Row, NEW data, NEW v,
         Writing(t, id, data, v), WritesRow(t, id, data, v)
  PROVE  MvccInv'
<1>1. /\ TMTypeOK /\ OwnedOnce /\ MvccTypeOK /\ Pointers /\ OwnEntries /\ WritesLinked
      /\ WritersKnown /\ ListOrder(recently_committed_transactions) /\ CommitsDiffer
  BY Zenon DEF Manager, MvccInv
<1>2. Pointers' /\ OwnEntries' /\ WritesLinked'
  BY <1>1, WritePointers, WriteOwn, WriteLinked, Zenon
<1>3. (WritersKnown /\ ListOrder(recently_committed_transactions) /\ CommitsDiffer)'
  BY <1>1, WriteKnown, Zenon
<1>4. ASSUME NEW r \in Row \ tainted' PROVE Ordered(r)' /\ Recorded(r)'
  <2>1. r \in Row \ raced /\ Ordered(r) /\ Recorded(r)
    BY <1>1, Zenon DEF WritesRow, MvccInv, MvccTypeOK
  <2>2. CASE r # id
    <3>1. State(r, 0)' = State(r, 0)
      BY <2>1, <2>2, Zenon DEF WritesRow
    <3>2. Undisturbed(r)
      BY <3>1, <2>1, <2>2, <1>1, WriteOthers, Zenon
    <3> QED BY <3>2, <2>1, RowKept, Zenon
  <2>3. CASE r = id
    <3>1. /\ Wrote(t, id, v) /\ t \in active_transactions /\ UNCHANGED tmVars
      BY <1>1, WriteFacts, Zenon DEF Writing
    <3>2. PICK n \in Nat : Pushed(id, t, data, n)
      <4>1. PICK type : Push(t, type, id, data)
        BY Zenon DEF Writing
      <4>2. t \in Txn
        BY <3>1, Zenon DEF Wrote
      <4> QED BY <4>1, <4>2, <2>1, <2>3, <1>1, PushShape, Zenon
    <3>3. OnlyWriter(id, t)
      <4>1. ~Conflict(t, id)
        BY <2>3, Zenon DEF WritesRow
      <4> QED BY <4>1, <3>1, <2>1, <2>3, <1>1, NoConflictAlone, Zenon
    <3>4. WritesOver(id, t, data)
      BY <3>1, <2>3, Zenon DEF WritesOver, WritesRow, Wrote
    <3> QED BY <3>1, <3>2, <3>3, <3>4, <2>1, <2>3, <1>1, PushOrdered, PushRecorded, Zenon
  <2> QED BY <2>2, <2>3, Zenon
<1> QED BY <1>2, <1>3, <1>4, Zenon DEF MvccInv

\* Storage keeps values: NULL and its representation are exchanged both ways.
LEMMA StorageKeeps ==
  ASSUME NEW v \in Val
  PROVE  ToStorage(v) \in Stored /\ FromStorage(ToStorage(v)) = v /\ FromStorage(Absent) = Absent
BY MvccAssumption, Zenon DEF ToStorage, FromStorage, Stored

\* DataTable::Append keeps the invariant.
LEMMA AppendKeeps ==
  ASSUME Manager, MvccInv, NEW t \in Txn, NEW v \in Val, DataTableAppend(t, v)
  PROVE  MvccInv'
<1>0. PICK id : id = count
  BY Zenon
<1>1. /\ id \in Row /\ id \in Nat /\ MaxRows \in Nat /\ count' = id + 1
      /\ id + 1 \in 0..MaxRows
      /\ \A r \in Row : r \in Nat /\ (r # id => (r >= id + 1 <=> r >= id))
  BY <1>0, MvccAssumption DEF MvccInv, MvccTypeOK, DataTableAppend, Row
<1>2. version_pointers[id] = <<>> /\ ~deleted[id]
  BY <1>0, <1>1 DEF MvccInv, Unborn
<1>3. base \in [Row -> Stored] /\ deleted \in [Row -> BOOLEAN] /\ MvccTypeOK
  BY Zenon DEF MvccInv, MvccTypeOK
<1>4. Writing(t, id, Absent, v)
  <2>1. Push(t, "INSERT_TUPLE", id, Absent)
    BY <1>0, Zenon DEF DataTableAppend
  <2> QED BY <2>1, <1>0, <1>2, Zenon DEF DataTableAppend, CanPush, Writing, Remember
<1>5. TMTypeOK
  BY Zenon DEF Manager
<1>6. WritesRow(t, id, Absent, v)
  <2>1. tainted \subseteq tainted'
    BY Zenon DEF DataTableAppend, Remember
  <2>2. \A r \in Row : r # id => State(r, 0)' = State(r, 0)
    BY <1>0, <1>1, <1>3, Zenon DEF State, DataTableAppend
  <2>3. ~Conflict(t, id)
    BY <1>2, Zenon DEF Conflict
  <2>4. State(id, 0) = Absent
    BY <1>0, <1>1 DEF State
  <2>5. State(id, 0)' = ToStorage(v)
    <3>1. base' = [base EXCEPT ![id] = ToStorage(v)] /\ deleted' = deleted
      BY <1>0, Zenon DEF DataTableAppend
    <3>2. ~(id >= count') /\ ~deleted'[id] /\ base'[id] = ToStorage(v)
      BY <3>1, <1>1, <1>2, <1>3
    <3> QED BY <3>2, Zenon DEF State
  <2> QED BY <2>1, <2>2, <2>3, <2>4, <2>5, StorageKeeps, Zenon DEF WritesRow
<1>7. MvccTypeOK'
  <2>1. /\ undo' \in [Txn -> Seq(UndoEntry)] /\ version_pointers' \in [Row -> Seq(Txn \X Nat)]
        /\ mine' \in [Txn -> [Row -> Val \cup {Absent, NoWrite}]]
        /\ pushing' \subseteq Txn \X Row /\ undoing' \subseteq Row /\ raced' \subseteq Row
    BY <1>1, <1>3, <1>4, <1>5, WriteTypes, Zenon
  <2>2. base' \in [Row -> Stored]
    BY <1>0, <1>1, <1>3, StorageKeeps, Zenon DEF DataTableAppend
  <2>3. tainted' \subseteq Row /\ raced' \subseteq tainted'
    BY <2>1, <1>0, <1>1, Zenon DEF MvccInv, MvccTypeOK, DataTableAppend, Remember
  <2>4. deleted' = deleted /\ cardinality' = cardinality
    BY Zenon DEF DataTableAppend
  <2>5. count' \in 0..MaxRows /\ deleted' \in [Row -> BOOLEAN] /\ cardinality' \in 0..(SizeT - 1)
    BY <2>4, <1>1, <1>3, Zenon DEF MvccTypeOK
  <2> QED BY <2>1, <2>2, <2>3, <2>5, Zenon DEF MvccTypeOK
<1>8. Unborn'
  <2>1. Wrote(t, id, v)
    BY <1>1, <1>3, <1>4, <1>5, WriteFacts, Zenon
  <2> SUFFICES ASSUME NEW r \in Row, r >= count'
               PROVE  version_pointers'[r] = <<>> /\ ~deleted'[r] /\ \A u \in Txn : mine'[u][r] = NoWrite
    BY Zenon DEF Unborn
  <2>2. r # id /\ r >= count
    BY <1>0, <1>1
  <2>3. version_pointers[r] = <<>> /\ ~deleted[r] /\ \A u \in Txn : mine[u][r] = NoWrite
    BY <2>2, Zenon DEF MvccInv, Unborn
  <2> QED BY <2>1, <2>2, <2>3, Zenon DEF Wrote, DataTableAppend
<1> QED BY <1>1, <1>4, <1>6, <1>7, <1>8, WriteKeeps, Zenon

\* A statement on a row that was found keeps the invariant.
LEMMA FoundKeeps ==
  ASSUME Manager, MvccInv, NEW t \in Txn, NEW r \in Row, NEW id, NEW v \in Val \cup {Absent},
         NEW type \in {"DELETE_TUPLE", "UPDATE_TUPLE"},
         Found(t, r, id), CanPush(t), Push(t, type, id, base[id]), Remember(t, r, id, v),
         base' = [base EXCEPT ![id] = base'[id]], base'[id] \in Stored,
         deleted' = [deleted EXCEPT ![id] = deleted'[id]], deleted'[id] \in BOOLEAN,
         FromStorage(IF deleted'[id] THEN Absent ELSE base'[id]) = v
           \/ id # r \/ Stale(t, id),
         UNCHANGED <<tmVars, count, cardinality>>
  PROVE  MvccInv'
<1>1. /\ base \in [Row -> Stored] /\ deleted \in [Row -> BOOLEAN] /\ MvccTypeOK
      /\ id \in Row /\ id < count /\ count \in Nat /\ id \in Nat /\ ~(id >= count)
  <2>1. /\ base \in [Row -> Stored] /\ deleted \in [Row -> BOOLEAN] /\ MvccTypeOK
        /\ count \in 0..MaxRows /\ id \in Row /\ id < count
    BY Zenon DEF MvccInv, MvccTypeOK, Found
  <2> QED BY <2>1, MvccAssumption DEF Row
<1>2. Writing(t, id, base[id], v)
  <2>1. base[id] \in Stored /\ base[id] # Absent
    BY <1>1, MvccAssumption, Zenon DEF Stored
  <2> QED BY <2>1, Zenon DEF CanPush, Writing, Remember
<1>3. WritesRow(t, id, base[id], v)
  <2>1. tainted \subseteq tainted' /\ (id \notin tainted' => id = r /\ ~Stale(t, id))
    BY Zenon DEF Remember
  <2>2. \A q \in Row : q # id => State(q, 0)' = State(q, 0)
    BY <1>1, Zenon DEF State
  <2>3. id \notin tainted' => State(id, 0) = base[id]
    BY <2>1, <1>1, Zenon DEF State, Found
  <2>4. id \notin tainted' => FromStorage(State(id, 0)') = v
    BY <2>1, <1>1, Zenon DEF State
  <2>5. ~Conflict(t, id)
    BY Zenon DEF Found
  <2> QED BY <2>1, <2>2, <2>3, <2>4, <2>5, Zenon DEF WritesRow
<1>4. MvccTypeOK'
  <2>1. /\ undo' \in [Txn -> Seq(UndoEntry)] /\ version_pointers' \in [Row -> Seq(Txn \X Nat)]
        /\ mine' \in [Txn -> [Row -> Val \cup {Absent, NoWrite}]]
        /\ pushing' \subseteq Txn \X Row /\ undoing' \subseteq Row /\ raced' \subseteq Row
    BY <1>1, <1>2, WriteTypes, Zenon DEF Manager
  <2>2. base' \in [Row -> Stored] /\ deleted' \in [Row -> BOOLEAN]
    BY <1>1, Zenon
  <2>3. tainted' \subseteq Row /\ raced' \subseteq tainted'
    BY <2>1, <1>1, Zenon DEF MvccInv, MvccTypeOK, Remember
  <2>4. count' \in 0..MaxRows /\ cardinality' \in 0..(SizeT - 1)
    BY <1>1, Zenon DEF MvccTypeOK
  <2> QED BY <2>1, <2>2, <2>3, <2>4, Zenon DEF MvccTypeOK
<1>5. Unborn'
  <2>1. Wrote(t, id, v)
    BY <1>1, <1>2, WriteFacts, Zenon DEF Manager
  <2> SUFFICES ASSUME NEW q \in Row, q >= count'
               PROVE  version_pointers'[q] = <<>> /\ ~deleted'[q] /\ \A u \in Txn : mine'[u][q] = NoWrite
    BY Zenon DEF Unborn
  <2>2. q # id /\ q >= count
    BY <1>1, Zenon
  <2>3. version_pointers[q] = <<>> /\ ~deleted[q] /\ \A u \in Txn : mine[u][q] = NoWrite
    BY <2>2, Zenon DEF MvccInv, Unborn
  <2> QED BY <2>1, <2>2, <2>3, <1>1 DEF Wrote
<1> QED BY <1>1, <1>2, <1>3, <1>4, <1>5, WriteKeeps, Zenon

\* DataTable::Delete keeps the invariant.
LEMMA DeleteKeeps ==
  ASSUME Manager, MvccInv, NEW t \in Txn, NEW r \in Row, NEW id, id = ReportedRowId(t, r),
         Found(t, r, id), Delete(t, r)
  PROVE  MvccInv'
<1>1. base \in [Row -> Stored] /\ deleted \in [Row -> BOOLEAN] /\ id \in Row
  BY Zenon DEF MvccInv, MvccTypeOK, Found
<1>2. /\ CanPush(t) /\ Push(t, "DELETE_TUPLE", id, base[id]) /\ Remember(t, r, id, Absent)
      /\ deleted' = [deleted EXCEPT ![id] = TRUE] /\ base' = base
      /\ UNCHANGED <<tmVars, count, cardinality>>
  BY Zenon DEF Delete
<1>3. deleted'[id] = TRUE /\ base'[id] \in Stored /\ base' = [base EXCEPT ![id] = base'[id]]
  BY <1>1, <1>2, Zenon
<1>4. FromStorage(IF deleted'[id] THEN Absent ELSE base'[id]) = Absent
  BY <1>3, MvccAssumption, Zenon DEF FromStorage
<1> QED BY <1>2, <1>3, <1>4, FoundKeeps, Zenon

\* DataTable::Update keeps the invariant.
LEMMA UpdateKeeps ==
  ASSUME Manager, MvccInv, NEW t \in Txn, NEW r \in Row, NEW v \in Val, NEW id,
         id = ReportedRowId(t, r), Found(t, r, id), Update(t, r, v)
  PROVE  MvccInv'
<1>1. base \in [Row -> Stored] /\ deleted \in [Row -> BOOLEAN] /\ id \in Row
  BY Zenon DEF MvccInv, MvccTypeOK, Found
<1>2. /\ CanPush(t) /\ Push(t, "UPDATE_TUPLE", id, base[id]) /\ Remember(t, r, id, v)
      /\ base' = [base EXCEPT ![id] = ToStorage(v)] /\ deleted' = deleted
      /\ UNCHANGED <<tmVars, count, cardinality>>
  BY Zenon DEF Update
<1>3. /\ base'[id] = ToStorage(v) /\ base'[id] \in Stored /\ deleted'[id] \in BOOLEAN
      /\ deleted' = [deleted EXCEPT ![id] = deleted'[id]]
  BY <1>1, <1>2, StorageKeeps, Zenon
<1>4. id = r /\ ~Stale(t, id) => ~deleted'[id]
  BY <1>2, Zenon DEF Found
<1>5. FromStorage(IF deleted'[id] THEN Absent ELSE base'[id]) = v \/ id # r \/ Stale(t, id)
  BY <1>3, <1>4, StorageKeeps, Zenon
<1> QED BY <1>2, <1>3, <1>5, FoundKeeps, Zenon

-----------------------------------------------------------------------------
(* The steps that write no row.                                             *)

\* The chains do not change, and pointers lead where they led.
LEMMA PointersStay ==
  ASSUME MvccTypeOK, Pointers, version_pointers' = version_pointers, raced' = raced,
         \A p \in Txn \X Nat, r \in Row : LeadsTo(p, r) =>
           LeadsTo(p, r)' /\ Entry(p)'.tuple_data = Entry(p).tuple_data
  PROVE  Pointers'
<1> SUFFICES ASSUME NEW r \in Row \ raced, NEW i \in Positions(r)'
             PROVE  /\ LeadsTo(version_pointers[r][i], r)'
                    /\ Entry(version_pointers[r][i])'.tuple_data = Absent =>
                         i = Len(version_pointers'[r])
  BY Zenon DEF Pointers
<1>1. i \in Positions(r) /\ version_pointers[r] \in Seq(Txn \X Nat)
  BY Zenon DEF Positions, MvccTypeOK
<1>2. PICK p \in Txn \X Nat : p = version_pointers[r][i]
  BY <1>1 DEF Positions
<1>3. LeadsTo(p, r) /\ (Entry(p).tuple_data = Absent => i = Len(version_pointers[r]))
  BY <1>1, <1>2, Zenon DEF Pointers
<1>4. LeadsTo(p, r)' /\ (Entry(p)'.tuple_data = Absent => i = Len(version_pointers[r]))
  BY <1>3, Zenon
<1>5. version_pointers'[r][i] = p /\ version_pointers'[r] = version_pointers[r]
  BY <1>2, Zenon
<1> QED BY <1>4, <1>5, Zenon DEF LeadsTo, Entry

\* A transaction starts: nobody has heard of it.
LEMMA StartKeeps ==
  ASSUME Manager, MvccInv, NEW t \in Txn, Start(t)
  PROVE  MvccInv'
<1>1. /\ t \notin Started /\ active_transactions' = active_transactions \cup {t}
      /\ recently_committed_transactions' = recently_committed_transactions
      /\ old_transactions' = old_transactions /\ freed' = freed /\ commit_id' = commit_id
      /\ transaction_id' = [transaction_id EXCEPT ![t] = current_transaction_id]
  BY Zenon DEF Start, StartTransaction, NewTransaction, MayStart
<1>2. /\ count' = count /\ base' = base /\ deleted' = deleted /\ undo' = undo
      /\ version_pointers' = version_pointers /\ cardinality' = cardinality
      /\ mine' = mine /\ tainted' = tainted
      /\ pushing' = pushing /\ undoing' = {} /\ raced' = raced
  BY Zenon DEF Start, table, history
<1>3. /\ InUse' = InUse \cup {t} /\ CleanedUp' = CleanedUp /\ Started' = Started \cup {t}
      /\ t \notin InUse /\ InUse \subseteq Txn
  BY <1>1, ListsType, Zenon DEF InUse, CleanedUp, Started, Manager
<1>4. \A r \in Row : mine[t][r] = NoWrite
  BY <1>1, Zenon DEF MvccInv, WritersKnown, HasCommitted, Started
<1>5. \A u \in Txn : HasCommitted(u)' <=> HasCommitted(u)
  BY <1>1, <1>3, Zenon DEF HasCommitted
<1>6. MvccTypeOK' /\ Unborn'
  BY <1>2, Zenon DEF MvccInv, MvccTypeOK, Unborn
<1>7. Pointers'
  <2>1. \A p \in Txn \X Nat, r \in Row : LeadsTo(p, r) =>
          LeadsTo(p, r)' /\ Entry(p)'.tuple_data = Entry(p).tuple_data
    BY <1>2, <1>3, Zenon DEF LeadsTo, Entry
  <2> QED BY <2>1, <1>2, PointersStay, Zenon DEF MvccInv
<1>o. OwnEntries'
  <2>1. MvccTypeOK /\ OwnEntries
    BY Zenon DEF MvccInv
  <2>2. RunnersStay
    BY <1>1, <1>2, <1>3, Zenon DEF RunnersStay
  <2>3. ASSUME NEW r \in Row PROVE MayShrink(r)
    <3>1. version_pointers[r] \in Seq(Txn \X Nat)
      BY <2>1, Zenon DEF MvccTypeOK
    <3> QED BY <3>1, <1>2, SameShrinks, Zenon
  <2> QED BY <2>1, <2>2, <2>3, OwnStays, Zenon
<1>8. WritesLinked'
  BY <1>2, <1>3, <1>4 DEF MvccInv, WritesLinked, Positions, Writer
<1>9. WritersKnown' /\ CommitsDiffer'
  <2>1. WritersKnown /\ CommitsDiffer
    BY Zenon DEF MvccInv
  <2> QED BY <2>1, <1>1, <1>2, <1>5, Zenon DEF WritersKnown, CommitsDiffer, Writes
<1>10. ListOrder(recently_committed_transactions)'
  BY <1>1, <1>2, Zenon DEF MvccInv, ListOrder, Writes
<1>11. ASSUME NEW r \in Row \ tainted PROVE Ordered(r)' /\ Recorded(r)'
  <2>1. \A i \in Positions(r) :
          /\ version_pointers[r][i][1] \in InUse /\ version_pointers[r][i][1] # t
          /\ version_pointers[r][i][1] \in Txn
    <3>1. r \in Row \ raced /\ Pointers
      BY Zenon DEF MvccInv, MvccTypeOK
    <3>2. \A i \in Positions(r) : version_pointers[r][i][1] \in InUse
      BY <3>1, Zenon DEF Pointers, LeadsTo
    <3> QED BY <3>2, <1>3, Zenon
  <2>2. \A u \in Txn : u # t => transaction_id'[u] = transaction_id[u]
    BY <1>1, Zenon DEF Manager, TMTypeOK
  <2>3. Retired(r)' = Retired(r) /\ State(r, 0)' = State(r, 0)
    BY <1>2, <1>3, Zenon DEF Retired, State
  <2>4. Undisturbed(r)
    BY <2>1, <2>2, <2>3, <1>1, <1>2, Zenon DEF Undisturbed
  <2> QED BY <2>4, RowKept, Zenon DEF MvccInv
<1> QED BY <1>2, <1>6, <1>7, <1>o, <1>8, <1>9, <1>10, <1>11, Zenon DEF MvccInv

\* What UndoBuffer::Commit does to the entries of t, of which it stamps k.
LEMMA StampedEntries ==
  ASSUME TMTypeOK, MvccTypeOK, NEW t \in Txn, NEW cid \in Nat, NEW k, NEW u \in Txn
  PROVE  /\ Stamped(t, cid, k) \in [Txn -> Seq(UndoEntry)]
         /\ Len(Stamped(t, cid, k)[u]) = Len(undo[u])
         /\ u # t => Stamped(t, cid, k)[u] = undo[u]
         /\ \A i \in 1..Len(undo[u]) :
              /\ Stamped(t, cid, k)[u][i].row = undo[u][i].row
              /\ Stamped(t, cid, k)[u][i].tuple_data = undo[u][i].tuple_data
              /\ u = t /\ i <= k => Stamped(t, cid, k)[u][i].version_number = cid
<1>1. undo \in [Txn -> Seq(UndoEntry)]
  BY Zenon DEF MvccTypeOK
<1>2. PICK s \in Seq(UndoEntry) : s = undo[t]
  BY <1>1, Zenon
<1> DEFINE mark(i) == IF i <= k THEN [s[i] EXCEPT !.version_number = cid] ELSE s[i]
           stamped == [i \in DOMAIN s |-> mark(i)]
<1>3. \A i \in 1..Len(s) :
        /\ mark(i) \in UndoEntry /\ mark(i).row = s[i].row /\ mark(i).tuple_data = s[i].tuple_data
        /\ i <= k => mark(i).version_number = cid
  <2>1. \A e \in UndoEntry :
          LET m == [e EXCEPT !.version_number = cid]
          IN  m \in UndoEntry /\ m.row = e.row /\ m.tuple_data = e.tuple_data
              /\ m.version_number = cid
    BY Zenon DEF UndoEntry
  <2>2. \A i \in 1..Len(s) : s[i] \in UndoEntry
    OBVIOUS
  <2> QED BY <2>1, <2>2, Zenon
<1>4. Stamped(t, cid, k) = [undo EXCEPT ![t] = stamped]
  BY <1>2, Zenon DEF Stamped
<1> HIDE DEF mark
<1>5. /\ stamped \in Seq(UndoEntry) /\ Len(stamped) = Len(s)
      /\ \A i \in 1..Len(s) : stamped[i] = mark(i)
  BY <1>3
<1> HIDE DEF stamped
<1>6. Stamped(t, cid, k) \in [Txn -> Seq(UndoEntry)] /\ Stamped(t, cid, k)[t] = stamped
  BY <1>1, <1>4, <1>5, Zenon
<1>7. u # t => Stamped(t, cid, k)[u] = undo[u]
  BY <1>1, <1>4, Zenon
<1>8. CASE u # t
  BY <1>6, <1>7, <1>8, Zenon
<1>9. CASE u = t
  BY <1>2, <1>3, <1>5, <1>6, <1>9
<1> QED BY <1>8, <1>9, Zenon

\* A commit fails: t keeps running, with a commit_id, and the rows of its entries
\* do not follow the rules any more.
LEMMA FailKeeps ==
  ASSUME Manager, MvccInv, NEW t \in Txn, CommitFails(t), cardinality' \in 0..(SizeT - 1)
  PROVE  MvccInv'
<1>1. PICK k : undo' = Stamped(t, current_start_timestamp, k)
  BY Zenon DEF CommitFails
<1>2. /\ t \in active_transactions /\ tainted' = tainted \cup RowsOf(t)
      /\ count' = count /\ base' = base /\ deleted' = deleted /\ mine' = mine
      /\ version_pointers' = version_pointers
      /\ pushing' \subseteq pushing /\ undoing' = {} /\ raced' = raced
  BY Zenon DEF CommitFails, CommitTransactionFails, MayEnd, EndOverlap
<1>3. /\ active_transactions' = active_transactions /\ transaction_id' = transaction_id
      /\ recently_committed_transactions' = recently_committed_transactions
      /\ old_transactions' = old_transactions /\ freed' = freed
      /\ commit_id' = [commit_id EXCEPT ![t] = current_start_timestamp]
  BY Zenon DEF CommitFails, CommitTransactionFails, lists
<1>4. /\ TMTypeOK /\ OwnedOnce /\ MvccTypeOK /\ current_start_timestamp \in Nat
      /\ commit_id \in [Txn -> Nat] /\ undo[t] \in Seq(UndoEntry)
  BY Zenon DEF Manager, MvccInv, TMTypeOK, MvccTypeOK
<1>5. \A u \in Txn : u # t => commit_id'[u] = commit_id[u]
  BY <1>3, <1>4, Zenon
<1>6. InUse' = InUse /\ Started' = Started /\ InUse \subseteq Txn /\ CleanedUp \subseteq Txn
  BY <1>3, <1>4, ListsType, Zenon DEF InUse, Started
<1>7. CleanedUp' = CleanedUp /\ t \notin CleanedUp /\ t \notin Elems(recently_committed_transactions)
  <2>1. t \notin Elems(old_transactions) \cup freed \cup Elems(recently_committed_transactions)
    BY <1>2, <1>4, Zenon DEF OwnedOnce
  <2>2. \A u \in Elems(old_transactions) \cup freed : u \in Txn
    BY <1>4, ElemsWithin, Zenon DEF TMTypeOK
  <2> QED BY <2>1, <2>2, <1>3, <1>5, Zenon DEF CleanedUp
<1>8. MvccTypeOK'
  <2>1. undo' \in [Txn -> Seq(UndoEntry)]
    BY <1>1, <1>4, StampedEntries, Zenon
  <2>2. tainted' \subseteq Row
    <3>1. \A i \in 1..Len(undo[t]) : undo[t][i] \in UndoEntry
      BY <1>4
    <3>2. \A e \in UndoEntry : e.row \in Row
      BY Zenon DEF UndoEntry
    <3>3. RowsOf(t) \subseteq Row
      BY <3>1, <3>2, Zenon DEF RowsOf
    <3> QED BY <3>3, <1>2, <1>4, Zenon DEF MvccTypeOK
  <2> QED BY <2>1, <2>2, <1>2, <1>4, Zenon DEF MvccTypeOK
<1>9. ASSUME NEW u \in Txn
      PROVE  /\ Len(undo'[u]) = Len(undo[u]) /\ (u # t => undo'[u] = undo[u])
             /\ \A i \in 1..Len(undo[u]) :
                  undo'[u][i].row = undo[u][i].row /\ undo'[u][i].tuple_data = undo[u][i].tuple_data
  <2> DEFINE U == Stamped(t, current_start_timestamp, k)
  <2>1. /\ Len(U[u]) = Len(undo[u]) /\ (u # t => U[u] = undo[u])
        /\ \A i \in 1..Len(undo[u]) :
             U[u][i].row = undo[u][i].row /\ U[u][i].tuple_data = undo[u][i].tuple_data
    BY <1>4, StampedEntries
  <2> HIDE DEF U
  <2>2. undo' = U
    BY <1>1, Zenon DEF U
  <2> QED BY <2>1, <2>2, Zenon
<1>10. Pointers'
  <2>1. ASSUME NEW p \in Txn \X Nat, NEW r \in Row, LeadsTo(p, r)
        PROVE  LeadsTo(p, r)' /\ Entry(p)'.tuple_data = Entry(p).tuple_data
    <3>1. PICK u \in Txn, i \in Nat : p = <<u, i>>
      OBVIOUS
    <3>2. u \in InUse /\ i \in 1..Len(undo[u]) /\ undo[u][i].row = r /\ mine[u][r] # NoWrite
      BY <2>1, <3>1, Zenon DEF LeadsTo, Entry
    <3>3. i \in 1..Len(undo'[u]) /\ undo'[u][i].row = r /\ undo'[u][i].tuple_data = undo[u][i].tuple_data
      BY <3>2, <1>9, Zenon
    <3> QED BY <3>1, <3>2, <3>3, <1>2, <1>6, Zenon DEF LeadsTo, Entry
  <2> QED BY <2>1, <1>2, <1>4, PointersStay, Zenon DEF MvccInv
<1>o. OwnEntries'
  <2>1. RunnersStay
    <3>1. \A u \in active_transactions : u \in Txn
      BY <1>4, Zenon DEF TMTypeOK
    <3> QED BY <3>1, <1>3, <1>6, <1>9, Zenon DEF RunnersStay
  <2>2. ASSUME NEW r \in Row PROVE MayShrink(r)
    <3>1. version_pointers[r] \in Seq(Txn \X Nat)
      BY <1>4, Zenon DEF MvccTypeOK
    <3> QED BY <3>1, <1>2, SameShrinks, Zenon
  <2>3. OwnEntries
    BY Zenon DEF MvccInv
  <2> QED BY <2>1, <2>2, <2>3, <1>4, OwnStays, Zenon
<1>11. WritesLinked' /\ Unborn'
  <2>1. WritesLinked /\ Unborn
    BY Zenon DEF MvccInv
  <2>2. WritesLinked'
    BY <2>1, <1>2, <1>6 DEF WritesLinked, Positions, Writer
  <2> QED BY <2>1, <2>2, <1>2, Zenon DEF Unborn
<1>12. \A u \in Txn : HasCommitted(u)' <=> HasCommitted(u)
  BY <1>2, <1>3, <1>5, <1>6, Zenon DEF HasCommitted
<1>13. WritersKnown' /\ CommitsDiffer'
  <2>1. WritersKnown /\ CommitsDiffer
    BY Zenon DEF MvccInv
  <2> QED BY <2>1, <1>2, <1>3, <1>5, <1>12 DEF WritersKnown, CommitsDiffer, Writes, HasCommitted
<1>14. ListOrder(recently_committed_transactions)'
  <2>1. PICK rc \in Seq(Txn) : rc = recently_committed_transactions
    BY <1>4, Zenon DEF TMTypeOK
  <2>2. \A i \in 1..Len(rc) : commit_id'[rc[i]] = commit_id[rc[i]] /\ (Writes(rc[i])' <=> Writes(rc[i]))
    <3>1. \A i \in 1..Len(rc) : rc[i] \in Txn /\ rc[i] # t
      <4>1. t \notin Elems(rc)
        BY <2>1, <1>7, Zenon
      <4> QED BY <4>1 DEF Elems
    <3>2. \A u : Writes(u)' <=> Writes(u)
      BY <1>2, Zenon DEF Writes
    <3> QED BY <3>1, <3>2, <1>5, Zenon
  <2>3. ListOrder(recently_committed_transactions)
    BY Zenon DEF MvccInv
  <2> QED BY <2>1, <2>2, <2>3, <1>3 DEF ListOrder
<1>15. ASSUME NEW r \in Row \ tainted' PROVE Ordered(r)' /\ Recorded(r)'
  <2>1. Ordered(r) /\ Recorded(r) /\ r \in Row \ raced /\ r \notin RowsOf(t)
    BY <1>2, Zenon DEF MvccInv, MvccTypeOK
  <2>2. ASSUME NEW i \in Positions(r), NEW p \in Txn \X Nat, p = version_pointers[r][i]
        PROVE  undo'[p[1]][p[2]] = undo[p[1]][p[2]] /\ commit_id'[p[1]] = commit_id[p[1]]
    <3>1. LeadsTo(p, r)
      BY <2>1, <2>2, Zenon DEF MvccInv, Pointers
    <3>2. p[1] # t
      BY <3>1, <2>1, Zenon DEF LeadsTo, Entry, RowsOf
    <3> QED BY <3>2, <1>5, <1>9, Zenon
  <2>3. \A i \in Positions(r) : version_pointers[r][i] \in Txn \X Nat
    <3>1. version_pointers[r] \in Seq(Txn \X Nat)
      BY <1>4, Zenon DEF MvccTypeOK
    <3> QED BY <3>1 DEF Positions
  <2>4. Retired(r)' = Retired(r) /\ State(r, 0)' = State(r, 0)
    BY <1>2, <1>7, Zenon DEF Retired, State
  <2>5. \A u \in Retired(r) : commit_id'[u] = commit_id[u]
    BY <1>5, <1>6, <1>7, Zenon DEF Retired
  <2>6. Undisturbed(r)
    BY <2>2, <2>3, <2>4, <2>5, <1>2, <1>3, Zenon DEF Undisturbed
  <2> QED BY <2>1, <2>6, RowKept, Zenon
<1> QED BY <1>8, <1>10, <1>o, <1>11, <1>13, <1>14, <1>15, Zenon DEF MvccInv
=============================================================================
