---------------------------- MODULE ChainProofs -----------------------------
(***************************************************************************)
(* What a transaction finds in the version chain of a row                  *)
(* (DataTable::Scan): in a chain that is ordered and recorded it is the    *)
(* tuple of its snapshot.                                                  *)
(***************************************************************************)
EXTENDS MvccInvariant, FiniteSetTheorems, TLAPS

-----------------------------------------------------------------------------
(* Positions in a chain.                                                    *)

Chain == Seq(Txn \X Nat)

\* A set of positions that contains all earlier ones is an interval, and its
\* size is the last of them: this is how ChainDepth and OnTop count.
LEMMA PrefixIsInterval ==
  ASSUME NEW n \in Nat, NEW S \in SUBSET (1..n), \A i \in S : \A j \in 1..i : j \in S
  PROVE  Cardinality(S) \in 0..n /\ S = 1..Cardinality(S)
<1>1. IsFiniteSet(1..n) /\ Cardinality(1..n) = n
  BY FS_Interval
<1>2. IsFiniteSet(S) /\ Cardinality(S) <= n
  <2>1. IsFiniteSet(S) /\ Cardinality(S) <= Cardinality(1..n)
    BY <1>1, FS_Subset, Zenon
  <2> QED BY <2>1, <1>1, Zenon
<1>3. Cardinality(S) \in Nat
  BY <1>2, FS_CardinalityType, Zenon
<1> DEFINE k == Cardinality(S)
<1>4. ASSUME NEW i \in S PROVE i \in 1..k
  <2>1. 1..i \in SUBSET S /\ i \in Nat /\ i >= 1
    OBVIOUS
  <2>2. Cardinality(1..i) = i
    BY <2>1, FS_Interval
  <2>3. Cardinality(1..i) <= k
    BY <1>2, <2>1, FS_Subset, Zenon
  <2> QED BY <2>1, <2>2, <2>3, <1>3
<1>5. S \in SUBSET (1..k) /\ IsFiniteSet(1..k) /\ Cardinality(1..k) = k
  BY <1>3, <1>4, FS_Interval
<1>6. S = 1..k
  BY <1>5, FS_Subset, Zenon
<1> QED BY <1>2, <1>3, <1>6

\* Taking versions out of a chain keeps the order of the others and loses none of
\* them.
LEMMA OnlyKeepsOrder ==
  ASSUME NEW c \in Chain, NEW keep \in SUBSET (1..Len(c))
  PROVE  Thinned(c, Only(c, keep), keep)
<1> DEFINE n == Len(c)
           upto(i) == {j \in keep : j <= i}
           K == Cardinality(keep)
           nth(k) == CHOOSE i \in keep : Cardinality(upto(i)) = k
           d == Only(c, keep)
           rank == [i \in keep |-> Cardinality(upto(i))]
<1>1. n \in Nat /\ \A i \in 1..n : c[i] \in Txn \X Nat
  BY DEF Chain
<1>0. \A i \in keep : i \in 1..n /\ i \in Int
  BY <1>1
<1>2. d = [k \in 1..K |-> c[nth(k)]]
  BY Zenon DEF Only
<1>3. IsFiniteSet(keep) /\ K \in Nat
  <2>1. IsFiniteSet(1..n) /\ keep \in SUBSET (1..n)
    BY <1>1, FS_Interval
  <2> QED BY <2>1, FS_Subset, FS_CardinalityType, Zenon
<1>4. ASSUME NEW i \in keep
      PROVE  /\ Cardinality(upto(i)) \in 1..K
             /\ Cardinality(upto(i)) \in Nat
             /\ IsFiniteSet(upto(i))
  <2>1. upto(i) \in SUBSET keep /\ i \in upto(i)
    BY <1>1
  <2>2. IsFiniteSet(upto(i)) /\ Cardinality(upto(i)) <= K
    BY <2>1, <1>3, FS_Subset, Zenon
  <2>3. Cardinality(upto(i)) \in Nat /\ Cardinality(upto(i)) # 0
    <3>1. upto(i) # {}
      BY <2>1, Zenon
    <3> HIDE DEF upto
    <3> QED BY <3>1, <2>2, FS_EmptySet, FS_CardinalityType, Zenon
  <2> QED BY <2>2, <2>3, <1>3
<1>5. ASSUME NEW i \in keep, NEW j \in keep, i < j
      PROVE  Cardinality(upto(i)) < Cardinality(upto(j))
  <2>1. upto(i) \in SUBSET upto(j) /\ j \in upto(j) /\ j \notin upto(i)
    <3>1. j <= j /\ ~(j <= i)
      BY <1>0, <1>5
    <3>2. ASSUME NEW k \in keep, k <= i PROVE k <= j
      BY <3>2, <1>0, <1>5
    <3> QED BY <3>1, <3>2, Zenon
  <2>2. upto(i) # upto(j)
    BY <2>1, Zenon
  <2>3. /\ Cardinality(upto(i)) <= Cardinality(upto(j))
        /\ Cardinality(upto(j)) # Cardinality(upto(i))
    <3>1. IsFiniteSet(upto(j))
      BY <1>4, Zenon
    <3> HIDE DEF upto
    <3> QED BY <3>1, <2>1, <2>2, FS_Subset, Zenon
  <2>4. Cardinality(upto(i)) \in Nat /\ Cardinality(upto(j)) \in Nat
    BY <1>4, Zenon
  <2> HIDE DEF upto
  <2> QED BY <2>3, <2>4
<1>6. rank \in Injection(keep, 1..K)
  <2>1. rank \in [keep -> 1..K]
    BY <1>4, Zenon
  <2>2. ASSUME NEW i \in keep, NEW j \in keep, i # j PROVE rank[i] # rank[j]
    <3>1. i < j \/ j < i
      BY <2>2, <1>1
    <3>2. Cardinality(upto(i)) \in Nat /\ Cardinality(upto(j)) \in Nat
      BY <1>4, Zenon
    <3>3. rank[i] = Cardinality(upto(i)) /\ rank[j] = Cardinality(upto(j))
      BY Zenon
    <3>4. i < j => Cardinality(upto(i)) < Cardinality(upto(j))
      BY <1>5, Zenon
    <3>5. j < i => Cardinality(upto(j)) < Cardinality(upto(i))
      BY <1>5, Zenon
    <3> HIDE DEF upto, rank
    <3> QED BY <3>1, <3>2, <3>3, <3>4, <3>5
  <2> QED BY <2>1, <2>2, Zenon DEF Injection, IsInjective
<1>7. rank \in Surjection(keep, 1..K)
  <2>1. IsFiniteSet(1..K) /\ Cardinality(1..K) = K
    BY <1>3, FS_Interval
  <2> QED BY <2>1, <1>6, FS_Injection, Zenon
<1>8. ASSUME NEW k \in 1..K PROVE nth(k) \in keep /\ Cardinality(upto(nth(k))) = k
  <2>1. \E i \in keep : rank[i] = k
    BY <1>7, Zenon DEF Surjection
  <2>2. \E i \in keep : Cardinality(upto(i)) = k
    BY <2>1, Zenon
  <2> QED BY <2>2, Zenon
<1>9. d \in Chain /\ Len(d) = K /\ \A k \in 1..K : d[k] = c[nth(k)]
  <2>1. \A k \in 1..K : c[nth(k)] \in Txn \X Nat
    BY <1>8, <1>1, Zenon
  <2> HIDE DEF nth, d
  <2>2. d \in [1..K -> Txn \X Nat] /\ \A k \in 1..K : d[k] = c[nth(k)]
    BY <2>1, <1>2, Zenon
  <2>3. d \in Chain /\ Len(d) = K
    BY <2>2, <1>3 DEF Chain
  <2> QED BY <2>2, <2>3, Zenon
<1> DEFINE f == [k \in 1..K |-> nth(k)]
<1>10. f \in [1..K -> 1..n]
  BY <1>8, Zenon
<1>11. ASSUME NEW k \in 1..K PROVE d[k] = c[f[k]] /\ f[k] \in keep
  <2>1. nth(k) \in keep /\ d[k] = c[nth(k)]
    BY <1>8, <1>9, Zenon
  <2>2. f[k] = nth(k)
    BY Zenon
  <2> HIDE DEF f, nth, d
  <2> QED BY <2>1, <2>2, Zenon
<1>12. ASSUME NEW k \in 1..K, NEW l \in 1..K, k < l PROVE f[k] < f[l]
  <2>1. /\ nth(k) \in keep /\ Cardinality(upto(nth(k))) = k
        /\ nth(l) \in keep /\ Cardinality(upto(nth(l))) = l
    BY <1>8, Zenon
  <2> HIDE DEF nth
  <2>2. nth(k) # nth(l)
    <3> HIDE DEF upto
    <3> QED BY <2>1, <1>12, <1>3
  <2>3. ~(nth(l) < nth(k))
    <3>1. nth(l) < nth(k) => Cardinality(upto(nth(l))) < Cardinality(upto(nth(k)))
      BY <1>5, <2>1, Zenon
    <3> HIDE DEF upto
    <3> QED BY <3>1, <2>1, <1>12, <1>3
  <2>4. nth(k) \in Int /\ nth(l) \in Int
    BY <2>1, <1>0, Zenon
  <2>5. nth(k) < nth(l)
    BY <2>2, <2>3, <2>4
  <2> QED BY <2>5, Zenon
<1>13. ASSUME NEW i \in keep PROVE \E k \in 1..K : f[k] = i
  <2>1. i \in keep
    BY Zenon
  <2> DEFINE k == Cardinality(upto(i))
  <2>2. k \in 1..K
    BY <2>1, <1>4, Zenon
  <2>3. nth(k) \in keep /\ Cardinality(upto(nth(k))) = k
    BY <2>2, <1>8, Zenon
  <2>4. nth(k) = i
    <3> HIDE DEF nth
    <3>1. rank[nth(k)] = rank[i]
      BY <2>1, <2>3, Zenon
    <3> QED BY <3>1, <2>1, <2>3, <1>6, Zenon DEF Injection, IsInjective
  <2>5. f[k] = nth(k)
    BY <2>2, Zenon
  <2> QED BY <2>2, <2>4, <2>5, Zenon
<1> HIDE DEF f, d, K, n
<1>14. /\ f \in [1..Len(d) -> 1..n]
       /\ \A k \in 1..Len(d) : d[k] = c[f[k]] /\ f[k] \in keep
       /\ \A k, l \in 1..Len(d) : k < l => f[k] < f[l]
       /\ \A i \in keep : \E k \in 1..Len(d) : f[k] = i
  BY <1>9, <1>10, <1>11, <1>12, <1>13, Zenon
<1>15. d \in Chain
  BY <1>9, Zenon
<1>16. Thinned(c, d, keep)
  BY <1>14, <1>15, Zenon DEF Thinned, Chain, n
<1> QED BY <1>16, Zenon DEF d

\* The versions of c that are not of transactions in S are those from position
\* a + 1 to position b.
KeptPart(c, S, a, b) ==
  /\ a \in Nat /\ b \in Nat /\ a <= b /\ b <= Len(c)
  /\ \A i \in 1..Len(c) : c[i][1] \notin S <=> a < i /\ i <= b

\* d is the part of c from position a + 1 to position b.
IsPart(d, c, a, b) ==
  Len(d) = b - a /\ \A k \in 1..(b - a) : d[k] = c[k + a]

\* Then removing the others cuts out this part of the chain.
LEMMA OnlyCuts ==
  ASSUME NEW c \in Chain, NEW S, NEW a, NEW b, KeptPart(c, S, a, b),
         NEW keep, keep = {i \in 1..Len(c) : c[i][1] \notin S}
  PROVE  IsPart(Only(c, keep), c, a, b)
<1> DEFINE n == Len(c)
           upto(i) == {j \in keep : j <= i}
           nth(k) == CHOOSE i \in keep : Cardinality(upto(i)) = k
           d == Only(c, keep)
<1>0. /\ a \in Nat /\ b \in Nat /\ a <= b /\ b <= n
      /\ \A i \in 1..n : c[i][1] \notin S <=> a < i /\ i <= b
  BY Zenon DEF KeptPart
<1>1. n \in Nat /\ \A i \in 1..n : c[i] \in Txn \X Nat
  BY DEF Chain
<1>2. keep = (a + 1)..b
  BY <1>0, <1>1
<1>3. Cardinality(keep) = b - a
  <2>1. Cardinality((a + 1)..b) = b - a
    <3>1. Cardinality((a + 1)..b) = IF a + 1 > b THEN 0 ELSE b - (a + 1) + 1
      BY <1>0, FS_Interval
    <3> QED BY <3>1, <1>0
  <2> QED BY <2>1, <1>2, Zenon
<1>4. ASSUME NEW i \in keep PROVE Cardinality(upto(i)) = i - a
  <2>1. upto(i) = (a + 1)..i
    BY <1>0, <1>2
  <2>2. i \in Nat /\ i \in Int /\ a + 1 <= i /\ a \in Nat /\ a + 1 \in Int
    BY <1>0, <1>2
  <2>3. Cardinality((a + 1)..i) = IF a + 1 > i THEN 0 ELSE i - (a + 1) + 1
    BY <2>2, FS_Interval, Zenon
  <2>4. Cardinality((a + 1)..i) = i - a
    BY <2>2, <2>3
  <2> HIDE DEF upto
  <2> QED BY <2>1, <2>4, Zenon
<1>5. ASSUME NEW k \in 1..(b - a) PROVE nth(k) = k + a
  <2>1. k + a \in keep
    BY <1>0, <1>2
  <2>2. Cardinality(upto(k + a)) = k
    <3>1. Cardinality(upto(k + a)) = (k + a) - a
      BY <2>1, <1>4, Zenon
    <3> HIDE DEF upto
    <3> QED BY <3>1, <1>0
  <2>3. nth(k) \in keep /\ Cardinality(upto(nth(k))) = k
    BY <2>1, <2>2, Zenon
  <2> HIDE DEF nth
  <2>4. Cardinality(upto(nth(k))) = nth(k) - a
    BY <2>3, <1>4, Zenon
  <2> HIDE DEF upto
  <2>5. nth(k) \in Nat
    BY <2>3, <1>0, <1>2
  <2> QED BY <2>3, <2>4, <2>5, <1>0
<1>6. d = [k \in 1..(b - a) |-> c[nth(k)]]
  BY <1>3, Zenon DEF Only
<1> HIDE DEF nth, d
<1>7. d = [k \in 1..(b - a) |-> c[k + a]]
  BY <1>5, <1>6, Zenon
<1>8. \A k \in 1..(b - a) : c[k + a] \in Txn \X Nat
  BY <1>0, <1>1
<1>9. b - a \in Nat
  BY <1>0
<1>10. d \in Seq(Txn \X Nat) /\ Len(d) = b - a /\ \A k \in 1..(b - a) : d[k] = c[k + a]
  BY <1>7, <1>8, <1>9
<1> QED BY <1>10, Zenon DEF d, IsPart

\* A reader who may see the newest version reads the table.
LEMMA ReadsTable ==
  ASSUME NEW id, NEW start, NEW r,
         version_pointers[r] = <<>> \/ VersionVisible(version_pointers[r][1], id, start)
  PROVE  ChainDepth(id, start, r) = 0
<1>1. {i \in 1..Len(version_pointers[r]) :
         \A j \in 1..i : ~VersionVisible(version_pointers[r][j], id, start)} = {}
  <2>1. \A i \in 1..Len(version_pointers[r]) : 1 \in 1..i
    OBVIOUS
  <2>2. version_pointers[r] = <<>> => 1..Len(version_pointers[r]) = {}
    OBVIOUS
  <2> QED BY <2>1, <2>2, Zenon
<1>2. Cardinality({}) = 0
  BY FS_EmptySet, Zenon
<1> QED BY <1>1, <1>2, Zenon DEF ChainDepth

\* The offset of a row in its chunk.
LEMMA OffsetBelow ==
  ASSUME NEW r \in Nat, NEW k \in Nat \ {0}
  PROVE  r % k \in Nat /\ r % k <= r
OBVIOUS

\* The counter stays in range, in whatever direction it wraps around.
LEMMA CardinalityInRange ==
  ASSUME MvccTypeOK, NEW t \in Txn, NEW k \in Nat
  PROVE  CardinalityAfter(t, k) \in 0..(SizeT - 1)
<1>1. \A type : EntriesOfType(t, k, type) \in Nat
  <2> TAKE type
  <2>1. IsFiniteSet(1..k) /\ {i \in 1..k : undo[t][i].type = type} \subseteq 1..k
    BY FS_Interval
  <2>2. IsFiniteSet({i \in 1..k : undo[t][i].type = type})
    BY <2>1, FS_Subset, Zenon
  <2> QED BY <2>2, FS_CardinalityType, Zenon DEF EntriesOfType
<1>2. cardinality \in Nat /\ SizeT \in Nat \ {0}
  BY MvccAssumption DEF MvccTypeOK
<1>3. \A x \in Int : x % SizeT \in 0..(SizeT - 1)
  BY <1>2
<1>4. PICK a \in Nat, b \in Nat :
        a = EntriesOfType(t, k, "INSERT_TUPLE") /\ b = EntriesOfType(t, k, "DELETE_TUPLE")
  BY <1>1, Zenon
<1>5. cardinality + a + SizeT - b \in Int
  BY <1>2
<1> QED BY <1>3, <1>4, <1>5, Zenon DEF CardinalityAfter

\* When t ends, the versions that stay are an interval: those rolled back are on top,
\* and below a version that is cleaned up there are only such.
LEMMA KeptInterval ==
  ASSUME NEW c \in Chain, NEW T, NEW clean, NEW a \in 0..Len(c),
         \A i \in 1..Len(c) : c[i][1] \in T <=> i <= a,
         \A i, j \in 1..Len(c) :
           i < j /\ c[i][1] \notin T /\ c[i][1] \in clean => c[j][1] \in clean
  PROVE  \E b : KeptPart(c, T \cup clean, a, b)
<1>n. PICK n \in Nat : n = Len(c)
  BY DEF Chain
<1>1. /\ a \in Nat /\ a <= n /\ \A i \in 1..n : c[i][1] \in T <=> i <= a
      /\ \A i, j \in 1..n : i < j /\ c[i][1] \notin T /\ c[i][1] \in clean => c[j][1] \in clean
  BY <1>n
<1>S. PICK S \in SUBSET (1..n) : S = {i \in 1..n : i <= a \/ c[i][1] \notin clean}
  BY Zenon
<1>2. \A i \in 1..n : i \in S <=> (i <= a \/ c[i][1] \notin clean)
  BY <1>S, Zenon
<1>3. \A i \in S : \A j \in 1..i : j \in S
  <2>1. SUFFICES ASSUME NEW i \in S, NEW j \in 1..i PROVE j \in S
    BY Zenon
  <2>2. i \in 1..n /\ j \in 1..n /\ (j = i \/ j < i) /\ (i <= a => j <= a)
    BY <1>1
  <2> QED BY <2>2, <1>1, <1>2, Zenon
<1>4. Cardinality(S) \in 0..n /\ S = 1..Cardinality(S)
  BY <1>3, PrefixIsInterval, Zenon
<1>5. PICK b \in Nat : b <= n /\ S = 1..b
  BY <1>4
<1>6. a <= b
  <2>1. a = 0 \/ a \in S
    BY <1>1, <1>2
  <2> QED BY <2>1, <1>1, <1>5
<1>7. \A i \in 1..n : c[i][1] \notin T \cup clean <=> a < i /\ i <= b
  <2> TAKE i \in 1..n
  <2>1. i \in S <=> i <= b
    BY <1>5
  <2>2. i <= a <=> ~(a < i)
    BY <1>1
  <2> QED BY <2>1, <2>2, <1>1, <1>2, Zenon
<1>8. KeptPart(c, T \cup clean, a, b)
  BY <1>1, <1>5, <1>6, <1>7, <1>n, Zenon DEF KeptPart
<1> QED BY <1>8, Zenon

-----------------------------------------------------------------------------
(* What DELETE and UPDATE find.                                             *)

\* The scan of a statement that is allowed to go on.
LEMMA ScanFinds ==
  ASSUME Manager, MvccInv, NEW t \in active_transactions, NEW r \in Row, NEW id,
         id = ReportedRowId(t, r), Matches(t, r, id), ~Conflict(t, id)
  PROVE  Found(t, r, id)
<1>1. r < count /\ ~(r >= count) /\ count \in 0..MaxRows /\ r \in Nat /\ MaxRows \in Nat
  <2>1. count \in 0..MaxRows /\ MaxRows \in Nat /\ r \in Nat
    BY MvccAssumption DEF MvccInv, MvccTypeOK, Row
  <2>2. r >= count \/ r < count
    BY <2>1
  <2>3. r >= count => ~(r < count)
    BY <2>1
  <2>4. ~(r >= count)
    BY <2>3, Zenon DEF Matches, Scan, ReadRow
  <2> QED BY <2>1, <2>2, <2>4, Zenon
<1>2. id \in Row /\ id < count
  <2>1. STORAGE_CHUNK_SIZE \in Nat \ {0}
    BY MvccAssumption, Zenon
  <2>2. id = r \/ id = r % STORAGE_CHUNK_SIZE
    BY Zenon DEF ReportedRowId
  <2>3. id \in Nat /\ id <= r
    BY <2>1, <2>2, <1>1, OffsetBelow
  <2> QED BY <2>3, <1>1 DEF Row
<1>3. ASSUME id = r, ~Stale(t, r) PROVE ~deleted[r]
  <2>1. version_pointers[r] = <<>> \/
          VersionVisible(version_pointers[r][1], transaction_id[t], start_time[t])
    <3> SUFFICES ASSUME version_pointers[r] # <<>>
                 PROVE  VersionVisible(version_pointers[r][1], transaction_id[t], start_time[t])
      BY Zenon
    <3>1. version_pointers[r] \in Seq(Txn \X Nat)
      BY Zenon DEF MvccInv, MvccTypeOK
    <3>2. /\ Head(version_pointers[r]) = version_pointers[r][1] /\ 1 \in Positions(r)
          /\ version_pointers[r][1] \in Txn \X Nat
      BY <3>1 DEF Positions
    <3>3. PICK p \in Txn \X Nat : p = version_pointers[r][1]
      BY <3>2, Zenon
    <3>4. LeadsTo(p, r)
      <4>1. r \in Row \ raced /\ Pointers
        BY Zenon DEF Matches, MvccInv
      <4> QED BY <4>1, <3>2, <3>3, Zenon DEF Pointers
    <3>5. VersionNumber(p) \in Nat
      <4>1. undo[p[1]] \in Seq(UndoEntry) /\ p[2] \in 1..Len(undo[p[1]])
        BY <3>3, <3>4, Zenon DEF MvccInv, MvccTypeOK, LeadsTo
      <4>2. undo[p[1]][p[2]] \in UndoEntry
        BY <4>1
      <4> QED BY <4>2, Zenon DEF VersionNumber, Entry, UndoEntry
    <3>6. start_time[t] \in Nat /\ TRANSACTION_ID_START \in Nat
      BY ConstantsAssumption, Zenon DEF Manager, TMTypeOK
    <3>7. ~(VersionNumber(p) >= TRANSACTION_ID_START /\ VersionNumber(p) # transaction_id[t])
      BY <3>2, <3>3, <1>3, Zenon DEF Conflict
    <3>8. VersionNumber(p) \notin start_time[t]..(TRANSACTION_ID_START - 1)
      BY <3>2, <3>3, <1>3, Zenon DEF Stale
    <3>9. VersionNumber(p) = transaction_id[t] \/ VersionNumber(p) < start_time[t]
      BY <3>5, <3>6, <3>7, <3>8
    <3> QED BY <3>3, <3>9, Zenon DEF VersionVisible
  <2>2. ChainDepth(transaction_id[t], start_time[t], r) = 0
    BY <2>1, ReadsTable, Zenon
  <2>3. r < count /\ ~(r >= count)
    BY <1>1, Zenon
  <2> QED BY <2>2, <2>3, Zenon DEF Matches, Scan, ReadRow
<1> QED BY <1>2, <1>3, Zenon DEF Found

-----------------------------------------------------------------------------
(* What a rollback leaves.                                                  *)

\* The versions of t on top of a chain are the first a, those of them with a tuple
\* the first d: all but the oldest, if it has none.
UndoneAt(t, r, a, d) ==
  /\ a \in Nat /\ d \in Nat /\ a <= Len(version_pointers[r])
  /\ OnTop(t, r) = 1..a /\ WithData(t, r) = 1..d /\ Cardinality(WithData(t, r)) = d
  /\ \/ d = a
     \/ /\ a = Len(version_pointers[r]) /\ a # 0 /\ d = a - 1
        /\ Entry(version_pointers[r][a]).tuple_data = Absent

\* There are such a and d.
LEMMA UndoneShape ==
  ASSUME OwnEntries, NEW t \in active_transactions, NEW r \in Row, version_pointers[r] \in Chain
  PROVE  \E a, d : UndoneAt(t, r, a, d)
<1>n. PICK n \in Nat : n = Len(version_pointers[r])
  BY DEF Chain
<1>0. \A i \in OnTop(t, r) : Entry(version_pointers[r][i]).tuple_data = Absent => i = n
  <2>1. \A i \in OnTop(t, r) : i \in Positions(r) /\ Writer(r, i) \in active_transactions
    BY <1>n DEF OnTop, Positions, Writer
  <2> QED BY <2>1, <1>n, Zenon DEF OwnEntries, OwnEntry
<1>1. n \in Nat
  BY Zenon
<1>2. PICK S \in SUBSET (1..n) : S = OnTop(t, r)
  BY <1>n, Zenon DEF OnTop
<1>3. \A i \in S : \A j \in 1..i : j \in S
  BY <1>n, <1>2 DEF OnTop
<1>4. Cardinality(S) \in 0..n /\ S = 1..Cardinality(S)
  BY <1>1, <1>3, PrefixIsInterval, Zenon
<1>5. PICK a \in Nat : a <= n /\ S = 1..a
  BY <1>1, <1>4
<1>6. PICK D \in SUBSET (1..n) : D = WithData(t, r)
  BY <1>2, Zenon DEF WithData
<1>7. \A i \in 1..n : i \in D <=> i \in S /\ (i = n => Entry(version_pointers[r][n]).tuple_data # Absent)
  BY <1>0, <1>2, <1>6, Zenon DEF WithData
<1>8. ASSUME NEW i \in D, NEW j \in 1..i PROVE j \in D
  <2>1. i \in 1..n /\ j \in 1..n /\ (j = n => i = n)
    BY <1>1
  <2>2. i \in S /\ (i = n => Entry(version_pointers[r][n]).tuple_data # Absent)
    BY <2>1, <1>7, Zenon
  <2>3. j \in S
    BY <2>2, <1>3, Zenon
  <2> QED BY <2>1, <2>2, <2>3, <1>7, Zenon
<1>9. Cardinality(D) \in 0..n /\ D = 1..Cardinality(D)
  BY <1>1, <1>8, PrefixIsInterval, Zenon
<1>10. PICK d \in Nat : d <= n /\ D = 1..d /\ Cardinality(D) = d
  BY <1>1, <1>9
<1>11. \/ d = a
       \/ a = n /\ a # 0 /\ d = a - 1 /\ Entry(version_pointers[r][a]).tuple_data = Absent
  <2>1. CASE a < n \/ Entry(version_pointers[r][n]).tuple_data # Absent
    <3>1. \A i \in 1..n : i \in D <=> i \in S
      BY <2>1, <1>1, <1>5, <1>7
    <3>2. 1..d = 1..a
      BY <3>1, <1>1, <1>5, <1>10, Zenon
    <3> QED BY <3>2
  <2>2. CASE a = n /\ Entry(version_pointers[r][n]).tuple_data = Absent
    <3>1. CASE n = 0
      BY <2>2, <3>1, <1>10
    <3>2. CASE n # 0
      <4>1. \A i \in 1..n : i \in D <=> i <= n - 1
        BY <2>2, <1>1, <1>5, <1>7
      <4>2. 1..d = 1..(n - 1) /\ n - 1 \in Nat
        BY <4>1, <3>2, <1>1, <1>10
      <4> QED BY <4>2, <3>2, <2>2
    <3> QED BY <3>1, <3>2, Zenon
  <2> QED BY <2>1, <2>2, <1>1, <1>5
<1>12. UndoneAt(t, r, a, d)
  BY <1>n, <1>2, <1>5, <1>6, <1>10, <1>11, Zenon DEF UndoneAt
<1> QED BY <1>12, Zenon

\* The table gets the tuple of the oldest version of t on top.
LEMMA UndoneRow ==
  ASSUME MvccTypeOK, OwnEntries, Unborn, NEW t \in active_transactions, NEW r \in Row,
         base'[r] = UndoneBase(t, r), deleted'[r] = UndoneDeleted(t, r), count' = count
  PROVE  /\ base'[r] \in Stored /\ deleted'[r] \in BOOLEAN
         /\ version_pointers[r] = <<>> => deleted'[r] = deleted[r]
         /\ \E a \in Nat : /\ a <= Len(version_pointers[r]) /\ OnTop(t, r) = 1..a
                           /\ State(r, 0)' = State(r, a)
<1>1. /\ version_pointers[r] \in Chain /\ base[r] \in Stored /\ deleted[r] \in BOOLEAN
      /\ count \in Nat /\ r \in Nat
  BY MvccAssumption DEF MvccTypeOK, Chain, Row
<1>2. PICK n \in Nat : n = Len(version_pointers[r])
  BY <1>1 DEF Chain
<1>3. PICK a, d : UndoneAt(t, r, a, d)
  BY <1>1, UndoneShape, Zenon
<1>4. /\ a \in Nat /\ d \in Nat
      /\ a <= n /\ OnTop(t, r) = 1..a /\ WithData(t, r) = 1..d /\ Cardinality(WithData(t, r)) = d
      /\ \/ d = a
         \/ a = n /\ a # 0 /\ d = a - 1 /\ Entry(version_pointers[r][a]).tuple_data = Absent
  BY <1>2, <1>3, Zenon DEF UndoneAt
<1>5. /\ base'[r] = IF d = 0 THEN base[r] ELSE Entry(version_pointers[r][d]).tuple_data
      /\ deleted'[r] = IF a = 0 THEN deleted[r] ELSE d # a
  <2>1. a \in Nat /\ d \in Nat
    BY <1>4, Zenon
  <2>2. 1..d = {} <=> d = 0
    BY <2>1
  <2>3. 1..a = {} <=> a = 0
    BY <2>1
  <2>4. 1..d = 1..a <=> d = a
    BY <2>1
  <2>5. /\ base'[r] = IF 1..d = {} THEN base[r] ELSE Entry(version_pointers[r][d]).tuple_data
        /\ deleted'[r] = IF 1..a = {} THEN deleted[r] ELSE 1..d # 1..a
    BY <1>4, Zenon DEF UndoneBase, UndoneDeleted
  <2> QED BY <2>2, <2>3, <2>4, <2>5, Zenon
<1>6. a # 0 => ~(r >= count)
  <2>1. version_pointers[r] = <<>> => n = 0
    BY <1>2, Zenon
  <2> QED BY <2>1, <1>4 DEF Unborn
<1>7. ASSUME NEW i \in 1..a PROVE Entry(version_pointers[r][i]).tuple_data \in Stored \cup {Absent}
  <2>0. i \in 1..n
    BY <1>4
  <2>1. PICK p \in Txn \X Nat : p = version_pointers[r][i]
    BY <2>0, <1>1, <1>2 DEF Chain
  <2>2. p[1] \in active_transactions
    <3>1. i \in 1..i /\ i \in OnTop(t, r)
      BY <1>4
    <3> QED BY <2>1, <3>1, Zenon DEF OnTop
  <2>3. undo[p[1]] \in Seq(UndoEntry) /\ p[2] \in 1..Len(undo[p[1]])
    BY <2>0, <2>1, <2>2, <1>2, Zenon DEF MvccTypeOK, OwnEntries, OwnEntry, Positions, Writer
  <2>4. undo[p[1]][p[2]] \in UndoEntry
    BY <2>3
  <2> QED BY <2>1, <2>4, Zenon DEF Entry, UndoEntry
<1>8. d # 0 => d \in 1..a /\ d \in WithData(t, r)
  BY <1>4
<1>9. base'[r] \in Stored
  BY <1>1, <1>5, <1>7, <1>8, Zenon DEF WithData
<1>10. version_pointers[r] = <<>> => deleted'[r] = deleted[r]
  BY <1>2, <1>4, <1>5
<1>11. State(r, 0)' = State(r, a)
  <2>1. CASE a = 0
    BY <2>1, <1>4, <1>5, Zenon DEF State
  <2>2. CASE a # 0 /\ d = a
    <3>1. ~deleted'[r] /\ base'[r] = Entry(version_pointers[r][a]).tuple_data
      BY <2>2, <1>5, Zenon
    <3> QED BY <3>1, <2>2, <1>6, Zenon DEF State
  <2>3. CASE a # 0 /\ d # a
    <3>1. deleted'[r] /\ Entry(version_pointers[r][a]).tuple_data = Absent
      BY <2>3, <1>4, <1>5, Zenon
    <3> QED BY <3>1, <2>3, Zenon DEF State
  <2> QED BY <2>1, <2>2, <2>3, Zenon
<1>12. deleted'[r] \in BOOLEAN
  BY <1>1, <1>5, Zenon
<1> QED BY <1>2, <1>4, <1>9, <1>10, <1>11, <1>12, Zenon

-----------------------------------------------------------------------------
(* What a scan reads.                                                       *)

\* A reader goes down the chain to the first version that it may see.
LEMMA DepthShape ==
  ASSUME NEW id, NEW start, NEW r, version_pointers[r] \in Chain,
         NEW n, n = Len(version_pointers[r])
  PROVE  \E k \in Nat :
           /\ k <= n /\ ChainDepth(id, start, r) = k
           /\ \A i \in 1..k : ~VersionVisible(version_pointers[r][i], id, start)
           /\ k < n => VersionVisible(version_pointers[r][k + 1], id, start)
<1>1. n \in Nat
  BY DEF Chain
<1>2. PICK S \in SUBSET (1..n) :
        S = {i \in 1..Len(version_pointers[r]) :
               \A j \in 1..i : ~VersionVisible(version_pointers[r][j], id, start)}
  BY Zenon
<1>3. \A i \in S : \A j \in 1..i : j \in S
  BY <1>1, <1>2
<1>4. Cardinality(S) \in 0..n /\ S = 1..Cardinality(S)
  BY <1>1, <1>3, PrefixIsInterval, Zenon
<1>d. ChainDepth(id, start, r) = Cardinality(S)
  BY <1>2, Zenon DEF ChainDepth
<1>5. PICK k \in Nat : k <= n /\ S = 1..k /\ ChainDepth(id, start, r) = k
  BY <1>1, <1>4, <1>d
<1>6. \A i \in 1..k : ~VersionVisible(version_pointers[r][i], id, start)
  BY <1>2, <1>5
<1>7. k < n => VersionVisible(version_pointers[r][k + 1], id, start)
  <2>1. k < n => k + 1 \in 1..n /\ k + 1 \notin 1..k /\ \A j \in 1..(k + 1) : j \in 1..k \/ j = k + 1
    BY <1>1
  <2> QED BY <2>1, <1>2, <1>5, <1>6, Zenon
<1> QED BY <1>5, <1>6, <1>7, Zenon

\* Committed before s, with a write to r: one of these has the last say.
WroteBefore(u, r, s) ==
  HasCommitted(u) /\ commit_id[u] < s /\ mine[u][r] # NoWrite

\* The one that committed last has the last say.
LEMMA LastSays ==
  ASSUME TMTypeOK, CommitsDiffer, NEW r \in Row, NEW s, NEW u \in Txn, WroteBefore(u, r, s),
         \A w \in Txn : WroteBefore(w, r, s) => commit_id[w] <= commit_id[u]
  PROVE  CommittedBefore(r, s) = mine[u][r]
<1> DEFINE writers == {w \in Txn : HasCommitted(w) /\ commit_id[w] < s /\ mine[w][r] # NoWrite}
           last(x) == \A w \in writers : commit_id[w] <= commit_id[x]
<1>1. u \in writers /\ last(u)
  BY Zenon DEF WroteBefore
<1>2. ASSUME NEW x \in writers, last(x) PROVE x = u
  <2>1. x \in Txn /\ HasCommitted(x) /\ HasCommitted(u) /\ Writes(x) /\ Writes(u)
    BY <1>1, Zenon DEF Writes
  <2>2. commit_id[u] <= commit_id[x] /\ commit_id[x] <= commit_id[u]
    BY <1>1, <1>2, Zenon
  <2>3. commit_id[x] = commit_id[u]
    BY <2>1, <2>2 DEF TMTypeOK
  <2> QED BY <2>1, <2>3, Zenon DEF CommitsDiffer
<1>3. PICK x : x = CHOOSE y \in writers : last(y)
  BY Zenon
<1>4. x \in writers /\ last(x)
  BY <1>1, <1>3, Zenon
<1>5. x = u
  BY <1>2, <1>4, Zenon
<1>6. CommittedBefore(r, s) = mine[x][r]
  BY <1>1, <1>3, Zenon DEF CommittedBefore
<1> QED BY <1>5, <1>6, Zenon

\* Who committed a write to r has a version in its chain, or had one.
LEMMA CommittedWriters ==
  ASSUME Manager, MvccInv, NEW r \in Row \ tainted, NEW u \in Txn, NEW s, WroteBefore(u, r, s)
  PROVE  /\ u \notin active_transactions
         /\ u \in Retired(r) \/ \E i \in Positions(r) : Writer(r, i) = u
<1>1. u \in Started \ active_transactions /\ commit_id[u] # 0 /\ mine[u][r] # NoWrite
  BY Zenon DEF WroteBefore, HasCommitted
<1>2. u \in Elems(recently_committed_transactions) \/ u \in Elems(old_transactions) \cup freed
  BY <1>1, Zenon DEF Started
<1>3. u \in Elems(recently_committed_transactions) => \E i \in Positions(r) : Writer(r, i) = u
  <2>1. r \in Row \ raced /\ WritesLinked
    BY Zenon DEF MvccInv, MvccTypeOK
  <2> QED BY <2>1, <1>1, Zenon DEF WritesLinked, InUse
<1>4. u \in Elems(old_transactions) \cup freed => u \in Retired(r)
  BY <1>1, Zenon DEF Retired, CleanedUp
<1> QED BY <1>1, <1>2, <1>3, <1>4, Zenon

\* The writer of a version, and its number.
LEMMA VersionFacts ==
  ASSUME Manager, MvccInv, NEW r \in Row \ tainted, NEW i \in Positions(r)
  PROVE  /\ Writer(r, i) \in Txn /\ mine[Writer(r, i)][r] # NoWrite
         /\ VersionNumber(version_pointers[r][i]) = Number(r, i) /\ Number(r, i) \in Nat
         /\ Writer(r, i) \in active_transactions =>
              Number(r, i) = transaction_id[Writer(r, i)] /\ Number(r, i) >= TRANSACTION_ID_START
         /\ Writer(r, i) \notin active_transactions =>
              /\ Number(r, i) = commit_id[Writer(r, i)] /\ Number(r, i) < TRANSACTION_ID_START
              /\ HasCommitted(Writer(r, i))
<1>1. version_pointers[r] \in Chain
  BY Zenon DEF MvccInv, MvccTypeOK, Chain
<1>2. PICK p \in Txn \X Nat : p = version_pointers[r][i]
  BY <1>1 DEF Positions, Chain
<1>3. LeadsTo(p, r)
  <2>1. r \in Row \ raced /\ Pointers
    BY Zenon DEF MvccInv, MvccTypeOK
  <2> QED BY <2>1, <1>2, Zenon DEF Pointers
<1>4. Ordered(r)
  BY Zenon DEF MvccInv
<1>5. PICK u \in Txn : u = Writer(r, i) /\ u = p[1]
  BY <1>2, Zenon DEF Writer
<1>6. mine[u][r] # NoWrite
  BY <1>3, <1>5, Zenon DEF LeadsTo
<1>7. VersionNumber(version_pointers[r][i]) = Number(r, i)
  BY <1>4, Zenon DEF Ordered
<1>8. u \in active_transactions =>
        /\ Number(r, i) = transaction_id[u] /\ Number(r, i) \in Nat
        /\ Number(r, i) >= TRANSACTION_ID_START
  BY <1>5, ConstantsAssumption, Zenon DEF Number, Manager, TMTypeOK, Stamps
<1>9. u \notin active_transactions =>
        /\ Number(r, i) = commit_id[u] /\ Number(r, i) \in Nat
        /\ Number(r, i) < TRANSACTION_ID_START
  <2>1. u \notin active_transactions => commit_id[u] < TRANSACTION_ID_START
    BY <1>4, <1>5, Zenon DEF Ordered
  <2> QED BY <2>1, <1>5, Zenon DEF Number, Manager, TMTypeOK
<1>10. u \notin active_transactions => HasCommitted(u)
  BY <1>6, Zenon DEF MvccInv, WritersKnown
<1> QED BY <1>5, <1>6, <1>7, <1>8, <1>9, <1>10

\* id and start are those of a reader who has not written r.
Reader(id, start, r) ==
  /\ id \in Nat /\ id >= TRANSACTION_ID_START
  /\ start \in Nat /\ start <= TRANSACTION_ID_START
  /\ \A u \in CleanedUp : commit_id[u] < start
  /\ \A u \in active_transactions : transaction_id[u] = id => mine[u][r] = NoWrite

\* Such a reader may see the versions committed before it started.
LEMMA WhatReaderSees ==
  ASSUME Manager, MvccInv, NEW r \in Row \ tainted, NEW id, NEW start, Reader(id, start, r),
         NEW i \in Positions(r)
  PROVE  VersionVisible(version_pointers[r][i], id, start)
           <=> Writer(r, i) \notin active_transactions /\ commit_id[Writer(r, i)] < start
<1>1. PICK u : u = Writer(r, i)
  BY Zenon
<1>2. PICK x : x = Number(r, i)
  BY Zenon
<1>3. /\ mine[u][r] # NoWrite
      /\ VersionNumber(version_pointers[r][i]) = x /\ x \in Nat
      /\ u \in active_transactions => x = transaction_id[u] /\ x >= TRANSACTION_ID_START
      /\ u \notin active_transactions => x = commit_id[u] /\ x < TRANSACTION_ID_START
  BY <1>1, <1>2, VersionFacts, Zenon
<1>4. u \in active_transactions => x # id
  BY <1>3, Zenon DEF Reader
<1>5. VersionVisible(version_pointers[r][i], id, start) <=> x = id \/ x < start
  BY <1>3, Zenon DEF VersionVisible
<1>6. /\ id \in Nat /\ id >= TRANSACTION_ID_START /\ start \in Nat /\ start <= TRANSACTION_ID_START
      /\ TRANSACTION_ID_START \in Nat
  BY ConstantsAssumption, Zenon DEF Reader
<1> QED BY <1>1, <1>3, <1>4, <1>5, <1>6

\* The reader who follows the chain of r reads what was committed before.
LEMMA ReadsCommitted ==
  ASSUME Manager, MvccInv, NEW r \in Row \ tainted, NEW id, NEW start, Reader(id, start, r)
  PROVE  /\ FromStorage(State(r, ChainDepth(id, start, r))) = CommittedBefore(r, start)
         /\ CommittedBefore(r, start) \in Val \cup {Absent}
<1>0. \A u \in Txn : mine[u][r] # NoWrite => mine[u][r] \in Val \cup {Absent}
  BY DEF MvccInv, MvccTypeOK
<1>1. version_pointers[r] \in Chain /\ Ordered(r) /\ Recorded(r) /\ CommitsDiffer /\ TMTypeOK
  BY Zenon DEF MvccInv, MvccTypeOK, Chain, Manager
<1>n. PICK n \in Nat : n = Len(version_pointers[r])
  BY <1>1 DEF Chain
<1>2. PICK k \in Nat :
        /\ k <= n /\ ChainDepth(id, start, r) = k
        /\ \A i \in 1..k : ~VersionVisible(version_pointers[r][i], id, start)
        /\ k < n => VersionVisible(version_pointers[r][k + 1], id, start)
  BY <1>1, <1>n, DepthShape, Zenon
<1>3. Positions(r) = 1..n
  BY <1>n, Zenon DEF Positions
<1>4. \A i \in 1..n : VersionVisible(version_pointers[r][i], id, start)
        <=> Writer(r, i) \notin active_transactions /\ commit_id[Writer(r, i)] < start
  BY <1>3, WhatReaderSees, Zenon
<1>5. ASSUME NEW u \in Txn, WroteBefore(u, r, start)
      PROVE  u \in Retired(r) \/ \E i \in 1..n : k < i /\ Writer(r, i) = u
  <2>1. /\ u \notin active_transactions /\ commit_id[u] < start
        /\ u \in Retired(r) \/ \E i \in 1..n : Writer(r, i) = u
    BY <1>3, <1>5, CommittedWriters, Zenon DEF WroteBefore
  <2>2. \A i \in 1..n : Writer(r, i) = u => i \notin 1..k
    BY <2>1, <1>2, <1>4, Zenon
  <2> QED BY <2>1, <2>2, <1>2
<1>6. ASSUME NEW u \in Retired(r) PROVE u \in Txn /\ WroteBefore(u, r, start)
  <2>1. u \in Elems(old_transactions) \cup freed /\ commit_id[u] # 0 /\ mine[u][r] # NoWrite
    BY Zenon DEF Retired, CleanedUp
  <2>2. u \in Started \ active_transactions
    BY <2>1, Zenon DEF Started, Manager, OwnedOnce
  <2>3. u \in Txn
    <3>1. Elems(old_transactions) \subseteq Txn
      BY <1>1 DEF TMTypeOK, Elems
    <3> QED BY <2>1, <3>1, <1>1, Zenon DEF TMTypeOK
  <2>4. commit_id[u] < start
    BY Zenon DEF Retired, Reader
  <2> QED BY <2>1, <2>2, <2>3, <2>4, Zenon DEF WroteBefore, HasCommitted
<1>7. CASE k = n
  <2>1. \A u \in Txn : WroteBefore(u, r, start) => u \in Retired(r)
    BY <1>5, <1>7
  <2>2. CASE Retired(r) = {} /\ FromStorage(State(r, n)) = Absent
    <3>1. {u \in Txn : HasCommitted(u) /\ commit_id[u] < start /\ mine[u][r] # NoWrite} = {}
      BY <2>1, <2>2, Zenon DEF WroteBefore
    <3>2. CommittedBefore(r, start) = Absent
      BY <3>1, Zenon DEF CommittedBefore
    <3> QED BY <3>2, <2>2, <1>2, <1>7, Zenon
  <2>3. ASSUME NEW u \in Retired(r), FromStorage(State(r, n)) = mine[u][r],
               \A w \in Retired(r) : commit_id[w] <= commit_id[u]
        PROVE  /\ FromStorage(State(r, n)) = CommittedBefore(r, start)
               /\ CommittedBefore(r, start) \in Val \cup {Absent}
    <3>1. u \in Txn /\ WroteBefore(u, r, start)
      BY <1>6, Zenon
    <3>2. \A w \in Txn : WroteBefore(w, r, start) => commit_id[w] <= commit_id[u]
      BY <2>1, <2>3, Zenon
    <3>3. CommittedBefore(r, start) = mine[u][r]
      BY <3>1, <3>2, <1>1, LastSays, Zenon
    <3> QED BY <3>1, <3>3, <2>3, <1>0, Zenon DEF WroteBefore
  <2>4. \/ Retired(r) = {} /\ FromStorage(State(r, n)) = Absent
        \/ \E u \in Retired(r) : /\ FromStorage(State(r, n)) = mine[u][r]
                                 /\ \A w \in Retired(r) : commit_id[w] <= commit_id[u]
    BY <1>1, <1>n, Zenon DEF Recorded
  <2>5. /\ FromStorage(State(r, n)) = CommittedBefore(r, start)
        /\ CommittedBefore(r, start) \in Val \cup {Absent}
    BY <2>2, <2>3, <2>4, <1>2, <1>7, Zenon
  <2> QED BY <2>5, <1>2, <1>7, Zenon
<1>8. CASE k < n
  <2>k. k + 1 \in 1..n /\ k + 1 \in Positions(r) /\ (k + 1) - 1 = k
    BY <1>8, <1>3
  <2>1. PICK x : x = Writer(r, k + 1)
    BY Zenon
  <2>2. /\ x \notin active_transactions /\ commit_id[x] < start
        /\ x \in Txn /\ mine[x][r] # NoWrite /\ HasCommitted(x)
    BY <2>k, <2>1, <1>2, <1>4, <1>8, VersionFacts, Zenon
  <2>3. WroteBefore(x, r, start)
    BY <2>2, Zenon DEF WroteBefore
  <2>4. ASSUME NEW u \in Txn, WroteBefore(u, r, start) PROVE commit_id[u] <= commit_id[x]
    <3>t. commit_id[u] \in Nat /\ commit_id[x] \in Nat
      BY <2>2, <1>1, Zenon DEF TMTypeOK
    <3>1. CASE u \in Retired(r)
      <4>1. commit_id[u] < commit_id[x]
        BY <3>1, <2>k, <2>1, <2>2, <1>1, Zenon DEF Ordered
      <4> QED BY <4>1, <3>t
    <3>2. ASSUME NEW i \in 1..n, k < i, Writer(r, i) = u PROVE commit_id[u] <= commit_id[x]
      <4>1. CASE i = k + 1
        BY <4>1, <3>2, <3>t, <2>1
      <4>2. CASE k + 1 < i
        <5>1. u = x \/ Number(r, k + 1) > Number(r, i)
          BY <4>2, <3>2, <2>k, <2>1, <1>1, <1>3, Zenon DEF Ordered
        <5>2. u \notin active_transactions
          BY <2>4, Zenon DEF WroteBefore, HasCommitted
        <5>3. Number(r, k + 1) = commit_id[x] /\ Number(r, i) = commit_id[u]
          BY <5>2, <3>2, <2>1, <2>2, Zenon DEF Number
        <5> QED BY <5>1, <5>3, <3>t
      <4> QED BY <4>1, <4>2, <3>2
    <3> QED BY <3>1, <3>2, <2>4, <1>5, Zenon
  <2>5. CommittedBefore(r, start) = mine[x][r]
    BY <2>2, <2>3, <2>4, <1>1, LastSays, Zenon
  <2>6. Newest(r, k + 1)
    <3>1. k = 0 \/ (k \in 1..k /\ k \in 1..n)
      BY <1>2
    <3>2. k # 0 => Writer(r, k) # x
      BY <3>1, <2>2, <1>2, <1>4, Zenon
    <3> QED BY <3>2, <2>k, <2>1 DEF Newest
  <2>7. FromStorage(State(r, k)) = mine[x][r]
    BY <2>6, <2>k, <2>1, <1>1, Zenon DEF Recorded
  <2> QED BY <2>2, <2>5, <2>7, <1>0, <1>2, Zenon
<1> QED BY <1>2, <1>7, <1>8

\* Who has written r has its own version on top, and reads the table.
LEMMA ReadsOwnWrite ==
  ASSUME Manager, MvccInv, NEW r \in Row \ tainted, NEW t \in active_transactions,
         mine[t][r] # NoWrite
  PROVE  /\ FromStorage(State(r, ChainDepth(transaction_id[t], start_time[t], r))) = mine[t][r]
         /\ mine[t][r] \in Val \cup {Absent}
<1>1. Ordered(r) /\ Recorded(r)
  BY Zenon DEF MvccInv
<1>2. PICK j \in Positions(r) : Writer(r, j) = t
  <2>1. r \in Row \ raced /\ WritesLinked /\ t \in InUse
    BY Zenon DEF MvccInv, MvccTypeOK, InUse
  <2> QED BY <2>1, Zenon DEF WritesLinked
<1>3. 1 \in Positions(r) /\ (j = 1 \/ 1 < j)
  BY <1>2 DEF Positions
<1>4. Number(r, j) = transaction_id[t] /\ Number(r, j) >= TRANSACTION_ID_START /\ Number(r, j) \in Nat
  BY <1>2, VersionFacts, Zenon
<1>5. /\ Number(r, 1) \in Nat /\ VersionNumber(version_pointers[r][1]) = Number(r, 1)
      /\ Writer(r, 1) \notin active_transactions => Number(r, 1) < TRANSACTION_ID_START
  BY <1>3, VersionFacts, Zenon
<1>6. Writer(r, 1) = t
  <2>1. 1 < j => Number(r, 1) > Number(r, j) \/ Writer(r, 1) = Writer(r, j)
    BY <1>1, <1>2, <1>3, Zenon DEF Ordered
  <2>2. Writer(r, 1) \in active_transactions => Writer(r, 1) = Writer(r, j)
    BY <1>1, <1>2, <1>3, Zenon DEF Ordered
  <2>3. TRANSACTION_ID_START \in Nat
    BY ConstantsAssumption, Zenon
  <2> QED BY <2>1, <2>2, <2>3, <1>2, <1>3, <1>4, <1>5
<1>7. VersionNumber(version_pointers[r][1]) = transaction_id[t]
  BY <1>5, <1>6, Zenon DEF Number
<1>8. ChainDepth(transaction_id[t], start_time[t], r) = 0
  <2>1. VersionVisible(version_pointers[r][1], transaction_id[t], start_time[t])
    BY <1>7, Zenon DEF VersionVisible
  <2> QED BY <2>1, ReadsTable, Zenon
<1>9. FromStorage(State(r, 0)) = mine[t][r]
  <2>1. Newest(r, 1) /\ 1 - 1 = 0
    BY DEF Newest
  <2> QED BY <2>1, <1>1, <1>3, <1>6, Zenon DEF Recorded
<1>10. mine[t][r] \in Val \cup {Absent}
  <2>1. t \in Txn
    BY Zenon DEF Manager, TMTypeOK
  <2> QED BY <2>1 DEF MvccInv, MvccTypeOK
<1> QED BY <1>8, <1>9, <1>10, Zenon

\* A scan converts what it reads from the table and copies what it reads from a
\* version, so that it returns v, or the representation of NULL in storage.
LEMMA ReadsValue ==
  ASSUME MvccInv, NEW r \in Row, NEW id, NEW start, NEW v \in Val \cup {Absent},
         FromStorage(State(r, ChainDepth(id, start, r))) = v
  PROVE  ReadAs(ReadRow(id, start, r), v)
<1>k. PICK k : k = ChainDepth(id, start, r)
  BY Zenon
<1>1. r >= count => version_pointers[r] = <<>> /\ k = 0
  BY <1>k, ReadsTable, Zenon DEF MvccInv, Unborn
<1>2. ReadRow(id, start, r) = IF k = 0 THEN FromStorage(State(r, 0)) ELSE State(r, k)
  <2>1. (r >= count /\ ~(r < count)) \/ (~(r >= count) /\ r < count)
    <3>1. count \in Int /\ r \in Int
      BY MvccAssumption DEF MvccInv, MvccTypeOK, Row
    <3> QED BY <3>1
  <2>2. FromStorage(Absent) = Absent
    BY MvccAssumption, Zenon DEF FromStorage
  <2>3. CASE r >= count /\ ~(r < count)
    BY <2>2, <2>3, <1>1, <1>k, Zenon DEF ReadRow, State
  <2>4. CASE ~(r >= count) /\ r < count /\ k = 0
    BY <2>2, <2>4, <1>k, Zenon DEF ReadRow, State
  <2>5. CASE ~(r >= count) /\ r < count /\ k # 0
    BY <2>5, <1>k, Zenon DEF ReadRow, State
  <2> QED BY <2>1, <2>3, <2>4, <2>5, Zenon
<1> QED BY <1>2, <1>k, Zenon DEF ReadAs, FromStorage

\* What a snapshot read returns.
LEMMA SnapshotRead ==
  ASSUME Manager, MvccInv
  PROVE  /\ SnapshotReadsUpToNull
         /\ NULL \notin Val => SnapshotReads
<1>1. ASSUME NEW t \in active_transactions, NEW r \in Row \ tainted
      PROVE  /\ ReadAs(Scan(t, r), Snapshot(t, r))
             /\ Snapshot(t, r) \in Val \cup {Absent}
  <2>1. CASE mine[t][r] # NoWrite
    <3>1. /\ FromStorage(State(r, ChainDepth(transaction_id[t], start_time[t], r))) = Snapshot(t, r)
          /\ Snapshot(t, r) \in Val \cup {Absent}
      BY <2>1, ReadsOwnWrite, Zenon DEF Snapshot
    <3> QED BY <3>1, ReadsValue, Zenon DEF Scan
  <2>2. CASE mine[t][r] = NoWrite
    <3>1. Reader(transaction_id[t], start_time[t], r)
      <4>1. /\ transaction_id[t] \in Nat /\ transaction_id[t] >= TRANSACTION_ID_START
            /\ start_time[t] \in Nat /\ start_time[t] <= TRANSACTION_ID_START
        BY ConstantsAssumption DEF Manager, TMTypeOK, Stamps
      <4>2. \A u \in CleanedUp : commit_id[u] < start_time[t]
        BY Zenon DEF Manager, CleanupSafe
      <4>3. \A u \in active_transactions : transaction_id[u] = transaction_id[t] => u = t
        BY Zenon DEF Manager, Stamps
      <4> QED BY <4>1, <4>2, <4>3, <2>2, Zenon DEF Reader
    <3>2. /\ FromStorage(State(r, ChainDepth(transaction_id[t], start_time[t], r))) = Snapshot(t, r)
          /\ Snapshot(t, r) \in Val \cup {Absent}
      BY <3>1, <2>2, ReadsCommitted, Zenon DEF Snapshot
    <3> QED BY <3>2, ReadsValue, Zenon DEF Scan
  <2> QED BY <2>1, <2>2, Zenon
<1>2. SnapshotReadsUpToNull
  BY <1>1, Zenon DEF SnapshotReadsUpToNull
<1>3. ASSUME NULL \notin Val PROVE SnapshotReads
  <2>1. \A v \in Val \cup {Absent} : v # NULL
    BY <1>3, MvccAssumption, Zenon
  <2>2. \A t \in active_transactions, r \in Row \ tainted : Scan(t, r) = Snapshot(t, r)
    BY <1>1, <2>1, Zenon DEF ReadAs
  <2> QED BY <2>2, Zenon DEF SnapshotReads, Snapshot
<1> QED BY <1>2, <1>3, Zenon

\* What a transaction that starts now would read.
LEMMA LatestRead ==
  ASSUME Manager, MvccInv
  PROVE  /\ LatestCommittedUpToNull
         /\ NULL \notin Val => LatestCommittedRead
<1>1. ASSUME NEW r \in Row \ tainted, current_start_timestamp < TRANSACTION_ID_START
      PROVE  /\ ReadAs(FreshScan(r), CommittedBefore(r, current_start_timestamp))
             /\ CommittedBefore(r, current_start_timestamp) \in Val \cup {Absent}
  <2>1. Reader(current_transaction_id, current_start_timestamp, r)
    <3>1. /\ current_transaction_id \in Nat /\ current_transaction_id >= TRANSACTION_ID_START
          /\ current_start_timestamp \in Nat /\ current_start_timestamp <= TRANSACTION_ID_START
      BY <1>1, ConstantsAssumption DEF Manager, TMTypeOK, Stamps
    <3>2. \A u \in CleanedUp : commit_id[u] < current_start_timestamp
      <4>1. CleanedUp \subseteq Txn
        <5>1. old_transactions \in Seq(Txn)
          BY Zenon DEF Manager, TMTypeOK
        <5>2. Elems(old_transactions) \subseteq Txn
          BY <5>1 DEF Elems
        <5> QED BY <5>2, Zenon DEF Manager, TMTypeOK, CleanedUp
      <4> QED BY <4>1, Zenon DEF CleanedUp, Manager, Stamps
    <3>3. \A u \in active_transactions : transaction_id[u] # current_transaction_id
      BY DEF Manager, TMTypeOK, Stamps
    <3> QED BY <3>1, <3>2, <3>3, Zenon DEF Reader
  <2>2. /\ FromStorage(State(r, ChainDepth(current_transaction_id, current_start_timestamp, r)))
             = CommittedBefore(r, current_start_timestamp)
        /\ CommittedBefore(r, current_start_timestamp) \in Val \cup {Absent}
    BY <2>1, ReadsCommitted, Zenon
  <2> QED BY <2>2, ReadsValue, Zenon DEF FreshScan
<1>2. LatestCommittedUpToNull
  BY <1>1, Zenon DEF LatestCommittedUpToNull
<1>3. ASSUME NULL \notin Val PROVE LatestCommittedRead
  <2>1. \A v \in Val \cup {Absent} : v # NULL
    BY <1>3, MvccAssumption, Zenon
  <2> QED BY <1>1, <2>1, Zenon DEF LatestCommittedRead, ReadAs
<1> QED BY <1>2, <1>3, Zenon
=============================================================================
