---------------------- MODULE TransactionManagerProofs ----------------------
(***************************************************************************)
(* Proofs about the transaction manager, for every set of transactions and *)
(* every value of the bounds.                                              *)
(*                                                                         *)
(* RemoveTransaction works on sequences.  Lemma RemoveIsRetirement turns   *)
(* it once into what it means for sets: the transactions cleaned up and    *)
(* those destroyed.  The invariants are then proved on sets.               *)
(***************************************************************************)
EXTENDS TransactionManager, TLAPS

-----------------------------------------------------------------------------
(* Sequences and their elements.                                            *)

\* The elements of a sequence over S are in S.
LEMMA ElemsType ==
  ASSUME NEW S, NEW s \in Seq(S)
  PROVE  Elems(s) \subseteq S
BY DEF Elems

\* Appending adds one element.
LEMMA ElemsAppend ==
  ASSUME NEW S, NEW s \in Seq(S), NEW e \in S
  PROVE  /\ Append(s, e) \in Seq(S)
         /\ Elems(Append(s, e)) = Elems(s) \cup {e}
<1>1. Append(s, e) \in Seq(S) /\ Len(Append(s, e)) = Len(s) + 1
  OBVIOUS
<1>2. \A i \in 1..Len(s) : Append(s, e)[i] = s[i]
  OBVIOUS
<1>3. Append(s, e)[Len(s) + 1] = e
  OBVIOUS
<1>4. ASSUME NEW x \in Elems(Append(s, e)) PROVE x \in Elems(s) \cup {e}
  <2>1. PICK i \in 1..(Len(s) + 1) : x = Append(s, e)[i]
    BY <1>1, <1>4, Zenon DEF Elems
  <2> QED BY <2>1, <1>2, <1>3 DEF Elems
<1>5. Elems(s) \subseteq Elems(Append(s, e))
  BY <1>1, <1>2 DEF Elems
<1>6. e \in Elems(Append(s, e))
  BY <1>1, <1>3 DEF Elems
<1> QED BY <1>1, <1>4, <1>5, <1>6, Zenon

\* Concatenation unites the elements.
LEMMA ElemsConcat ==
  ASSUME NEW S, NEW s \in Seq(S), NEW r \in Seq(S)
  PROVE  /\ s \o r \in Seq(S)
         /\ Elems(s \o r) = Elems(s) \cup Elems(r)
<1>1. s \o r \in Seq(S) /\ Len(s \o r) = Len(s) + Len(r)
  OBVIOUS
<1>2. \A i \in 1..Len(s) : (s \o r)[i] = s[i]
  OBVIOUS
<1>3. \A i \in 1..Len(r) : (s \o r)[Len(s) + i] = r[i]
  OBVIOUS
<1>4. ASSUME NEW x \in Elems(s \o r) PROVE x \in Elems(s) \cup Elems(r)
  <2>1. PICK i \in 1..(Len(s) + Len(r)) : x = (s \o r)[i]
    BY <1>1, <1>4, Zenon DEF Elems
  <2>2. CASE i <= Len(s)
    BY <2>1, <2>2, <1>2 DEF Elems
  <2>3. CASE i > Len(s)
    <3>1. i - Len(s) \in 1..Len(r) /\ i = Len(s) + (i - Len(s))
      BY <2>1, <2>3
    <3> QED BY <3>1, <2>1, <1>3, Zenon DEF Elems
  <2> QED BY <2>1, <2>2, <2>3
<1>5. Elems(s) \subseteq Elems(s \o r)
  BY <1>1, <1>2 DEF Elems
<1>6. ASSUME NEW x \in Elems(r) PROVE x \in Elems(s \o r)
  <2>1. PICK i \in 1..Len(r) : x = r[i]
    BY <1>6, Zenon DEF Elems
  <2>2. Len(s) + i \in 1..(Len(s) + Len(r))
    BY <2>1
  <2> QED BY <2>1, <2>2, <1>1, <1>3, Zenon DEF Elems
<1> QED BY <1>1, <1>4, <1>5, <1>6, Zenon

\* Cutting a sequence in two divides its elements.
LEMMA ElemsSplit ==
  ASSUME NEW S, NEW s \in Seq(S), NEW n \in 0..Len(s)
  PROVE  /\ SubSeq(s, 1, n) \in Seq(S)
         /\ SubSeq(s, n + 1, Len(s)) \in Seq(S)
         /\ Elems(SubSeq(s, 1, n)) = {s[i] : i \in 1..n}
         /\ Elems(s) = Elems(SubSeq(s, 1, n)) \cup Elems(SubSeq(s, n + 1, Len(s)))
<1> DEFINE f == SubSeq(s, 1, n)
           g == SubSeq(s, n + 1, Len(s))
<1>1. /\ f \in Seq(S) /\ Len(f) = n
      /\ \A i \in 1..n : f[i] = s[i]
  OBVIOUS
<1>2. /\ g \in Seq(S) /\ Len(g) = Len(s) - n
      /\ \A i \in 1..(Len(s) - n) : g[i] = s[n + i]
  OBVIOUS
<1>3. Elems(f) = {s[i] : i \in 1..n}
  BY <1>1, Zenon DEF Elems
<1>4. ASSUME NEW x \in Elems(s) PROVE x \in Elems(f) \cup Elems(g)
  <2>1. PICK i \in 1..Len(s) : x = s[i]
    BY <1>4, Zenon DEF Elems
  <2>2. CASE i <= n
    BY <2>1, <2>2, <1>1 DEF Elems
  <2>3. CASE i > n
    <3>1. i - n \in 1..(Len(s) - n) /\ i = n + (i - n)
      BY <2>1, <2>3
    <3> QED BY <3>1, <2>1, <1>2, Zenon DEF Elems
  <2> QED BY <2>1, <2>2, <2>3
<1>5. ASSUME NEW x \in Elems(f) PROVE x \in Elems(s)
  <2>1. PICK i \in 1..n : x = s[i]
    BY <1>3, <1>5, Zenon
  <2>2. i \in 1..Len(s)
    BY <2>1
  <2> QED BY <2>1, <2>2, Zenon DEF Elems
<1>6. ASSUME NEW x \in Elems(g) PROVE x \in Elems(s)
  <2>1. PICK i \in 1..(Len(s) - n) : x = s[n + i]
    BY <1>2, <1>6, Zenon DEF Elems
  <2>2. n + i \in 1..Len(s)
    BY <2>1
  <2> QED BY <2>1, <2>2, Zenon DEF Elems
<1> QED BY <1>1, <1>2, <1>3, <1>4, <1>5, <1>6, Zenon

\* Appending a new element repeats nothing.
LEMMA NoRepeatsAppend ==
  ASSUME NEW S, NEW s \in Seq(S), NEW e \in S, NoRepeats(s), e \notin Elems(s)
  PROVE  NoRepeats(Append(s, e))
BY DEF NoRepeats, Elems

\* Neither does joining sequences without a common element.
LEMMA NoRepeatsConcat ==
  ASSUME NEW S, NEW s \in Seq(S), NEW r \in Seq(S), NoRepeats(s), NoRepeats(r),
         Elems(s) \cap Elems(r) = {}
  PROVE  NoRepeats(s \o r)
<1> SUFFICES ASSUME NEW i \in 1..Len(s \o r), NEW j \in 1..Len(s \o r), i # j
             PROVE  (s \o r)[i] # (s \o r)[j]
  BY Zenon DEF NoRepeats
<1>1. /\ Len(s \o r) = Len(s) + Len(r)
      /\ \A k \in 1..Len(s) : (s \o r)[k] = s[k] /\ s[k] \in Elems(s)
  BY DEF Elems
<1>2. \A k \in 1..(Len(s) + Len(r)) : k > Len(s) =>
        /\ k - Len(s) \in 1..Len(r)
        /\ (s \o r)[k] = r[k - Len(s)]
        /\ r[k - Len(s)] \in Elems(r)
  BY DEF Elems
<1>3. CASE i <= Len(s) /\ j <= Len(s)
  BY <1>1, <1>3 DEF NoRepeats
<1>4. CASE i > Len(s) /\ j > Len(s)
  BY <1>1, <1>2, <1>4 DEF NoRepeats
<1>5. CASE (i <= Len(s) /\ j > Len(s)) \/ (i > Len(s) /\ j <= Len(s))
  BY <1>1, <1>2, <1>5
<1> QED BY <1>1, <1>3, <1>4, <1>5

\* The two parts of a sequence without repetitions have no common element.
LEMMA NoRepeatsSplit ==
  ASSUME NEW S, NEW s \in Seq(S), NEW n \in 0..Len(s), NoRepeats(s)
  PROVE  /\ NoRepeats(SubSeq(s, 1, n))
         /\ NoRepeats(SubSeq(s, n + 1, Len(s)))
         /\ Elems(SubSeq(s, 1, n)) \cap Elems(SubSeq(s, n + 1, Len(s))) = {}
<1> DEFINE f == SubSeq(s, 1, n)
           g == SubSeq(s, n + 1, Len(s))
<1>1. Len(f) = n /\ \A i \in 1..n : f[i] = s[i]
  OBVIOUS
<1>2. Len(g) = Len(s) - n /\ \A i \in 1..(Len(s) - n) : g[i] = s[n + i]
  OBVIOUS
<1>3. NoRepeats(f)
  BY <1>1 DEF NoRepeats
<1>4. NoRepeats(g)
  <2> SUFFICES ASSUME NEW i \in 1..Len(g), NEW j \in 1..Len(g), i # j
               PROVE  g[i] # g[j]
    BY Zenon DEF NoRepeats
  <2>1. n + i \in 1..Len(s) /\ n + j \in 1..Len(s) /\ n + i # n + j
    BY <1>2
  <2> QED BY <2>1, <1>2, Zenon DEF NoRepeats
<1>5. ASSUME NEW x \in Elems(f), x \in Elems(g) PROVE FALSE
  <2>1. PICK i \in 1..n : x = s[i]
    BY <1>1, <1>5, Zenon DEF Elems
  <2>2. PICK j \in 1..(Len(s) - n) : x = s[n + j]
    BY <1>2, <1>5, Zenon DEF Elems
  <2>3. i \in 1..Len(s) /\ n + j \in 1..Len(s) /\ i # n + j
    BY <2>1, <2>2
  <2> QED BY <2>1, <2>2, <2>3, Zenon DEF NoRepeats
<1> QED BY <1>3, <1>4, <1>5, Zenon

-----------------------------------------------------------------------------
(* RemoveTransaction on sets.                                               *)

\* The transactions an end of t retires at once: t itself, when it aborts.
AbortedSet(t, cids) == IF cids[t] # 0 THEN {} ELSE {t}
CommittedSet(t, cids) == IF cids[t] # 0 THEN {t} ELSE {}

\* What a removal of t that cleans up the set clean and destroys the set gone
\* does to the owners of the objects.
Retirement(t, cids, unlinked, clean, gone) ==
  LET others == active_transactions \ {t}
  IN  /\ active_transactions' = others
      /\ recently_committed_transactions' \in Seq(Txn)
      /\ old_transactions' \in Seq(Txn)
      /\ Elems(recently_committed_transactions) \cup CommittedSet(t, cids)
           = Elems(recently_committed_transactions') \cup clean
      /\ Elems(old_transactions) \cup AbortedSet(t, cids) \cup clean
           = Elems(old_transactions') \cup gone
      /\ freed' = freed \cup gone
      /\ linked' = linked \ (unlinked \cup clean)
      /\ highest_active_query' = Retire(clean \cup AbortedSet(t, cids))
      /\ \A u \in clean : BelowLowestStart(cids[u], others)
      /\ others # {} => \A u \in gone : ~StillQueried(highest_active_query'[u], others)
      /\ OwnedOnce /\ t \in active_transactions =>
           /\ NoRepeats(recently_committed_transactions')
           /\ NoRepeats(old_transactions')
           /\ Elems(recently_committed_transactions') \cap clean = {}
           /\ Elems(old_transactions') \cap gone = {}

\* Every removal is one, for some sets of transactions.
LEMMA RemovalRetires ==
  ASSUME TMTypeOK,
         NEW t \in Txn, NEW cids \in [Txn -> Nat], NEW unlinked \in SUBSET Txn, NEW n \in Nat,
         RemoveTransaction(t, cids, unlinked, n)
  PROVE  LET clean == Elems(SubSeq(Committed(t, cids), 1, n))
         IN  clean \in SUBSET Txn
             /\ \E gone \in SUBSET Txn : Retirement(t, cids, unlinked, clean, gone)
<1> DEFINE others == active_transactions \ {t}
           rc == Committed(t, cids)
           clean == SubSeq(rc, 1, n)
           ab == Aborted(t, cids)
           old == ab \o clean
           haq == Retire(Elems(clean) \cup AbortedSet(t, cids))
<1>1. /\ rc \in Seq(Txn)
      /\ Elems(rc) = Elems(recently_committed_transactions) \cup CommittedSet(t, cids)
  BY ElemsAppend DEF Committed, CommittedSet, TMTypeOK
<1>2. /\ ab \in Seq(Txn)
      /\ Elems(ab) = Elems(old_transactions) \cup AbortedSet(t, cids)
  BY ElemsAppend DEF Aborted, AbortedSet, TMTypeOK
<1>3. /\ CanCleanup(rc, n, cids, others)
      /\ active_transactions' = others
      /\ recently_committed_transactions' = SubSeq(rc, n + 1, Len(rc))
      /\ highest_active_query' = haq
      /\ linked' = linked \ (unlinked \cup Elems(clean))
      /\ \E m \in 0..Len(old) :
           /\ CanFree(old, m, haq, others)
           /\ old_transactions' = SubSeq(old, m + 1, Len(old))
           /\ freed' = freed \cup Elems(SubSeq(old, 1, m))
  BY Zenon DEF RemoveTransaction, AbortedSet
<1>4. PICK m \in 0..Len(old) :
           /\ CanFree(old, m, haq, others)
           /\ old_transactions' = SubSeq(old, m + 1, Len(old))
           /\ freed' = freed \cup Elems(SubSeq(old, 1, m))
  BY <1>3, Zenon
<1>5. n \in 0..Len(rc)
  BY <1>1, <1>3 DEF CanCleanup
<1>6. /\ clean \in Seq(Txn)
      /\ recently_committed_transactions' \in Seq(Txn)
      /\ Elems(clean) = {rc[i] : i \in 1..n}
      /\ Elems(rc) = Elems(clean) \cup Elems(recently_committed_transactions')
  BY <1>1, <1>3, <1>5, ElemsSplit
<1>7. /\ old \in Seq(Txn)
      /\ Elems(old) = Elems(ab) \cup Elems(clean)
  <2> HIDE DEF ab, clean
  <2> QED BY <1>2, <1>6, ElemsConcat
<1> DEFINE gone == Elems(SubSeq(old, 1, m))
<1>8. /\ old_transactions' \in Seq(Txn)
      /\ gone = {old[i] : i \in 1..m}
      /\ Elems(old) = gone \cup Elems(old_transactions')
      /\ gone \subseteq Txn
  <2> HIDE DEF old
  <2>1. SubSeq(old, 1, m) \in Seq(Txn)
    BY <1>4, <1>7, ElemsSplit, Zenon
  <2> QED BY <2>1, <1>4, <1>7, ElemsSplit, ElemsType
<1>9. \A u \in Elems(clean) : BelowLowestStart(cids[u], others)
  BY <1>3, <1>6, Zenon DEF CanCleanup
<1>10. others # {} => \A u \in gone : ~StillQueried(haq[u], others)
  BY <1>4, <1>8, Zenon DEF CanFree, FreeUnused
<1>11. Elems(clean) \subseteq Txn
  BY <1>6, ElemsType, Zenon
<1>12. ASSUME OwnedOnce, t \in active_transactions
       PROVE  /\ NoRepeats(recently_committed_transactions')
              /\ NoRepeats(old_transactions')
              /\ Elems(recently_committed_transactions') \cap Elems(clean) = {}
              /\ Elems(old_transactions') \cap gone = {}
  <2>1. /\ NoRepeats(recently_committed_transactions)
        /\ NoRepeats(old_transactions)
        /\ t \notin Elems(recently_committed_transactions)
        /\ t \notin Elems(old_transactions)
        /\ Elems(recently_committed_transactions) \cap Elems(old_transactions) = {}
    BY <1>12, Zenon DEF OwnedOnce
  <2>2. NoRepeats(rc) /\ NoRepeats(ab)
    BY <2>1, NoRepeatsAppend, Zenon DEF Committed, Aborted, TMTypeOK
  <2>3. /\ NoRepeats(clean)
        /\ NoRepeats(recently_committed_transactions')
        /\ Elems(recently_committed_transactions') \cap Elems(clean) = {}
    <3> HIDE DEF rc
    <3> QED BY <2>2, <1>1, <1>3, <1>5, NoRepeatsSplit, Zenon
  <2>4. Elems(ab) \cap Elems(clean) = {}
    BY <2>1, <1>1, <1>2, <1>6, Zenon DEF AbortedSet, CommittedSet
  <2>5. NoRepeats(old)
    <3> HIDE DEF ab, clean
    <3> QED BY <2>2, <2>3, <2>4, <1>2, <1>6, NoRepeatsConcat, Zenon
  <2>6. /\ NoRepeats(old_transactions')
        /\ Elems(old_transactions') \cap gone = {}
    <3> HIDE DEF old
    <3> QED BY <2>5, <1>4, <1>7, NoRepeatsSplit, Zenon
  <2> QED BY <2>3, <2>6, Zenon
<1>13. Retirement(t, cids, unlinked, Elems(clean), gone)
  <2> HIDE DEF rc, clean, ab, old, haq, gone
  <2> QED BY <1>1, <1>2, <1>3, <1>4, <1>6, <1>7, <1>8, <1>9, <1>10, <1>12, Zenon DEF Retirement, haq, gone
<1> QED BY <1>8, <1>11, <1>13, Zenon

\* The same without naming the transactions cleaned up.
LEMMA RemoveIsRetirement ==
  ASSUME TMTypeOK,
         NEW t \in Txn, NEW cids \in [Txn -> Nat], NEW unlinked \in SUBSET Txn, NEW n \in Nat,
         RemoveTransaction(t, cids, unlinked, n)
  PROVE  \E clean, gone \in SUBSET Txn : Retirement(t, cids, unlinked, clean, gone)
BY RemovalRetires, Zenon

\* The whole end of t, by a commit or a rollback.
Ended(t, unlinked, clean, gone) ==
  /\ t \in active_transactions
  /\ commit_id' \in [Txn -> Nat]
  /\ \A u \in Txn \ {t} : commit_id'[u] = commit_id[u]
  /\ \/ commit_id'[t] = current_start_timestamp
        /\ current_start_timestamp' = current_start_timestamp + 1
     \/ commit_id'[t] = commit_id[t]
        /\ current_start_timestamp' = current_start_timestamp
        /\ t \in unlinked
  /\ Retirement(t, commit_id', unlinked, clean, gone)
  /\ query' = [query EXCEPT ![t] = "none"]
  /\ reachable' = [reachable EXCEPT ![t] = {}]
  /\ UNCHANGED <<current_query_number, current_transaction_id, start_time,
                 transaction_id, active_query, fetched>>

\* Commits and rollbacks are retirements.
LEMMA EndIsRetirement ==
  ASSUME TMTypeOK, NEW t \in Txn, CommitTransaction(t) \/ RollbackTransaction(t)
  PROVE  \E unlinked, clean, gone \in SUBSET Txn : Ended(t, unlinked, clean, gone)
<1>1. CASE CommitTransaction(t)
  <2>1. PICK n \in 0..(Len(recently_committed_transactions) + 1) : CommitTransactionCleaning(t, n)
    BY <1>1, Zenon DEF CommitTransaction
  <2>2. n \in Nat
    BY <2>1 DEF TMTypeOK
  <2> DEFINE cids == [commit_id EXCEPT ![t] = current_start_timestamp]
  <2>3. cids \in [Txn -> Nat] /\ cids[t] = current_start_timestamp
    BY Zenon DEF TMTypeOK
  <2>4. /\ t \in active_transactions
        /\ commit_id' = cids
        /\ current_start_timestamp' = current_start_timestamp + 1
        /\ RemoveTransaction(t, cids, {}, n)
    BY <2>1, Zenon DEF CommitTransactionCleaning, MayEnd
  <2>5. PICK clean, gone \in SUBSET Txn : Retirement(t, cids, {}, clean, gone)
    <3> HIDE DEF cids
    <3> QED BY <2>2, <2>3, <2>4, RemoveIsRetirement, Zenon
  <2>6. \A u \in Txn \ {t} : cids[u] = commit_id[u]
    BY Zenon DEF TMTypeOK
  <2>7. /\ query' = [query EXCEPT ![t] = "none"]
        /\ reachable' = [reachable EXCEPT ![t] = {}]
        /\ UNCHANGED <<current_query_number, current_transaction_id, start_time,
                       transaction_id, active_query, fetched>>
    BY <2>4, Zenon DEF RemoveTransaction
  <2>8. Ended(t, {}, clean, gone)
    <3> HIDE DEF cids
    <3> QED BY <2>3, <2>4, <2>5, <2>6, <2>7, Zenon DEF Ended
  <2> QED BY <2>5, <2>8, Zenon
<1>2. CASE RollbackTransaction(t)
  <2>1. PICK n \in 0..(Len(recently_committed_transactions) + 1) : RollbackTransactionCleaning(t, n)
    BY <1>2, Zenon DEF RollbackTransaction
  <2>2. n \in Nat /\ commit_id \in [Txn -> Nat] /\ {t} \in SUBSET Txn
    BY <2>1 DEF TMTypeOK
  <2>3. /\ t \in active_transactions
        /\ commit_id' = commit_id
        /\ current_start_timestamp' = current_start_timestamp
        /\ RemoveTransaction(t, commit_id, {t}, n)
    BY <2>1, Zenon DEF RollbackTransactionCleaning, MayEnd
  <2>4. PICK clean, gone \in SUBSET Txn : Retirement(t, commit_id, {t}, clean, gone)
    BY <2>2, <2>3, RemoveIsRetirement, Zenon
  <2>5. /\ query' = [query EXCEPT ![t] = "none"]
        /\ reachable' = [reachable EXCEPT ![t] = {}]
        /\ UNCHANGED <<current_query_number, current_transaction_id, start_time,
                       transaction_id, active_query, fetched>>
    BY <2>3, Zenon DEF RemoveTransaction
  <2>6. Ended(t, {t}, clean, gone)
    BY <2>2, <2>3, <2>4, <2>5, Zenon DEF Ended
  <2> QED BY <2>4, <2>6, Zenon
<1> QED BY <1>1, <1>2, Zenon

-----------------------------------------------------------------------------
(* Types.                                                                   *)

\* Every step keeps the types.
LEMMA TypeStep ==
  TMTypeOK /\ [TMNext]_tmVars => TMTypeOK'
<1> SUFFICES ASSUME TMTypeOK, [TMNext]_tmVars PROVE TMTypeOK'
  BY Zenon
<1> USE ConstantsAssumption
<1>1. CASE UNCHANGED tmVars
  BY <1>1, Zenon DEF TMTypeOK, tmVars, counters, lists, fields, clients
<1>2. ASSUME NEW t \in Txn, StartTransaction(t) PROVE TMTypeOK'
  <2>1. current_start_timestamp' \in Nat /\ current_transaction_id' \in Nat
    BY <1>2 DEF TMTypeOK, StartTransaction, NewTransaction
  <2>2. start_time' \in [Txn -> Nat] /\ transaction_id' \in [Txn -> Nat]
    BY <1>2, Zenon DEF TMTypeOK, StartTransaction, NewTransaction
  <2>3. active_transactions' \subseteq Txn /\ linked' \subseteq Txn
    BY <1>2, Zenon DEF TMTypeOK, StartTransaction, NewTransaction
  <2>4. reachable' \in [Txn -> SUBSET Txn]
    <3>1. ASSUME NEW u \in Txn PROVE reachable[u] \subseteq Txn /\ reachable[u] \cup {t} \subseteq Txn
      BY DEF TMTypeOK
    <3>2. reachable' = [u \in Txn |-> IF Reading(u) THEN reachable[u] \cup {t} ELSE reachable[u]]
      BY <1>2, Zenon DEF StartTransaction, NewTransaction
    <3> QED BY <3>1, <3>2
  <2> QED BY <1>2, <2>1, <2>2, <2>3, <2>4, Zenon DEF TMTypeOK, StartTransaction, NewTransaction
<1>3. ASSUME NEW t \in Txn, CommitTransaction(t) \/ RollbackTransaction(t) PROVE TMTypeOK'
  <2>1. PICK unlinked, clean, gone \in SUBSET Txn : Ended(t, unlinked, clean, gone)
    BY <1>3, EndIsRetirement, Zenon
  <2>2. highest_active_query' \in [Txn -> Nat]
    BY <2>1, Zenon DEF Ended, Retirement, Retire, TMTypeOK
  <2>3. /\ active_transactions' \subseteq Txn /\ freed' \subseteq Txn /\ linked' \subseteq Txn
        /\ recently_committed_transactions' \in Seq(Txn) /\ old_transactions' \in Seq(Txn)
    BY <2>1, Zenon DEF Ended, Retirement, TMTypeOK
  <2>4. query' \in [Txn -> QueryStates] /\ reachable' \in [Txn -> SUBSET Txn]
    BY <2>1, Zenon DEF Ended, TMTypeOK, QueryStates
  <2>5. current_start_timestamp' \in Nat
    BY <2>1 DEF Ended, TMTypeOK
  <2> QED BY <2>1, <2>2, <2>3, <2>4, <2>5, Zenon DEF Ended, TMTypeOK
<1>4. ASSUME NEW t \in Txn, CommitTransactionFails(t) PROVE TMTypeOK'
  <2>1. commit_id' \in [Txn -> Nat] /\ current_start_timestamp' \in Nat
    BY <1>4 DEF TMTypeOK, CommitTransactionFails
  <2>2. UNCHANGED <<current_query_number, current_transaction_id, lists, start_time,
                    transaction_id, highest_active_query, active_query, clients, linked>>
    BY <1>4, Zenon DEF CommitTransactionFails
  <2> QED BY <2>1, <2>2, Zenon DEF TMTypeOK, lists, clients
<1>5. ASSUME NEW t \in Txn, EndCheckpoint(t) PROVE TMTypeOK'
  BY <1>5, Zenon DEF TMTypeOK, EndCheckpoint, counters, lists, fields, clients
<1>6. ASSUME NEW t \in Txn, GetQueryNumber(t) PROVE TMTypeOK'
  BY <1>6 DEF TMTypeOK, GetQueryNumber, QueryStates, lists, fields
<1>7. ASSUME NEW t \in Txn, StartQuery(t) PROVE TMTypeOK'
  BY <1>7, Zenon DEF TMTypeOK, StartQuery, BeginReading, QueryStates, counters, lists
<1>8. ASSUME NEW t \in Txn, EndQuery(t) PROVE TMTypeOK'
  BY <1>8, Zenon DEF TMTypeOK, EndQuery, QueryStates, counters, lists
<1>9. ASSUME NEW t \in Txn, BeginAppend(t) PROVE TMTypeOK'
  BY <1>9, Zenon DEF TMTypeOK, BeginAppend, BeginReading, QueryStates, counters, lists, fields
<1>10. ASSUME NEW t \in Txn, EndAppend(t) PROVE TMTypeOK'
  BY <1>10, Zenon DEF TMTypeOK, EndAppend, QueryStates, counters, lists, fields
<1> QED BY <1>1, <1>2, <1>3, <1>4, <1>5, <1>6, <1>7, <1>8, <1>9, <1>10, Zenon DEF TMNext

\* The type invariant, for any number of transactions, queries and time stamps.
THEOREM TypeCorrect == TMSpec => []TMTypeOK
<1>1. TMInit => TMTypeOK
  BY ConstantsAssumption DEF TMInit, TMTypeOK, QueryStates
<1> QED BY <1>1, TypeStep, PTL DEF TMSpec

-----------------------------------------------------------------------------
(* Owners, time stamps and cleanup.                                         *)

ownership == <<lists, current_start_timestamp, current_transaction_id, start_time,
               transaction_id, commit_id, highest_active_query>>

\* What clients do between the start and the end of their transactions changes
\* neither the lists nor the time stamps.
LEMMA OwnershipSteps ==
  ASSUME [TMNext]_tmVars
  PROVE  \/ UNCHANGED ownership
         \/ \E t \in Txn : StartTransaction(t)
         \/ \E t \in Txn : CommitTransaction(t) \/ RollbackTransaction(t)
         \/ \E t \in Txn : CommitTransactionFails(t)
<1>1. CASE UNCHANGED tmVars
  BY <1>1, Zenon DEF tmVars, counters, fields, ownership
<1>2. ASSUME NEW t \in Txn, EndCheckpoint(t) PROVE UNCHANGED ownership
  BY <1>2, Zenon DEF EndCheckpoint, counters, fields, ownership
<1>3. ASSUME NEW t \in Txn, GetQueryNumber(t) PROVE UNCHANGED ownership
  BY <1>3, Zenon DEF GetQueryNumber, fields, ownership
<1>4. ASSUME NEW t \in Txn, StartQuery(t) PROVE UNCHANGED ownership
  BY <1>4, Zenon DEF StartQuery, counters, ownership
<1>5. ASSUME NEW t \in Txn, EndQuery(t) PROVE UNCHANGED ownership
  BY <1>5, Zenon DEF EndQuery, counters, ownership
<1>6. ASSUME NEW t \in Txn, BeginAppend(t) PROVE UNCHANGED ownership
  BY <1>6, Zenon DEF BeginAppend, counters, fields, ownership
<1>7. ASSUME NEW t \in Txn, EndAppend(t) PROVE UNCHANGED ownership
  BY <1>7, Zenon DEF EndAppend, counters, fields, ownership
<1> QED BY <1>1, <1>2, <1>3, <1>4, <1>5, <1>6, <1>7, Zenon DEF TMNext

\* A step that moves no object between the lists.
LEMMA OwnedSame ==
  ASSUME OwnedOnce, active_transactions' = active_transactions, freed' = freed,
         recently_committed_transactions' = recently_committed_transactions,
         old_transactions' = old_transactions
  PROVE  OwnedOnce'
BY Zenon DEF OwnedOnce

\* Every step keeps one owner per object.
LEMMA OwnedStep ==
  TMTypeOK /\ OwnedOnce /\ [TMNext]_tmVars => OwnedOnce'
<1> SUFFICES ASSUME TMTypeOK, OwnedOnce, [TMNext]_tmVars PROVE OwnedOnce'
  BY Zenon
<1>1. CASE UNCHANGED ownership
  BY <1>1, OwnedSame, Zenon DEF ownership, lists
<1>2. ASSUME NEW t \in Txn, StartTransaction(t) PROVE OwnedOnce'
  <2>1. /\ t \notin Started
        /\ active_transactions' = active_transactions \cup {t}
        /\ UNCHANGED <<recently_committed_transactions, old_transactions, freed>>
    BY <1>2, Zenon DEF StartTransaction, NewTransaction, MayStart
  <2> QED BY <2>1 DEF OwnedOnce, Started, Elems, NoRepeats
<1>3. ASSUME NEW t \in Txn, CommitTransaction(t) \/ RollbackTransaction(t) PROVE OwnedOnce'
  <2>1. PICK unlinked, clean, gone \in SUBSET Txn : Ended(t, unlinked, clean, gone)
    BY <1>3, EndIsRetirement, Zenon
  <2> DEFINE cids == commit_id'
  <2>2. t \in active_transactions /\ Retirement(t, cids, unlinked, clean, gone)
    BY <2>1, Zenon DEF Ended
  <2>3. /\ NoRepeats(recently_committed_transactions')
        /\ NoRepeats(old_transactions')
        /\ Elems(recently_committed_transactions') \cap clean = {}
        /\ Elems(old_transactions') \cap gone = {}
    BY <2>2, Zenon DEF Retirement
  <2>4. /\ active_transactions' = active_transactions \ {t}
        /\ Elems(recently_committed_transactions) \cup CommittedSet(t, cids)
             = Elems(recently_committed_transactions') \cup clean
        /\ Elems(old_transactions) \cup AbortedSet(t, cids) \cup clean
             = Elems(old_transactions') \cup gone
        /\ freed' = freed \cup gone
    BY <2>2, Zenon DEF Retirement
  <2>5. /\ active_transactions \cap Elems(recently_committed_transactions) = {}
        /\ active_transactions \cap Elems(old_transactions) = {}
        /\ active_transactions \cap freed = {}
        /\ Elems(recently_committed_transactions) \cap Elems(old_transactions) = {}
        /\ Elems(recently_committed_transactions) \cap freed = {}
        /\ Elems(old_transactions) \cap freed = {}
    BY Zenon DEF OwnedOnce
  <2>6. /\ AbortedSet(t, cids) \subseteq {t} /\ CommittedSet(t, cids) \subseteq {t}
        /\ AbortedSet(t, cids) \cap CommittedSet(t, cids) = {}
    BY Zenon DEF AbortedSet, CommittedSet
  <2>7. /\ active_transactions' \cap (Elems(recently_committed_transactions')
                                        \cup Elems(old_transactions') \cup freed') = {}
        /\ Elems(recently_committed_transactions') \cap (Elems(old_transactions') \cup freed') = {}
        /\ Elems(old_transactions') \cap freed' = {}
    <3> HIDE DEF cids
    <3> QED BY <2>2, <2>3, <2>4, <2>5, <2>6
  <2> QED BY <2>3, <2>7, Zenon DEF OwnedOnce, Elems, NoRepeats
<1>4. ASSUME NEW t \in Txn, CommitTransactionFails(t) PROVE OwnedOnce'
  BY <1>4, OwnedSame, Zenon DEF CommitTransactionFails, lists
<1> QED BY <1>1, <1>2, <1>3, <1>4, OwnershipSteps, Zenon

\* Each transaction object has exactly one owner, through every move between
\* the vectors of the transaction manager.
THEOREM OneOwner == TMSpec => []OwnedOnce
<1>1. TMInit => OwnedOnce
  BY DEF TMInit, OwnedOnce, Elems, NoRepeats
<1> QED BY <1>1, TypeCorrect, OwnedStep, PTL DEF TMSpec

\* Every step keeps the numbers in order.
LEMMA StampsStep ==
  TMTypeOK /\ Stamps /\ [TMNext]_tmVars => Stamps'
<1> SUFFICES ASSUME TMTypeOK, Stamps, [TMNext]_tmVars PROVE Stamps'
  BY Zenon
<1>0. /\ TRANSACTION_ID_START \in Nat /\ current_start_timestamp \in Nat
      /\ current_transaction_id \in Nat /\ active_transactions \subseteq Txn
      /\ \A u \in Txn : start_time[u] \in Nat /\ transaction_id[u] \in Nat /\ commit_id[u] \in Nat
  BY ConstantsAssumption, Zenon DEF TMTypeOK
<1>1. CASE UNCHANGED ownership
  BY <1>1, Zenon DEF Stamps, ownership, lists
<1>2. ASSUME NEW t \in Txn, StartTransaction(t) PROVE Stamps'
  <2>1. /\ current_start_timestamp < TRANSACTION_ID_START
        /\ t \notin active_transactions
        /\ start_time' = [start_time EXCEPT ![t] = current_start_timestamp]
        /\ transaction_id' = [transaction_id EXCEPT ![t] = current_transaction_id]
        /\ current_start_timestamp' = current_start_timestamp + 1
        /\ current_transaction_id' = current_transaction_id + 1
        /\ active_transactions' = active_transactions \cup {t}
        /\ commit_id' = commit_id
    BY <1>2, Zenon DEF StartTransaction, NewTransaction, MayStart, Started
  <2>2. \A u \in active_transactions :
          /\ start_time'[u] = start_time[u] /\ start_time[u] \in Nat
          /\ transaction_id'[u] = transaction_id[u] /\ transaction_id[u] \in Nat
    BY <2>1, Zenon DEF TMTypeOK
  <2>3. start_time'[t] = current_start_timestamp /\ transaction_id'[t] = current_transaction_id
    BY <2>1, Zenon DEF TMTypeOK
  <2>4. \A u \in Txn : commit_id[u] # 0 => commit_id[u] < current_start_timestamp + 1
    BY <1>0 DEF Stamps
  <2>5. \A u, v \in active_transactions' : u # v => transaction_id'[u] # transaction_id'[v]
    BY <1>0, <2>1, <2>2, <2>3 DEF Stamps
  <2>6. \A u \in active_transactions' :
          /\ start_time'[u] < TRANSACTION_ID_START
          /\ start_time'[u] < current_start_timestamp'
          /\ TRANSACTION_ID_START <= transaction_id'[u]
          /\ transaction_id'[u] < current_transaction_id'
    BY <1>0, <2>1, <2>2, <2>3 DEF Stamps
  <2>7. current_transaction_id' >= TRANSACTION_ID_START
    BY <1>0, <2>1 DEF Stamps
  <2> QED BY <2>1, <2>4, <2>5, <2>6, <2>7, Zenon DEF Stamps
<1>3. ASSUME NEW t \in Txn, CommitTransaction(t) \/ RollbackTransaction(t) PROVE Stamps'
  <2>1. PICK unlinked, clean, gone \in SUBSET Txn : Ended(t, unlinked, clean, gone)
    BY <1>3, EndIsRetirement, Zenon
  <2>2. active_transactions' = active_transactions \ {t}
    BY <2>1, Zenon DEF Ended, Retirement
  <2>3. \A u \in Txn : commit_id'[u] # 0 => commit_id'[u] < current_start_timestamp'
    <3> SUFFICES ASSUME NEW u \in Txn, commit_id'[u] # 0
                 PROVE  commit_id'[u] < current_start_timestamp'
      BY Zenon
    <3>1. /\ u # t => commit_id'[u] = commit_id[u]
          /\ \/ commit_id'[t] = current_start_timestamp
                /\ current_start_timestamp' = current_start_timestamp + 1
             \/ commit_id'[t] = commit_id[t]
                /\ current_start_timestamp' = current_start_timestamp
      BY <2>1, Zenon DEF Ended
    <3>2. commit_id[u] # 0 => commit_id[u] < current_start_timestamp
      BY Zenon DEF Stamps
    <3> QED BY <1>0, <3>1, <3>2
  <2>4. /\ start_time' = start_time /\ transaction_id' = transaction_id
        /\ current_transaction_id' = current_transaction_id
        /\ current_start_timestamp' \in {current_start_timestamp, current_start_timestamp + 1}
    BY <2>1, Zenon DEF Ended
  <2>5. \A u \in active_transactions' : start_time[u] < current_start_timestamp'
    BY <1>0, <2>2, <2>4 DEF Stamps
  <2> QED BY <2>2, <2>3, <2>4, <2>5, Zenon DEF Stamps
<1>4. ASSUME NEW t \in Txn, CommitTransactionFails(t) PROVE Stamps'
  <2>1. /\ commit_id' = [commit_id EXCEPT ![t] = current_start_timestamp]
        /\ current_start_timestamp' = current_start_timestamp + 1
        /\ UNCHANGED <<current_transaction_id, active_transactions, start_time, transaction_id>>
    BY <1>4, Zenon DEF CommitTransactionFails, lists
  <2>2. \A u \in Txn : commit_id'[u] # 0 => commit_id'[u] < current_start_timestamp'
    <3>1. \A u \in Txn : commit_id'[u] = IF u = t THEN current_start_timestamp ELSE commit_id[u]
      BY <2>1, Zenon DEF TMTypeOK
    <3> QED BY <1>0, <2>1, <3>1 DEF Stamps
  <2>3. \A u \in active_transactions : start_time[u] < current_start_timestamp'
    BY <1>0, <2>1 DEF Stamps
  <2> QED BY <2>1, <2>2, <2>3, Zenon DEF Stamps
<1> QED BY <1>1, <1>2, <1>3, <1>4, OwnershipSteps, Zenon

\* The numbers stay in order.
LEMMA StampsInvariant == TMSpec => []Stamps
<1>1. TMInit => Stamps
  BY ConstantsAssumption DEF TMInit, Stamps
<1> QED BY <1>1, TypeCorrect, StampsStep, PTL DEF TMSpec

\* The versions of a running transaction are never visible to another one, for
\* any number of transactions: StartTransaction refuses in time.
THEOREM UncommittedStaysInvisible == TMSpec => []UncommittedInvisible
<1>1. TMTypeOK /\ Stamps => UncommittedInvisible
  BY ConstantsAssumption DEF TMTypeOK, Stamps, UncommittedInvisible
<1> QED BY <1>1, TypeCorrect, StampsInvariant, PTL

\* Every step keeps cleanup safe.
LEMMA CleanupStep ==
  TMTypeOK /\ OwnedOnce /\ Stamps /\ CleanupSafe /\ [TMNext]_tmVars => CleanupSafe'
<1> SUFFICES ASSUME TMTypeOK, OwnedOnce, Stamps, CleanupSafe, [TMNext]_tmVars
             PROVE  CleanupSafe'
  BY Zenon
<1> DEFINE retired == Elems(old_transactions) \cup freed
<1>1. CASE UNCHANGED ownership
  BY <1>1 DEF CleanupSafe, CleanedUp, ownership, lists, Elems
<1>2. ASSUME NEW t \in Txn, StartTransaction(t) PROVE CleanupSafe'
  <2>1. /\ start_time' = [start_time EXCEPT ![t] = current_start_timestamp]
        /\ active_transactions' = active_transactions \cup {t}
        /\ t \notin active_transactions
        /\ UNCHANGED <<old_transactions, freed, commit_id>>
    BY <1>2, Zenon DEF StartTransaction, NewTransaction, MayStart, Started
  <2>2. CleanedUp' = CleanedUp /\ CleanedUp \subseteq Txn
    BY <2>1, ElemsType DEF CleanedUp, Elems, TMTypeOK
  <2>3. \A u \in CleanedUp : commit_id[u] < current_start_timestamp
    BY <2>2, Zenon DEF CleanedUp, Stamps
  <2>4. start_time'[t] = current_start_timestamp
        /\ \A v \in active_transactions : start_time'[v] = start_time[v]
    BY <2>1, Zenon DEF TMTypeOK
  <2> QED BY <2>1, <2>2, <2>3, <2>4, Zenon DEF CleanupSafe
<1>3. ASSUME NEW t \in Txn, CommitTransaction(t) \/ RollbackTransaction(t) PROVE CleanupSafe'
  <2>1. PICK unlinked, clean, gone \in SUBSET Txn : Ended(t, unlinked, clean, gone)
    BY <1>3, EndIsRetirement, Zenon
  <2>2. /\ active_transactions' = active_transactions \ {t}
        /\ Elems(old_transactions') \cup freed' \subseteq
             retired \cup AbortedSet(t, commit_id') \cup clean
        /\ \A u \in clean : BelowLowestStart(commit_id'[u], active_transactions \ {t})
    BY <2>1, Zenon DEF Ended, Retirement
  <2>3. t \notin retired /\ retired \subseteq Txn
    BY <2>1, ElemsType, Zenon DEF Ended, OwnedOnce, TMTypeOK
  <2> SUFFICES ASSUME NEW u \in Elems(old_transactions') \cup freed', commit_id'[u] # 0,
                      NEW v \in active_transactions \ {t}
               PROVE  commit_id'[u] < start_time[v]
    <3>1. start_time' = start_time
      BY <2>1, Zenon DEF Ended
    <3>2. CleanedUp' = {u \in Elems(old_transactions') \cup freed' : commit_id'[u] # 0}
      BY Zenon DEF CleanedUp, Elems
    <3> QED BY <2>2, <3>1, <3>2, Zenon DEF CleanupSafe
  <2>4. CASE u \in retired
    <3>1. commit_id'[u] = commit_id[u]
      BY <2>1, <2>3, <2>4, Zenon DEF Ended
    <3> QED BY <3>1, <2>4, Zenon DEF CleanupSafe, CleanedUp
  <2>5. CASE u \in AbortedSet(t, commit_id')
    BY <2>5, Zenon DEF AbortedSet
  <2>6. CASE u \in clean
    BY <2>2, <2>6, Zenon DEF BelowLowestStart
  <2> QED BY <2>2, <2>4, <2>5, <2>6, Zenon
<1>4. ASSUME NEW t \in Txn, CommitTransactionFails(t) PROVE CleanupSafe'
  <2>1. /\ t \in active_transactions
        /\ commit_id' = [commit_id EXCEPT ![t] = current_start_timestamp]
        /\ UNCHANGED <<active_transactions, old_transactions, freed, start_time>>
    BY <1>4, Zenon DEF CommitTransactionFails, MayEnd, lists
  <2>2. retired \subseteq Txn \ {t}
    BY <2>1, ElemsType DEF OwnedOnce, TMTypeOK
  <2>3. \A u \in retired : commit_id'[u] = commit_id[u]
    BY <2>1, <2>2, Zenon DEF TMTypeOK
  <2>4. CleanedUp' = CleanedUp
    BY <2>1, <2>3 DEF CleanedUp, Elems
  <2>5. CleanedUp \subseteq retired
    BY Zenon DEF CleanedUp
  <2> QED BY <2>1, <2>3, <2>4, <2>5, Zenon DEF CleanupSafe
<1> QED BY <1>1, <1>2, <1>3, <1>4, OwnershipSteps, Zenon

\* No transaction that could still need an undo buffer runs, or will run, once
\* RemoveTransaction has cleaned it up.
THEOREM CleanupIsSafe == TMSpec => []CleanupSafe
<1>1. TMInit => CleanupSafe
  BY Zenon DEF TMInit, CleanupSafe
<1> QED BY <1>1, TypeCorrect, OneOwner, StampsInvariant, CleanupStep, PTL DEF TMSpec

-----------------------------------------------------------------------------
(* Reclamation.                                                             *)

\* Nothing in the version chains has been retired.
LinkedAreKept == linked \cap (Elems(old_transactions) \cup freed) = {}

\* A query number is below the counter from the moment it is fetched, and the
\* transaction it is fetched for stays active while the query runs.
QueryNumbers ==
  \A t \in Txn :
    /\ query[t] = "numbered" => t \in active_transactions /\ fetched[t] < current_query_number
    /\ query[t] = "running" => t \in active_transactions /\ active_query[t] < current_query_number

\* Whatever a running query can reach is not destroyed, and if it is retired it
\* carries a number above that of the query: FreeUnused stops before it.
ReachableKept ==
  \A t \in Txn : query[t] = "running" =>
    \A u \in reachable[t] :
      /\ u \notin freed
      /\ u \in Elems(old_transactions) => highest_active_query[u] > active_query[t]

Reclamation == LinkedAreKept /\ QueryNumbers /\ ReachableKept

\* The end of a transaction keeps the reclamation invariant.
LEMMA ReclamationEnd ==
  ASSUME TMTypeOK, Stamps, Reclamation, NEW t \in Txn,
         NEW unlinked \in SUBSET Txn, NEW clean \in SUBSET Txn, NEW gone \in SUBSET Txn,
         Ended(t, unlinked, clean, gone)
  PROVE  Reclamation'
<1> DEFINE others == active_transactions \ {t}
           now == clean \cup AbortedSet(t, commit_id')
<1>1. /\ active_transactions' = others
      /\ Elems(old_transactions) \cup now = Elems(old_transactions') \cup gone
      /\ freed' = freed \cup gone
      /\ linked' = linked \ (unlinked \cup clean)
      /\ highest_active_query' = Retire(now)
      /\ others # {} => \A u \in gone : ~StillQueried(highest_active_query'[u], others)
  BY Zenon DEF Ended, Retirement
<1>2. /\ current_query_number' = current_query_number
      /\ active_query' = active_query /\ fetched' = fetched
      /\ query' = [query EXCEPT ![t] = "none"]
      /\ reachable' = [reachable EXCEPT ![t] = {}]
  BY Zenon DEF Ended
<1>3. AbortedSet(t, commit_id') \subseteq unlinked
  <2>1. current_start_timestamp # 0
    BY DEF Ended, Stamps, TMTypeOK
  <2> QED BY <2>1 DEF Ended, AbortedSet
<1>4. LinkedAreKept'
  <2>1. linked' \cap (Elems(old_transactions') \cup freed') = {}
    BY <1>1, <1>3, Zenon DEF Reclamation, LinkedAreKept
  <2> QED BY <2>1, Zenon DEF LinkedAreKept, Elems
<1>5. ASSUME NEW v \in Txn, query'[v] # "none"
      PROVE  v # t /\ query'[v] = query[v] /\ reachable'[v] = reachable[v]
  BY <1>2, <1>5, Zenon DEF TMTypeOK
<1>6. QueryNumbers'
  BY <1>1, <1>2, <1>5, Zenon DEF Reclamation, QueryNumbers
<1>7. ReachableKept'
  <2> SUFFICES ASSUME NEW v \in Txn, query'[v] = "running", NEW u \in reachable'[v]
               PROVE  /\ u \notin freed'
                      /\ u \in Elems(old_transactions') => highest_active_query'[u] > active_query'[v]
    BY Zenon DEF ReachableKept, Elems
  <2>1. /\ v # t /\ query[v] = "running" /\ u \in reachable[v] /\ u \in Txn
    BY <1>5, Zenon DEF TMTypeOK
  <2>2. v \in others /\ active_query[v] < current_query_number
    BY <2>1, Zenon DEF Reclamation, QueryNumbers
  <2>3. /\ u \notin freed
        /\ u \in Elems(old_transactions) => highest_active_query[u] > active_query[v]
    BY <2>1, Zenon DEF Reclamation, ReachableKept
  <2>4. /\ active_query[v] \in Nat /\ current_query_number \in Nat
        /\ highest_active_query[u] \in Nat
    BY <2>1, Zenon DEF TMTypeOK
  <2>5. u \in Elems(old_transactions) \cup now => highest_active_query'[u] > active_query[v]
    <3>1. highest_active_query'[u] =
            IF u \in now THEN current_query_number ELSE highest_active_query[u]
      BY <1>1, <2>1, Zenon DEF Retire
    <3> QED BY <3>1, <2>2, <2>3, <2>4, Zenon
  <2>6. u \notin gone
    <3>1. ASSUME u \in gone PROVE FALSE
      <4>1. ~(highest_active_query'[u] >= active_query[v])
        BY <3>1, <1>1, <2>2, Zenon DEF StillQueried
      <4>2. highest_active_query'[u] > active_query[v]
        BY <3>1, <1>1, <2>5, Zenon
      <4>3. highest_active_query'[u] \in Nat
        BY <1>1, <2>1, <2>4, Zenon DEF Retire
      <4> QED BY <4>1, <4>2, <4>3, <2>4
    <3> QED BY <3>1, Zenon
  <2> QED BY <1>1, <1>2, <2>3, <2>5, <2>6, Zenon
<1> QED BY <1>4, <1>6, <1>7, Zenon DEF Reclamation

\* Every step keeps the reclamation invariant.
LEMMA ReclamationStep ==
  TMTypeOK /\ Stamps /\ Reclamation /\ [TMNext]_tmVars => Reclamation'
<1> SUFFICES ASSUME TMTypeOK, Stamps, Reclamation, [TMNext]_tmVars PROVE Reclamation'
  BY Zenon
<1>0. Elems(old_transactions)' = Elems(old_transactions')
  BY Zenon DEF Elems
<1>1. CASE UNCHANGED tmVars
  BY <1>1 DEF Reclamation, LinkedAreKept, QueryNumbers, ReachableKept, Elems,
              tmVars, counters, lists, fields, clients
<1>2. ASSUME NEW t \in Txn, StartTransaction(t) PROVE Reclamation'
  <2>1. /\ t \notin Elems(old_transactions) \cup freed
        /\ active_transactions' = active_transactions \cup {t}
        /\ linked' = linked \cup {t}
        /\ reachable' = [u \in Txn |-> IF Reading(u) THEN reachable[u] \cup {t} ELSE reachable[u]]
        /\ UNCHANGED <<current_query_number, old_transactions, freed, highest_active_query,
                       active_query, query, fetched>>
    BY <1>2, Zenon DEF StartTransaction, NewTransaction, MayStart, Started
  <2>2. LinkedAreKept'
    BY <2>1 DEF Reclamation, LinkedAreKept, Elems
  <2>3. QueryNumbers'
    BY <2>1, Zenon DEF Reclamation, QueryNumbers
  <2>4. ReachableKept'
    <3>1. \A v \in Txn : reachable'[v] \subseteq reachable[v] \cup {t}
      BY <2>1, Zenon
    <3> QED BY <2>1, <3>1 DEF Reclamation, ReachableKept, Elems
  <2> QED BY <2>2, <2>3, <2>4, Zenon DEF Reclamation
<1>3. ASSUME NEW t \in Txn, CommitTransaction(t) \/ RollbackTransaction(t) PROVE Reclamation'
  <2>1. PICK unlinked, clean, gone \in SUBSET Txn : Ended(t, unlinked, clean, gone)
    BY <1>3, EndIsRetirement, Zenon
  <2> QED BY <2>1, ReclamationEnd, Zenon
<1>4. ASSUME NEW t \in Txn, CommitTransactionFails(t) PROVE Reclamation'
  BY <1>4 DEF CommitTransactionFails, Reclamation, LinkedAreKept, QueryNumbers, ReachableKept,
              Elems, lists, clients
<1>5. ASSUME NEW t \in Txn, EndCheckpoint(t) PROVE Reclamation'
  BY <1>5 DEF EndCheckpoint, Reclamation, LinkedAreKept, QueryNumbers, ReachableKept,
              Elems, counters, lists, fields, clients
<1>6. ASSUME NEW t \in Txn, GetQueryNumber(t) PROVE Reclamation'
  <2>1. /\ t \in active_transactions
        /\ fetched' = [fetched EXCEPT ![t] = current_query_number]
        /\ current_query_number' = current_query_number + 1
        /\ query' = [query EXCEPT ![t] = "numbered"]
        /\ UNCHANGED <<active_transactions, old_transactions, freed, highest_active_query,
                       active_query, linked, reachable>>
    BY <1>6, Zenon DEF GetQueryNumber, lists, fields
  <2>2. \A v \in Txn : /\ query'[v] = IF v = t THEN "numbered" ELSE query[v]
                       /\ fetched'[v] = IF v = t THEN current_query_number ELSE fetched[v]
    BY <2>1, Zenon DEF TMTypeOK
  <2>3. QueryNumbers'
    BY <2>1, <2>2 DEF Reclamation, QueryNumbers, TMTypeOK
  <2>4. ReachableKept'
    BY <2>1, <2>2 DEF Reclamation, ReachableKept, Elems
  <2>5. LinkedAreKept'
    BY <2>1, Zenon DEF Reclamation, LinkedAreKept, Elems
  <2> QED BY <2>3, <2>4, <2>5, Zenon DEF Reclamation
<1>7. ASSUME NEW t \in Txn, StartQuery(t) PROVE Reclamation'
  <2>1. /\ query[t] = "numbered"
        /\ active_query' = [active_query EXCEPT ![t] = fetched[t]]
        /\ query' = [query EXCEPT ![t] = "running"]
        /\ reachable' = [reachable EXCEPT ![t] = linked]
        /\ fetched' = [fetched EXCEPT ![t] = 0]
        /\ UNCHANGED <<current_query_number, active_transactions, old_transactions, freed,
                       highest_active_query, linked>>
    BY <1>7, Zenon DEF StartQuery, BeginReading, counters, lists
  <2>2. \A v \in Txn : /\ query'[v] = IF v = t THEN "running" ELSE query[v]
                       /\ active_query'[v] = IF v = t THEN fetched[t] ELSE active_query[v]
                       /\ reachable'[v] = IF v = t THEN linked ELSE reachable[v]
                       /\ v # t => fetched'[v] = fetched[v]
    BY <2>1, Zenon DEF TMTypeOK
  <2>3. QueryNumbers'
    BY <2>1, <2>2 DEF Reclamation, QueryNumbers
  <2>4. ReachableKept'
    BY <2>1, <2>2 DEF Reclamation, ReachableKept, LinkedAreKept, Elems
  <2>5. LinkedAreKept'
    BY <2>1, Zenon DEF Reclamation, LinkedAreKept, Elems
  <2> QED BY <2>3, <2>4, <2>5, Zenon DEF Reclamation
<1>8. ASSUME NEW t \in Txn, EndQuery(t) PROVE Reclamation'
  <2>1. /\ active_query' = [active_query EXCEPT ![t] = MAXIMUM_QUERY_ID]
        /\ query' = [query EXCEPT ![t] = "none"]
        /\ reachable' = [reachable EXCEPT ![t] = {}]
        /\ UNCHANGED <<current_query_number, active_transactions, old_transactions, freed,
                       highest_active_query, linked, fetched>>
    BY <1>8, Zenon DEF EndQuery, counters, lists
  <2>2. \A v \in Txn : /\ query'[v] = IF v = t THEN "none" ELSE query[v]
                       /\ v # t => active_query'[v] = active_query[v] /\ reachable'[v] = reachable[v]
    BY <2>1, Zenon DEF TMTypeOK
  <2> QED BY <2>1, <2>2 DEF Reclamation, QueryNumbers, ReachableKept, LinkedAreKept, Elems
<1>9. ASSUME NEW t \in Txn, BeginAppend(t) \/ EndAppend(t) PROVE Reclamation'
  <2>1. /\ query' = [query EXCEPT ![t] = "appending"] \/ query' = [query EXCEPT ![t] = "none"]
        /\ reachable' = [reachable EXCEPT ![t] = linked] \/ reachable' = [reachable EXCEPT ![t] = {}]
        /\ UNCHANGED <<current_query_number, active_transactions, old_transactions, freed,
                       highest_active_query, active_query, linked, fetched>>
    BY <1>9, Zenon DEF BeginAppend, EndAppend, BeginReading, counters, lists, fields
  <2>2. \A v \in Txn : /\ v = t => query'[v] \in {"appending", "none"}
                       /\ v # t => query'[v] = query[v] /\ reachable'[v] = reachable[v]
    BY <2>1, Zenon DEF TMTypeOK
  <2> QED BY <2>1, <2>2 DEF Reclamation, QueryNumbers, ReachableKept, LinkedAreKept, Elems
<1> QED BY <1>1, <1>2, <1>3, <1>4, <1>5, <1>6, <1>7, <1>8, <1>9, Zenon DEF TMNext

\* No running query ever loses an undo buffer it may point into, although
\* active_query is fetched and stored without transaction_lock.
THEOREM ReclaimIsSafe == TMSpec => []ReclaimSafe
<1>1. TMInit => Reclamation
  BY Zenon DEF TMInit, Reclamation, LinkedAreKept, QueryNumbers, ReachableKept
<1>2. Reclamation => ReclaimSafe
  BY Zenon DEF Reclamation, ReachableKept, ReclaimSafe
<1> QED BY <1>1, <1>2, TypeCorrect, StampsInvariant, ReclamationStep, PTL DEF TMSpec

-----------------------------------------------------------------------------
(* Completeness of collection.                                              *)

\* The removal of the last active transaction empties the lists, up to a
\* commit_id in the identifier space.
LEMMA LastRemovalReclaims ==
  ASSUME TMTypeOK, NEW t \in Txn, NEW cids \in [Txn -> Nat],
         NEW unlinked \in SUBSET Txn, NEW n \in Nat,
         RemoveTransaction(t, cids, unlinked, n), commit_id' = cids,
         active_transactions' = {}
  PROVE  /\ old_transactions' = <<>>
         /\ \/ recently_committed_transactions' = <<>>
            \/ commit_id'[Head(recently_committed_transactions')] >= TRANSACTION_ID_START
<1> DEFINE others == active_transactions \ {t}
           rc == Committed(t, cids)
           clean == SubSeq(rc, 1, n)
           ab == Aborted(t, cids)
           old == ab \o clean
           haq == Retire(Elems(clean) \cup AbortedSet(t, cids))
<1>1. /\ CanCleanup(rc, n, cids, others)
      /\ others = {}
      /\ recently_committed_transactions' = SubSeq(rc, n + 1, Len(rc))
      /\ \E m \in 0..Len(old) :
           /\ CanFree(old, m, haq, others)
           /\ old_transactions' = SubSeq(old, m + 1, Len(old))
  BY Zenon DEF RemoveTransaction, AbortedSet
<1>2. rc \in Seq(Txn) /\ ab \in Seq(Txn)
  BY ElemsAppend, Zenon DEF Committed, Aborted, TMTypeOK
<1>3. n \in 0..Len(rc)
  BY <1>1, <1>2 DEF CanCleanup
<1>4. old \in Seq(Txn)
  <2> HIDE DEF rc, ab
  <2>1. clean \in Seq(Txn)
    BY <1>2, <1>3, ElemsSplit, Zenon
  <2> HIDE DEF clean
  <2> QED BY <1>2, <2>1, ElemsConcat, Zenon
<1>5. old_transactions' = <<>>
  <2> HIDE DEF old
  <2>1. old_transactions' = SubSeq(old, Len(old) + 1, Len(old))
    BY <1>1, Zenon DEF CanFree
  <2> QED BY <1>4, <2>1
<1>6. CASE n = Len(rc)
  <2> HIDE DEF rc
  <2>1. recently_committed_transactions' = <<>>
    BY <1>1, <1>2, <1>6
  <2> QED BY <1>5, <2>1, Zenon
<1>7. CASE n < Len(rc)
  <2> HIDE DEF rc, others
  <2>1. ~BelowLowestStart(cids[rc[n + 1]], {})
    BY <1>1, <1>7, Zenon DEF CanCleanup
  <2>2. rc[n + 1] \in Txn
    BY <1>2, <1>3, <1>7
  <2>3. cids[rc[n + 1]] >= TRANSACTION_ID_START
    BY <2>1, <2>2, ConstantsAssumption DEF BelowLowestStart
  <2>4. Head(SubSeq(rc, n + 1, Len(rc))) = rc[n + 1]
    BY <1>2, <1>3, <1>7
  <2> QED BY <1>1, <1>5, <2>3, <2>4, Zenon
<1> QED BY <1>3, <1>6, <1>7

\* When no transaction is active, everything collectable has been collected.
THEOREM CollectionIsComplete == TMSpec => []QuiescentReclaimed
<1>1. TMInit => QuiescentReclaimed
  BY Zenon DEF TMInit, QuiescentReclaimed
<1>2. TMTypeOK /\ QuiescentReclaimed /\ [TMNext]_tmVars => QuiescentReclaimed'
  <2> SUFFICES ASSUME TMTypeOK, QuiescentReclaimed, [TMNext]_tmVars, active_transactions' = {}
               PROVE  /\ old_transactions' = <<>>
                      /\ \/ recently_committed_transactions' = <<>>
                         \/ commit_id'[Head(recently_committed_transactions')] >= TRANSACTION_ID_START
    BY Zenon DEF QuiescentReclaimed
  <2>1. CASE UNCHANGED ownership
    BY <2>1, Zenon DEF QuiescentReclaimed, ownership, lists
  <2>2. ASSUME NEW t \in Txn, StartTransaction(t) PROVE FALSE
    BY <2>2, Zenon DEF StartTransaction, NewTransaction
  <2>3. ASSUME NEW t \in Txn, CommitTransactionFails(t) PROVE FALSE
    BY <2>3, Zenon DEF CommitTransactionFails, MayEnd, lists
  <2>4. CASE \E t \in Txn : CommitTransaction(t)
    <3>1. PICK t \in Txn, n \in 0..(Len(recently_committed_transactions) + 1) :
            CommitTransactionCleaning(t, n)
      BY <2>4, Zenon DEF CommitTransaction
    <3> DEFINE cids == [commit_id EXCEPT ![t] = current_start_timestamp]
    <3>2. /\ commit_id' = cids /\ RemoveTransaction(t, cids, {}, n)
          /\ cids \in [Txn -> Nat] /\ n \in Nat
      BY <3>1 DEF CommitTransactionCleaning, TMTypeOK
    <3> HIDE DEF cids
    <3> QED BY <3>2, LastRemovalReclaims, Zenon
  <2>5. CASE \E t \in Txn : RollbackTransaction(t)
    <3>1. PICK t \in Txn, n \in 0..(Len(recently_committed_transactions) + 1) :
            RollbackTransactionCleaning(t, n)
      BY <2>5, Zenon DEF RollbackTransaction
    <3>2. /\ commit_id' = commit_id /\ RemoveTransaction(t, commit_id, {t}, n)
          /\ commit_id \in [Txn -> Nat] /\ n \in Nat /\ {t} \in SUBSET Txn
      BY <3>1 DEF RollbackTransactionCleaning, TMTypeOK
    <3> QED BY <3>2, LastRemovalReclaims, Zenon
  <2> QED BY <2>1, <2>2, <2>3, <2>4, <2>5, OwnershipSteps, Zenon
<1> QED BY <1>1, <1>2, TypeCorrect, PTL DEF TMSpec

-----------------------------------------------------------------------------
(* The order of commits in the lists.                                       *)

\* In the list L everyone has a commit_id in ids, and those in V committed after
\* all that are before them.
InOrder(L, ids, V) ==
  /\ \A i \in 1..Len(L) : ids[L[i]] # 0
  /\ \A i, j \in 1..Len(L) : i < j /\ L[j] \in V => ids[L[i]] < ids[L[j]]

\* The end of t stamps no other transaction; V are those of which something is
\* left after it, W those of which there was before.
StampedOnly(t, W, V) ==
  /\ commit_id' \in [Txn -> Nat]
  /\ \A u \in Txn : u # t => commit_id'[u] = commit_id[u] /\ (u \in V => u \in W)
  /\ t \in V => commit_id'[t] = current_start_timestamp

\* The list with which the collection starts is in order, when t ends.
LEMMA CommittedInOrder ==
  ASSUME TMTypeOK, OwnedOnce, Stamps, NEW t \in active_transactions, NEW W, NEW V,
         StampedOnly(t, W, V), InOrder(recently_committed_transactions, commit_id, W),
         NEW L, L = Committed(t, commit_id')
  PROVE  L \in Seq(Txn) /\ InOrder(L, commit_id', V)
<1>r. PICK rc \in Seq(Txn) : rc = recently_committed_transactions
  BY Zenon DEF TMTypeOK
<1>n. PICK n \in Nat : n = Len(rc)
  BY <1>r
<1>1. t \in Txn /\ current_start_timestamp \in Nat /\ commit_id \in [Txn -> Nat]
  BY Zenon DEF TMTypeOK
<1>2. \A i \in 1..n : rc[i] \in Txn /\ rc[i] # t
  BY <1>r, <1>n DEF OwnedOnce, Elems
<1>3. \A i \in 1..n : commit_id'[rc[i]] = commit_id[rc[i]] /\ commit_id[rc[i]] # 0
  BY <1>2, <1>r, <1>n, Zenon DEF StampedOnly, InOrder
<1>4. \A i, j \in 1..n : i < j /\ rc[j] \in V => commit_id'[rc[i]] < commit_id'[rc[j]]
  BY <1>2, <1>3, <1>r, <1>n DEF StampedOnly, InOrder
<1>5. \A i \in 1..n : t \in V => commit_id'[rc[i]] < commit_id'[t]
  BY <1>2, <1>3, Zenon DEF StampedOnly, Stamps
<1>6. CASE commit_id'[t] = 0
  <2>1. L = rc
    BY <1>6, <1>r, Zenon DEF Committed
  <2> QED BY <2>1, <1>n, <1>3, <1>4, Zenon DEF InOrder
<1>7. CASE commit_id'[t] # 0
  <2>1. L = Append(rc, t)
    BY <1>7, <1>r, Zenon DEF Committed
  <2>2. L \in Seq(Txn) /\ Len(L) = n + 1 /\ L[n + 1] = t /\ \A i \in 1..n : L[i] = rc[i]
    BY <2>1, <1>1, <1>n
  <2>3. \A i \in 1..(n + 1) :
          /\ i \in 1..n \/ i = n + 1
          /\ \A j \in 1..(n + 1) : i < j => i \in 1..n
    BY <1>n
  <2>4. \A i \in 1..(n + 1) : commit_id'[L[i]] # 0
    BY <2>2, <2>3, <1>3, <1>7, Zenon
  <2>5. ASSUME NEW i \in 1..(n + 1), NEW j \in 1..(n + 1), i < j, L[j] \in V
        PROVE  commit_id'[L[i]] < commit_id'[L[j]]
    <3>1. i \in 1..n /\ L[i] = rc[i]
      BY <2>5, <2>2, <2>3, Zenon
    <3>2. CASE j = n + 1
      BY <3>1, <3>2, <2>2, <2>5, <1>5, Zenon
    <3>3. CASE j \in 1..n
      BY <3>1, <3>3, <2>2, <2>5, <1>4, Zenon
    <3> QED BY <3>2, <3>3, <2>3, Zenon
  <2> QED BY <2>2, <2>4, <2>5, Zenon DEF InOrder
<1> QED BY <1>6, <1>7, Zenon

\* What the removal of t, which cleans up the set clean, does to the lists: those
\* in V still to be cleaned up committed after those in clean.
OrderlyRemoval(t, clean, V) ==
  /\ active_transactions' = active_transactions \ {t}
  /\ clean \subseteq Elems(recently_committed_transactions) \cup CommittedSet(t, commit_id')
  /\ Elems(recently_committed_transactions') =
       (Elems(recently_committed_transactions) \cup CommittedSet(t, commit_id')) \ clean
  /\ CleanedUp' = CleanedUp \cup clean
  /\ Started' = Started
  /\ \A u \in clean, w \in Elems(recently_committed_transactions') :
       w \in V => commit_id'[u] < commit_id'[w]
  /\ InOrder(recently_committed_transactions', commit_id', V)

\* RemoveTransaction cleans up from the front of the list and keeps it in order.
LEMMA RemovalInOrder ==
  ASSUME TMTypeOK, OwnedOnce, Stamps, NEW t \in active_transactions, NEW W, NEW V,
         StampedOnly(t, W, V), InOrder(recently_committed_transactions, commit_id, W),
         NEW n \in Nat, NEW unlinked \in SUBSET Txn, RemoveTransaction(t, commit_id', unlinked, n)
  PROVE  OrderlyRemoval(t, Elems(SubSeq(Committed(t, commit_id'), 1, n)), V)
<1>c. PICK clean : clean = Elems(SubSeq(Committed(t, commit_id'), 1, n))
  BY Zenon
<1>L. PICK L : L = Committed(t, commit_id')
  BY Zenon
<1>d. PICK d : d = recently_committed_transactions'
  BY Zenon
<1>1. L \in Seq(Txn) /\ InOrder(L, commit_id', V)
  BY <1>L, CommittedInOrder, Zenon
<1>2. PICK gone \in SUBSET Txn : Retirement(t, commit_id', unlinked, clean, gone)
  <2>1. t \in Txn /\ commit_id' \in [Txn -> Nat]
    BY Zenon DEF TMTypeOK, StampedOnly
  <2> QED BY <2>1, <1>c, RemovalRetires, Zenon
<1>3. /\ active_transactions' = active_transactions \ {t}
      /\ Elems(recently_committed_transactions) \cup CommittedSet(t, commit_id') = Elems(d) \cup clean
      /\ Elems(old_transactions) \cup AbortedSet(t, commit_id') \cup clean
           = Elems(old_transactions') \cup gone
      /\ freed' = freed \cup gone
      /\ Elems(d) \cap clean = {}
  BY <1>2, <1>d, Zenon DEF Retirement
<1>4. n \in 0..Len(L) /\ clean = Elems(SubSeq(L, 1, n)) /\ d = SubSeq(L, n + 1, Len(L))
  BY <1>c, <1>d, <1>L, <1>1 DEF RemoveTransaction, CanCleanup
<1>5. \A u \in clean : \E i \in 1..n : L[i] = u
  <2>1. L \in Seq(Txn) /\ n \in 0..Len(L)
    BY <1>1, <1>4, Zenon
  <2>2. Elems(SubSeq(L, 1, n)) = {L[i] : i \in 1..n}
    BY <2>1, ElemsSplit
  <2> QED BY <2>2, <1>4, Zenon
<1>6. /\ Len(d) = Len(L) - n
      /\ \A k \in 1..Len(d) : /\ d[k] = L[k + n] /\ k + n \in 1..Len(L)
                              /\ \A i \in 1..n : i \in 1..Len(L) /\ i < k + n
                              /\ \A l \in 1..Len(d) : k < l => k + n < l + n
  BY <1>1, <1>4
<1>7. ASSUME NEW u \in clean, NEW w \in Elems(d), w \in V PROVE commit_id'[u] < commit_id'[w]
  <2>1. PICK i \in 1..n : L[i] = u
    BY <1>5, Zenon
  <2>2. PICK k \in 1..Len(d) : d[k] = w
    BY Zenon DEF Elems
  <2>3. i \in 1..Len(L) /\ k + n \in 1..Len(L) /\ i < k + n /\ L[k + n] = w
    BY <2>1, <2>2, <1>6, Zenon
  <2> QED BY <2>1, <2>3, <1>1, <1>7, Zenon DEF InOrder
<1>8. InOrder(d, commit_id', V)
  <2>1. \A k \in 1..Len(d) : commit_id'[d[k]] # 0
    BY <1>1, <1>6, Zenon DEF InOrder
  <2>2. ASSUME NEW k \in 1..Len(d), NEW l \in 1..Len(d), k < l, d[l] \in V
        PROVE  commit_id'[d[k]] < commit_id'[d[l]]
    <3>1. /\ d[k] = L[k + n] /\ k + n \in 1..Len(L) /\ d[l] = L[l + n] /\ l + n \in 1..Len(L)
          /\ k + n < l + n
      BY <2>2, <1>6, Zenon
    <3> QED BY <3>1, <2>2, <1>1, Zenon DEF InOrder
  <2> QED BY <2>1, <2>2, Zenon DEF InOrder
<1>9. \A u \in clean : commit_id'[u] # 0
  <2> TAKE u \in clean
  <2>1. PICK i \in 1..n : L[i] = u
    BY <1>5, Zenon
  <2>2. i \in 1..Len(L)
    BY <1>1, <1>4
  <2> QED BY <2>1, <2>2, <1>1, Zenon DEF InOrder
<1>10. CleanedUp' = CleanedUp \cup clean
  <2>1. Elems(old_transactions') \cup freed'
          = Elems(old_transactions) \cup freed \cup AbortedSet(t, commit_id') \cup clean
    BY <1>3, Zenon
  <2>2. \A u \in AbortedSet(t, commit_id') : commit_id'[u] = 0
    BY Zenon DEF AbortedSet
  <2>3. Elems(old_transactions) \cup freed \subseteq Txn
    BY ElemsType, Zenon DEF TMTypeOK
  <2>4. \A u \in Elems(old_transactions) \cup freed : commit_id'[u] = commit_id[u]
    BY <2>3, Zenon DEF StampedOnly, OwnedOnce
  <2>5. /\ CleanedUp' = {u \in Elems(old_transactions') \cup freed' : commit_id'[u] # 0}
        /\ CleanedUp = {u \in Elems(old_transactions) \cup freed : commit_id[u] # 0}
    BY Zenon DEF CleanedUp
  <2> QED BY <2>1, <2>2, <2>4, <2>5, <1>9, Zenon
<1>11. Started' = Started
  <2>1. Started' = (active_transactions \ {t}) \cup Elems(d) \cup Elems(old_transactions') \cup freed'
    BY <1>3, <1>d, Zenon DEF Started
  <2>2. AbortedSet(t, commit_id') \cup CommittedSet(t, commit_id') = {t}
    BY Zenon DEF AbortedSet, CommittedSet
  <2> QED BY <2>1, <2>2, <1>3 DEF Started
<1>12. OrderlyRemoval(t, clean, V)
  BY <1>3, <1>7, <1>8, <1>10, <1>11, <1>d, Zenon DEF OrderlyRemoval
<1> QED BY <1>12, <1>c, Zenon
=============================================================================
