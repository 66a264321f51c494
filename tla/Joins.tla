------------------------------- MODULE Joins --------------------------------
(***************************************************************************)
(* The join operators.  A plan has the join type, the conditions (a        *)
(* comparison, and whether NULL equals NULL), and the chunks that the two  *)
(* children return.  A row of the result is a tuple: the identity of the   *)
(* left row, and that of the right row (0 for NULLs) or the mark.          *)
(*                                                                         *)
(* One pass of the loop in _GetChunk is one operator here; it takes the    *)
(* plan, the state of the operator, and says whether it is the first pass  *)
(* of a call.                                                              *)
(***************************************************************************)
EXTENDS Vectors

CONSTANT InitialCapacity      \* of a hash table

Ids(rows) == [i \in DOMAIN rows |-> <<rows[i].id>>]
WithNulls(rows) == [i \in DOMAIN rows |-> <<rows[i].id, 0>>]
Where(rows, S) == SelectSeq([i \in DOMAIN rows |-> i], LAMBDA i : i \in S)
Rest(rows, S) == LET at == Where(rows, DOMAIN rows \ S) IN [k \in DOMAIN at |-> rows[at[k]]]
Matching(rows, S) == LET at == Where(rows, S) IN [k \in DOMAIN at |-> rows[at[k]]]

\* The key of a row with NullValue<T> and no null bit in the columns where NULLs
\* are equal (FillNullMask).
Filled(conditions, key) ==
  [c \in DOMAIN conditions |->
     IF conditions[c].null_values_are_equal /\ key[c].null THEN NotNull(NullRaw) ELSE key[c]]

AllMatch(conditions, key1, key2) ==
  \A c \in DOMAIN conditions : Compare(conditions[c].comparison, key1[c].raw, key2[c].raw)

\* The mark of each row: NULL where the key is, or where nothing was found and
\* the right side has a NULL.
ConstructMarkJoinResult(rows, keys, found, right_has_null) ==
  [i \in DOMAIN rows |->
     << rows[i].id,
        IF (keys # <<>> /\ HasNull(keys[i])) \/ (right_has_null /\ i \notin found) THEN "null"
          ELSE IF i \in found THEN "true" ELSE "false" >>]

-----------------------------------------------------------------------------
(* The hash table.  table has a chain of entries for each position, the     *)
(* newest first; nodes has the entries in the order of insertion, by node.  *)

IsEquality(cond) == cond.comparison = "EQUAL"

\* Any function of the raw data of the equality columns will do; NULL is hashed
\* as NullValue<T>.
Hash(conditions, key, capacity) ==
  LET columns == {c \in DOMAIN conditions : IsEquality(conditions[c])}
  IN  SumSet({c * 10 + (IF key[c].null THEN NullRaw ELSE key[c].raw) : c \in columns}) % capacity

InsertHashes(table, conditions, entries) ==
  FoldLeft(LAMBDA t, e : LET h == Hash(conditions, e.key, Cardinality(DOMAIN t))
                         IN  [t EXCEPT ![h] = <<e>> \o t[h]],
           table, entries)

\* Mutant of Resize: the entries of the newest node only.
ResizeNewest(ht, conditions, size) ==
  [ht EXCEPT !.table = IF ht.nodes = <<>> THEN [h \in 0..(size - 1) |-> <<>>]
                         ELSE InsertHashes([h \in 0..(size - 1) |-> <<>>], conditions, Head(ht.nodes)),
             !.capacity = size]

\* All entries again, those of the newest node first.
Resize(ht, conditions, size) ==
  LET empty == [h \in 0..(size - 1) |-> <<>>]
  IN  [ht EXCEPT !.table = FoldLeft(LAMBDA t, node : InsertHashes(t, conditions, node), empty, ht.nodes),
                 !.capacity = size]

NewHashTable ==
  [table |-> [h \in 0..(InitialCapacity - 1) |-> <<>>], capacity |-> InitialCapacity, count |-> 0,
   has_null |-> FALSE, nodes |-> <<>>, counted |-> <<>>]

\* One chunk of the right side.  counted is what correlated_counts aggregates.
Build(ht, plan, rows) ==
  LET conditions == plan.conditions
      entries == [i \in DOMAIN rows |-> [key |-> Filled(conditions, rows[i].key), id |-> rows[i].id]]
      kept == SelectSeq(entries, LAMBDA e : ~HasNull(e.key))
      sized == IF ht.count + Len(rows) > ht.capacity \div 2 THEN Resize(ht, conditions, ht.capacity * 2) ELSE ht
      built == [sized EXCEPT !.count = @ + Len(rows),
                             !.has_null = @ \/ Len(kept) < Len(rows),
                             !.counted = IF plan.correlated THEN @ \o entries ELSE @]
  IN  IF kept = <<>> THEN built
        ELSE [built EXCEPT !.table = InsertHashes(@, conditions, kept), !.nodes = <<kept>> \o @]

\* Where the rows of a chunk start to look: pointers are the rests of chains.
Probe(ht, conditions, keys) ==
  [pointers |-> [i \in DOMAIN keys |-> ht.table[Hash(conditions, keys[i], ht.capacity)]],
   found |-> {}, finished |-> FALSE]

Pointing(ss) == {i \in DOMAIN ss.pointers : ss.pointers[i] # <<>>}

\* ResolvePredicates: the rows whose current entry satisfies all conditions.  The
\* null masks of the keys are not looked at.
ResolvePredicates(plan, keys, ss) ==
  {i \in Pointing(ss) : AllMatch(plan.conditions, keys[i], Head(ss.pointers[i]).key)}

\* The pointers of the rows in S move on, those of others are dropped.
Chase(ss, S) ==
  [i \in DOMAIN ss.pointers |-> IF i \in S THEN Tail(ss.pointers[i]) ELSE <<>>]

RECURSIVE ScanInnerJoin(_, _, _)
\* The first round of the chase with a match: the scan structure, and who
\* matched what.
ScanInnerJoin(plan, keys, ss) ==
  LET match == ResolvePredicates(plan, keys, ss)
      next == [ss EXCEPT !.pointers = Chase(ss, Pointing(ss)), !.found = @ \cup match]
      rows == Where(keys, match)
  IN  IF match = {} /\ Pointing(next) # {} THEN ScanInnerJoin(plan, keys, next)
        ELSE << next, [k \in DOMAIN rows |-> <<rows[k], Head(ss.pointers[rows[k]]).id>>] >>

RECURSIVE ScanKeyMatches(_, _, _)
\* All rows that match some entry (semi, anti, mark), or the first entry that
\* each row matches (single): first has the matches, row by entry.
ScanKeyMatches(plan, keys, ss) ==
  LET match == ResolvePredicates(plan, keys, ss)
      next == [ss EXCEPT !.pointers = Chase(ss, Pointing(ss) \ match), !.found = @ \cup match]
      more == ScanKeyMatches(plan, keys, next)
      here == {<<i, Head(ss.pointers[i]).id>> : i \in match}
  IN  IF Pointing(ss) = {} THEN [ss |-> ss, first |-> {}]
        ELSE [ss |-> more.ss, first |-> here \cup more.first]

\* The marks of a correlated subquery: the NULLs among the right rows with the
\* same correlated columns count, not all of them.
NextCorrelatedMarkJoin(ht, rows, keys, found) ==
  LET Group(key) == {e \in ToSet(ht.counted) : Front(e.key) = Front(key)}
      WithNull(key) == \E e \in Group(key) : Last(e.key).null
  IN  [i \in DOMAIN rows |->
         << rows[i].id,
            CASE Group(keys[i]) = {} -> IF i \in found THEN "true" ELSE "false"
              [] Last(keys[i]).null \/ (i \notin found /\ WithNull(keys[i])) -> "null"
              [] i \in found -> "true"
              [] OTHER -> "false" >>]

\* ScanStructure::Next: the scan structure afterwards, and the rows it returns.
PairRows(rows, scan) ==
  <<scan[1], [k \in DOMAIN scan[2] |-> <<rows[scan[2][k][1]].id, scan[2][k][2]>>]>>

NextInnerJoin(plan, rows, keys, ss) ==
  IF Pointing(ss) = {} THEN <<ss, <<>>>> ELSE PairRows(rows, ScanInnerJoin(plan, keys, ss))

\* A left join ends with the rows that found nothing.
NextLeftJoin(rows, inner) ==
  IF inner[2] # <<>> THEN inner
    ELSE <<[inner[1] EXCEPT !.finished = TRUE], WithNulls(Rest(rows, inner[1].found))>>

\* The joins that look at all entries at once.
NextKeyJoin(plan, ht, rows, keys, all) ==
  LET found == all.ss.found
      done == [all.ss EXCEPT !.finished = TRUE]
      Match(i) == IF i \in found THEN (CHOOSE m \in all.first : m[1] = i)[2] ELSE 0
  IN  CASE plan.type = "SEMI" -> <<done, Ids(Matching(rows, found))>>
        [] plan.type = "ANTI" -> <<done, Ids(Rest(rows, found))>>
        [] plan.type = "SINGLE" -> <<done, [i \in DOMAIN rows |-> <<rows[i].id, Match(i)>>]>>
        [] plan.type = "MARK" -> << done,
             IF plan.correlated THEN NextCorrelatedMarkJoin(ht, rows, keys, found)
               ELSE ConstructMarkJoinResult(rows, keys, found, ht.has_null) >>

NextJoin(plan, ht, rows, keys, ss) ==
  CASE ss.finished -> <<ss, <<>>>>
    [] ~ss.finished /\ plan.type = "INNER" -> NextInnerJoin(plan, rows, keys, ss)
    [] ~ss.finished /\ plan.type = "LEFT" -> NextLeftJoin(rows, NextInnerJoin(plan, rows, keys, ss))
    [] OTHER -> NextKeyJoin(plan, ht, rows, keys, ScanKeyMatches(plan, keys, ss))

HashJoinInit == [initialized |-> FALSE, ht |-> NewHashTable, left |-> 1, child_chunk |-> <<>>, scan_structure |-> <<>>]

\* More results for the left chunk; the scan is dropped when there are none.
ScanAgain(state, again) ==
  Yields([state EXCEPT !.scan_structure = IF again[2] = <<>> THEN <<>> ELSE again[1]], again[2])

ScanFirst(state, probed) == Yields([state EXCEPT !.scan_structure = probed[1]], probed[2])

HashPass(plan, ready, ht, entering) ==
  LET Keys(rows) == [i \in DOMAIN rows |-> Filled(plan.conditions, rows[i].key)]
      rows == ChildChunk(plan.left, ready.left)
      fetched == [ready EXCEPT !.left = @ + 1, !.child_chunk = rows]
  IN  CASE entering /\ ready.child_chunk # <<>> /\ ready.scan_structure # <<>> ->
             ScanAgain(ready, NextJoin(plan, ht, ready.child_chunk, Keys(ready.child_chunk), ready.scan_structure))
        [] rows = <<>> -> Returns(fetched, <<>>)
        [] ht.count = 0 /\ plan.type = "ANTI" -> Returns(fetched, Ids(rows))
        [] ht.count = 0 /\ plan.type = "MARK" ->
             Returns(fetched, [i \in DOMAIN rows |-> <<rows[i].id, IF ht.has_null THEN "null" ELSE "false">>])
        [] OTHER -> ScanFirst(fetched, NextJoin(plan, ht, rows, Keys(rows), Probe(ht, plan.conditions, Keys(rows))))

ReadyToProbe(plan, state, ht, entering) ==
  IF ht.count = 0 /\ plan.type \in {"INNER", "SEMI"} THEN Returns(state, <<>>)
    ELSE HashPass(plan, [state EXCEPT !.initialized = TRUE, !.ht = ht], ht, entering)

\* PhysicalHashJoin::_GetChunk.
HashJoin(plan, state, entering) ==
  ReadyToProbe(plan, state, IF state.initialized THEN state.ht
                              ELSE FoldLeft(LAMBDA t, rows : Build(t, plan, rows), state.ht, plan.right), entering)

-----------------------------------------------------------------------------
(* The nested loop join, for conditions without an equality.  Positions of  *)
(* the code start at 0.                                                     *)

\* The rows of a chunk without a NULL in the key, as positions.
NotNullRows(rows) == SelectSeq([i \in DOMAIN rows |-> i], LAMBDA i : ~HasNull(rows[i].key))

RECURSIVE InitialNestedLoopJoin(_, _, _, _, _, _, _)
\* Pairs that satisfy the first condition, from (lpos, rpos) on, right row by
\* right row: the position reached, and the pairs.
InitialNestedLoopJoin(cond, left, right, lsel, rsel, pos, pairs) ==
  LET l == lsel[pos[1] + 1]
      r == rsel[pos[2] + 1]
      more == IF Compare(cond.comparison, left[l].key[1].raw, right[r].key[1].raw)
                THEN Append(pairs, <<l, r>>) ELSE pairs
  IN  CASE pos[2] >= Len(rsel) -> <<pos, pairs>>
        [] pos[1] >= Len(lsel) -> InitialNestedLoopJoin(cond, left, right, lsel, rsel, <<0, pos[2] + 1>>, pairs)
        [] Len(more) = STANDARD_VECTOR_SIZE /\ more # pairs -> <<pos, more>>
        [] OTHER -> InitialNestedLoopJoin(cond, left, right, lsel, rsel, <<pos[1] + 1, pos[2]>>, more)

RefineNestedLoopJoin(conditions, left, right, pairs) ==
  SelectSeq(pairs, LAMBDA p : AllMatch(Tail(conditions), Tail(left[p[1]].key), Tail(right[p[2]].key)))

PerformNestedLoopJoin(conditions, left, right, lsel, rsel, pos) ==
  LET initial == InitialNestedLoopJoin(Head(conditions), left, right, lsel, rsel, pos, <<>>)
  IN  IF pos[1] >= Len(lsel) \/ pos[2] >= Len(rsel) THEN <<pos, <<>>>>
        ELSE <<initial[1], RefineNestedLoopJoin(conditions, left, right, initial[2])>>

\* NestedLoopJoinMark: the rows of the left chunk for which some right row
\* satisfies some condition.
FoundMatch(conditions, left, right_chunks, rsels) ==
  {i \in DOMAIN left : \E b \in DOMAIN right_chunks : \E k \in DOMAIN rsels[b] :
     \E c \in DOMAIN conditions :
       Compare(conditions[c].comparison, left[i].key[c].raw, right_chunks[b][rsels[b][k]].key[c].raw)}

NestedLoopJoinInit ==
  [right_chunks |-> <<>>, rsels |-> <<>>, has_null |-> FALSE, right_chunk |-> 0, pos |-> <<0, 0>>,
   left |-> 1, child_chunk |-> <<>>, lsel |-> <<>>]

\* The right side.  RemoveNullValues is called until it has removed some, and
\* no more: has_null || RemoveNullValues(...).
RemoveNullValues(state, chunks) ==
  LET nulls == {b \in DOMAIN chunks : NotNullRows(chunks[b]) # [i \in DOMAIN chunks[b] |-> i]}
      rsels == [b \in DOMAIN chunks |->
                  IF nulls # {} /\ b = Min(nulls) THEN NotNullRows(chunks[b]) ELSE [i \in DOMAIN chunks[b] |-> i]]
  IN  [state EXCEPT !.right_chunks = chunks, !.rsels = rsels, !.has_null = nulls # {},
                    !.right_chunk = Len(chunks), !.pos = <<0, Len(Last(rsels))>>]

MaterializeRight(plan, state) == RemoveNullValues(state, Materialized(plan.right))

\* Mutant of Advance: the right chunk is read again.
AdvanceAgain(plan, state) ==
  LET rows == ChildChunk(plan.left, state.left)
      fetched == [state EXCEPT !.right_chunk = 1, !.pos = <<0, 0>>, !.left = @ + 1, !.child_chunk = rows,
                               !.lsel = NotNullRows(rows)]
  IN  CASE state.pos[2] < Len(state.rsels[state.right_chunk]) -> state
        [] state.right_chunk < Len(state.right_chunks) -> [state EXCEPT !.pos = <<0, 0>>]
        [] OTHER -> fetched

\* The first part of a pass: the next chunk of the right side, or of the left
\* side and the first one of the right.
Advance(plan, state) ==
  LET rows == ChildChunk(plan.left, state.left)
      all == [i \in DOMAIN rows |-> i]
      fetched == [state EXCEPT !.right_chunk = 1, !.pos = <<0, 0>>, !.left = @ + 1, !.child_chunk = rows,
                               !.lsel = IF plan.type = "MARK" THEN all ELSE NotNullRows(rows)]
  IN  CASE state.pos[2] < Len(state.rsels[state.right_chunk]) -> state
        [] state.right_chunk < Len(state.right_chunks) ->
             [state EXCEPT !.right_chunk = @ + 1, !.pos = <<0, 0>>]
        [] OTHER -> fetched

PairsOf(s, right, join) ==
  Yields([s EXCEPT !.pos = join[1]],
         [k \in DOMAIN join[2] |-> <<s.child_chunk[join[2][k][1]].id, right[join[2][k][2]].id>>])

NestedLoopPass(plan, s) ==
  LET left == s.child_chunk
      right == s.right_chunks[s.right_chunk]
  IN  CASE left = <<>> -> Returns(s, <<>>)
        [] left # <<>> /\ plan.type = "MARK" ->
             Returns([s EXCEPT !.right_chunk = Len(s.right_chunks) + 1],
                     ConstructMarkJoinResult(left, [i \in DOMAIN left |-> left[i].key],
                                             FoundMatch(plan.conditions, left, s.right_chunks, s.rsels), s.has_null))
        [] OTHER ->
             PairsOf(s, right,
                     PerformNestedLoopJoin(plan.conditions, left, right, s.lsel, s.rsels[s.right_chunk], s.pos))

AdvanceUnlessDone(plan, ready, entering) ==
  IF entering /\ ready.right_chunk > Len(ready.right_chunks) THEN Returns(ready, <<>>)
    ELSE NestedLoopPass(plan, Advance(plan, ready))

\* PhysicalNestedLoopJoin::_GetChunk.
NestedLoopJoin(plan, state, entering) ==
  CASE plan.right = <<>> /\ plan.type = "INNER" -> Returns(state, <<>>)
    [] plan.right = <<>> /\ plan.type = "MARK" ->
         Returns([state EXCEPT !.left = @ + 1],
                 ConstructMarkJoinResult(ChildChunk(plan.left, state.left), <<>>, {}, FALSE))
    [] OTHER ->
         AdvanceUnlessDone(plan, IF state.right_chunks = <<>> THEN MaterializeRight(plan, state) ELSE state, entering)

-----------------------------------------------------------------------------
(* The piecewise merge join, for one comparison that is not an equality:    *)
(* every chunk is sorted by itself.                                         *)

Column(rows) == [i \in DOMAIN rows |-> rows[i].key[1]]

RECURSIVE MergeLess(_, _, _, _, _, _)
\* Pairs with a smaller (or equal) x and a greater y, from the positions pos on.
\* x and y are the data in order.
MergeLess(comparison, x, y, l, r, pairs) ==
  LET more == Append(pairs, <<l, r>>)
  IN  IF l < Len(x) /\ Compare(comparison, x[l + 1], y[r + 1])
        THEN IF Len(more) = STANDARD_VECTOR_SIZE THEN <<l + 1, r, more>>
               ELSE MergeLess(comparison, x, y, l + 1, r, more)
        ELSE IF r + 1 = Len(y) THEN <<0, r + 1, pairs>> ELSE MergeLess(comparison, x, y, 0, r + 1, pairs)

\* MergeJoinInner::Perform: the positions reached, and pairs of positions in
\* the two orders.
PerformMergeJoin(comparison, x, y, l, r) ==
  LET less == MergeLess(comparison, x, y, l, r, <<>>)
      Flip(c) == IF c = "GREATERTHAN" THEN "LESSTHAN" ELSE "LESSTHANOREQUALTO"
      greater == MergeLess(Flip(comparison), y, x, r, l, <<>>)
  IN  CASE x = <<>> \/ y = <<>> -> <<l, r, <<>>>>
        [] comparison \in {"LESSTHAN", "LESSTHANOREQUALTO"} ->
             IF r >= Len(y) THEN <<l, r, <<>>>> ELSE less
        [] OTHER ->
             IF l >= Len(x) THEN <<l, r, <<>>>>
               ELSE <<greater[2], greater[1], [k \in DOMAIN greater[3] |-> <<greater[3][k][2], greater[3][k][1]>>]>>

\* merge_join_mark_lt and _gt: one walk over the left chunk in order, as long as
\* rows are smaller than the greatest value of the right chunk (or, from the
\* other end, greater than the smallest), resumed for every right chunk.  The
\* possible sets of rows found: of a chunk that has only NULLs the code reads an
\* order that was never written, and finds anything.
MergeFound(comparison, left, lorder, right_chunks, rorders) ==
  LET less == comparison \in {"LESSTHAN", "LESSTHANOREQUALTO"}
      walk == IF less THEN lorder ELSE Reverse(lorder)
      best(b) == right_chunks[b][IF less THEN Last(rorders[b]) ELSE Head(rorders[b])].key[1].raw
      Walk(pos, b) == Min({k \in pos..Len(walk) :
                             k < Len(walk) => ~Compare(comparison, left[walk[k + 1]].key[1].raw, best(b))})
  IN  IF lorder = <<>> \/ <<>> \in ToSet(rorders)
        THEN SUBSET DOMAIN left
        ELSE {ToSet(SubSeq(walk, 1, FoldLeft(Walk, 0, [b \in DOMAIN right_chunks |-> b])))}

PiecewiseMergeJoinInit ==
  [initialized |-> FALSE, right_chunks |-> <<>>, right_orders |-> <<>>, has_null |-> FALSE, right_chunk_index |-> 1,
   left |-> 1, child_chunk |-> <<>>, left_order |-> <<>>, pos |-> <<0, 0>>]

OrderedRight(state, chunks, orders) ==
  [state EXCEPT !.initialized = TRUE, !.right_chunks = chunks, !.right_orders = orders,
                !.has_null = \E b \in DOMAIN chunks : Len(orders[b]) < Len(chunks[b]),
                !.right_chunk_index = Len(chunks) + 1]

OrderRight(state, chunks) ==
  OrderedRight(state, chunks, [b \in DOMAIN chunks |-> OrderVector(Column(chunks[b]))])

InitializeMergeJoin(plan, state) == OrderRight(state, Materialized(plan.right))

FetchLeft(plan, state) ==
  LET rows == ChildChunk(plan.left, state.left)
  IN  [state EXCEPT !.left = @ + 1, !.child_chunk = rows, !.left_order = OrderVector(Column(rows)),
                    !.right_chunk_index = 1, !.pos = <<0, 0>>]

\* What is done with the pairs found in a left and a right chunk.
MergePass(s, right, rorder, join) ==
  IF join[3] = <<>> THEN Loops([s EXCEPT !.right_chunk_index = @ + 1, !.pos = <<0, 0>>])
    ELSE Returns([s EXCEPT !.pos = <<join[1], join[2]>>],
                 [k \in DOMAIN join[3] |-> <<s.child_chunk[s.left_order[join[3][k][1] + 1]].id,
                                             right[rorder[join[3][k][2] + 1]].id>>])

MergeInner(comparison, s, right, rorder) ==
  LET Data(rows, order) == [k \in DOMAIN order |-> rows[order[k]].key[1].raw]
  IN  MergePass(s, right, rorder,
                PerformMergeJoin(comparison, Data(s.child_chunk, s.left_order), Data(right, rorder), s.pos[1], s.pos[2]))

\* A pass with a left chunk: all of it for the marks, a pair of chunks otherwise.
MergeChunk(plan, s) ==
  LET comparison == plan.conditions[1].comparison
      left == s.child_chunk
      keys == [i \in DOMAIN left |-> left[i].key]
      rest == [s EXCEPT !.right_chunk_index = Len(s.right_chunks) + 1]
  IN  CASE left = <<>> -> {Returns(s, <<>>)}
        [] left # <<>> /\ plan.type = "MARK" /\ plan.right = <<>> ->
             {Returns(rest, ConstructMarkJoinResult(left, <<>>, {}, FALSE))}
        [] left # <<>> /\ plan.type = "MARK" /\ plan.right # <<>> ->
             {Returns(rest, ConstructMarkJoinResult(left, keys, found, s.has_null)) :
                found \in MergeFound(comparison, left, s.left_order, s.right_chunks, s.right_orders)}
        [] OTHER ->
             {MergeInner(comparison, s, s.right_chunks[s.right_chunk_index], s.right_orders[s.right_chunk_index])}

FetchIfDone(plan, s) == IF s.right_chunk_index > Len(s.right_chunks) THEN FetchLeft(plan, s) ELSE s

\* PhysicalPiecewiseMergeJoin::_GetChunk.
PiecewiseMergeJoin(plan, state, entering) ==
  IF plan.right = <<>> /\ plan.type = "INNER" THEN {Returns(state, <<>>)}
    ELSE MergeChunk(plan, FetchIfDone(plan, IF state.initialized THEN state ELSE InitializeMergeJoin(plan, state)))

-----------------------------------------------------------------------------
(* The blockwise nested loop join, for an arbitrary condition (here the     *)
(* disjunction of the comparisons), and the cross product.                  *)

BlockwiseInit ==
  [right_chunks |-> <<>>, left |-> 1, child_chunk |-> <<>>, left_position |-> 0, right_position |-> 0,
   found |-> {}, checked |-> FALSE]

AnyCondition(plan, key1, key2) ==
  SqlOr({Sql(plan.conditions[c].comparison, key1[c], key2[c]) : c \in DOMAIN plan.conditions})

BlockwisePass(plan, state, chunks) ==
  LET rows == ChildChunk(plan.left, state.left)
      exhausted == state.left_position >= Len(state.child_chunk)
      unmatched == Rest(state.child_chunk, state.found)
      fill == exhausted /\ plan.type = "LEFT" /\ ~state.checked /\ unmatched # <<>>
      fetched == [state EXCEPT !.left = @ + 1, !.child_chunk = rows, !.left_position = 0, !.right_position = 0,
                               !.found = {}, !.checked = FALSE]
      s == IF exhausted THEN fetched ELSE state
      left == s.child_chunk
      l == s.left_position + 1
      right == chunks[s.right_position + 1]
      match == {i \in DOMAIN right : AnyCondition(plan, left[l].key, right[i].key) = "true"}
      at == Where(right, match)
      last == l = Len(left)
      next == [s EXCEPT !.found = IF match = {} THEN @ ELSE @ \cup {l},
                        !.right_position = IF last THEN @ + 1 ELSE @,
                        !.left_position = IF last /\ s.right_position + 1 < Len(chunks) THEN 0 ELSE l]
  IN  CASE fill -> Returns([state EXCEPT !.checked = TRUE], WithNulls(unmatched))
        [] ~fill /\ left = <<>> -> Returns(s, <<>>)
        [] OTHER -> Yields(next, [k \in DOMAIN at |-> <<left[l].id, right[at[k]].id>>])

\* PhysicalBlockwiseNLJoin::_GetChunk.
BlockwiseNLJoin(plan, state, entering) ==
  CASE plan.right = <<>> /\ plan.type = "INNER" -> Returns(state, <<>>)
    [] plan.right = <<>> /\ plan.type = "LEFT" ->
         Returns([state EXCEPT !.left = @ + 1], WithNulls(ChildChunk(plan.left, state.left)))
    [] OTHER -> BlockwisePass(plan, state, Materialized(plan.right))

CrossProductInit == [right_data |-> <<>>, left |-> 1, child_chunk |-> <<>>, left_position |-> 0, right_position |-> 0]

\* One left row and one right chunk per call.
CrossChunk(plan, s) ==
  LET l == s.left_position + 1
      right == s.right_data[s.right_position + 1]
      turned == l = Len(s.child_chunk)
      over == turned /\ s.right_position + 1 = Len(s.right_data)
      next == [s EXCEPT !.left_position = IF turned THEN 0 ELSE l,
                        !.right_position = IF over THEN 0 ELSE IF turned THEN @ + 1 ELSE @,
                        !.left = IF over THEN @ + 1 ELSE @,
                        !.child_chunk = IF over THEN ChildChunk(plan.left, s.left) ELSE @]
  IN  IF s.left_position >= Len(s.child_chunk) THEN Returns(s, <<>>)
        ELSE Returns(next, [k \in DOMAIN right |-> <<s.child_chunk[l].id, right[k].id>>])

\* PhysicalCrossProduct::_GetChunk.
CrossProduct(plan, state, entering) ==
  IF plan.right = <<>> THEN Returns(state, <<>>)
    ELSE CrossChunk(plan, IF state.right_data # <<>> THEN state
                            ELSE [state EXCEPT !.right_data = Materialized(plan.right), !.left = 2,
                                               !.child_chunk = ChildChunk(plan.left, 1)])
=============================================================================
