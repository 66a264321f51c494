----------------------------- MODULE Operators ------------------------------
(***************************************************************************)
(* ORDER BY, LIMIT, a filter, and UNION.  A row of their results is the    *)
(* identity of a row of the child.                                         *)
(***************************************************************************)
EXTENDS Vectors

SeqIds(rows) == [i \in DOMAIN rows |-> <<rows[i].id>>]

\* At most a vector of rows from the position on.
Slice(rows, position) == SubSeq(rows, position + 1, Min({position + STANDARD_VECTOR_SIZE, Len(rows)}))

-----------------------------------------------------------------------------
(* ORDER BY.                                                                *)

OrderInit == [sorted_data |-> <<>>, position |-> 0]

Picked(rows, sel) == [k \in DOMAIN sel |-> rows[sel[k]]]
Permuted(rows, desc) == Picked(rows, SortOrder(rows, desc))

\* All chunks of the child are collected and sorted by the first call.
SortedRows(plan) ==
  Permuted(Rows(Materialized(plan.left)), plan.desc)

\* ChunkCollection::MaterializeSortedChunk.
SortedChunk(s) ==
  IF s.position >= Len(s.sorted_data) THEN Returns(s, <<>>)
    ELSE Returns([s EXCEPT !.position = @ + STANDARD_VECTOR_SIZE], SeqIds(Slice(s.sorted_data, s.position)))

\* PhysicalOrder::_GetChunk.
Order(plan, state) ==
  SortedChunk(IF state.position = 0 THEN [state EXCEPT !.sorted_data = SortedRows(plan)] ELSE state)

-----------------------------------------------------------------------------
(* A filter.  The key of a row has the Boolean values of its expressions:   *)
(* raw data, which may be anything under a null bit.                        *)

\* Mutant of And: NULL only if both are.
AndBothNull(left, right) == [raw |-> left.raw /\ right.raw, null |-> left.null /\ right.null]

\* operators::And and AndMask.
And(left, right) ==
  [raw |-> left.raw /\ right.raw,
   null |-> (left.null /\ (right.null \/ right.raw)) \/ (right.null /\ left.raw)]

Merge(key) == FoldLeft(And, Head(key), Tail(key))

\* DataChunk::SetSelectionVector.
SelectionVector(rows) ==
  LET result == [i \in DOMAIN rows |-> Merge(rows[i].key)]
  IN  SelectSeq([i \in DOMAIN rows |-> i], LAMBDA i : result[i].raw /\ ~result[i].null)

FilterInit == [left |-> 1]

\* PhysicalFilter::_GetChunk.
Filter(plan, state) ==
  LET rows == ChildChunk(plan.left, state.left)
      sel == SelectionVector(rows)
      s == [state EXCEPT !.left = @ + 1]
  IN  IF rows = <<>> THEN Returns(s, <<>>) ELSE Yields(s, [k \in DOMAIN sel |-> <<rows[sel[k]].id>>])

-----------------------------------------------------------------------------
(* LIMIT and OFFSET, over a filter: a chunk of the child is a vector with   *)
(* the rows that were read and a selection vector.  The column of the       *)
(* result has the identity of a row, or NULL where null says so.            *)

LimitInit == [left |-> 1, current_offset |-> 0]

\* count rows: the data is start_position slots further on, the null mask and the
\* selection vector are not.
LimitedChunk(rows, sel, start_position, count) ==
  LET data(p) == IF p <= Len(rows) THEN rows[p].id ELSE 0
  IN  [k \in 1..count |-> IF rows[sel[k]].null THEN <<NullId>> ELSE <<data(sel[k] + start_position)>>]

\* It returns nothing for a chunk before the offset.
LimitPass(plan, state, rows, sel) ==
  LET max_element == plan.limit + plan.offset
      start_position == plan.offset - state.current_offset
      s == [state EXCEPT !.left = @ + 1, !.current_offset = @ + Len(sel)]
  IN  CASE state.current_offset >= max_element -> Returns(state, <<>>)
        [] state.current_offset < max_element /\ sel = <<>> -> Returns([state EXCEPT !.left = @ + 1], <<>>)
        [] state.current_offset < max_element /\ sel # <<>> /\ start_position > 0 ->
             Returns(s, IF start_position > Len(sel) THEN <<>>
                          ELSE LimitedChunk(rows, sel, start_position, Min({plan.limit, Len(sel) - start_position})))
        [] OTHER ->
             Returns(s, LimitedChunk(rows, sel, 0, Min({Len(sel), max_element - state.current_offset})))

\* PhysicalLimit::_GetChunk.
Limit(plan, state) ==
  LET rows == ChildChunk(plan.left, state.left) IN LimitPass(plan, state, rows, SelectionVector(rows))

-----------------------------------------------------------------------------
(* UNION ALL: first one child, then the other.                              *)

UnionInit == [left |-> 1, right |-> 1, top_done |-> FALSE, finished |-> FALSE]

\* PhysicalUnion::_GetChunk.
Union(plan, state) ==
  LET top == ChildChunk(plan.left, state.left)
      done == state.top_done \/ top = <<>>
      bottom == ChildChunk(plan.right, state.right)
      chunk == IF done THEN bottom ELSE top
      s == [left |-> IF state.top_done THEN state.left ELSE state.left + 1,
            right |-> IF done THEN state.right + 1 ELSE state.right,
            top_done |-> done, finished |-> chunk = <<>>]
  IN  IF state.finished THEN Returns(state, <<>>) ELSE Returns(s, SeqIds(chunk))
=============================================================================
