------------------------------ MODULE Windows -------------------------------
(***************************************************************************)
(* Window functions.  A window has its type, the columns of the key that   *)
(* it partitions by, those that it orders by and whether descending, the   *)
(* boundaries of its frame with their constants, the column of its         *)
(* argument (not NULL), and the offset and default of LEAD and LAG.        *)
(* Positions are counted from 0, as in the code.                           *)
(***************************************************************************)
EXTENDS Vectors

CONSTANT TREE_FANOUT

\* "this should cleanly divide STANDARD_VECTOR_SIZE": so every segment that is
\* read is in one vector.
ASSUME FanoutAssumption == TREE_FANOUT \in Nat \ {0, 1} /\ STANDARD_VECTOR_SIZE % TREE_FANOUT = 0

-----------------------------------------------------------------------------
(* The segment tree.  A level is a sequence: the values, then the           *)
(* aggregates of TREE_FANOUT nodes of the level below, up to a single one.  *)
(* AVG computes with DECIMALs, which are fractions here.                    *)

SegmentTypes == {"SUM", "MIN", "MAX", "AVG"}

AggregateInit(type) ==
  [n_aggregated |-> 0,
   value |-> CASE type = "SUM" -> 0
               [] type = "AVG" -> <<0, 1>>
               [] type = "MIN" -> MaxRaw
               [] type = "MAX" -> NullRaw]

AggegateFinal(type, aggregate) ==
  CASE aggregate.n_aggregated = 0 -> NullSlot
    [] aggregate.n_aggregated # 0 /\ type = "AVG" ->
         NotNull(Fraction(aggregate.value[1], aggregate.value[2] * aggregate.n_aggregated))
    [] OTHER -> NotNull(aggregate.value)

\* A node counts for one, however many rows are below it.
WindowSegmentValue(type, level, begin, end, aggregate) ==
  LET Add(x, y) == CASE type = "SUM" -> x + y
                     [] type = "AVG" -> Fraction(x[1] * y[2] + y[1] * x[2], x[2] * y[2])
                     [] type = "MIN" -> IF x > y THEN y ELSE x
                     [] type = "MAX" -> IF x < y THEN y ELSE x
  IN  [value |-> FoldLeft(Add, aggregate.value, SubSeq(level, begin + 1, end)),
       n_aggregated |-> aggregate.n_aggregated + end - begin]

RECURSIVE ConstructTree(_, _)
ConstructTree(type, level) ==
  LET nodes == (Len(level) + TREE_FANOUT - 1) \div TREE_FANOUT
      Node(begin, end) == AggegateFinal(type, WindowSegmentValue(type, level, begin, end, AggregateInit(type))).raw
      above == [n \in 1..nodes |-> Node((n - 1) * TREE_FANOUT, Min({Len(level), n * TREE_FANOUT}))]
  IN  IF Len(level) <= 1 THEN <<level>> ELSE <<level>> \o ConstructTree(type, above)

RECURSIVE ComputeFrom(_, _, _, _, _, _)
\* What is not in whole groups is read from the level, the groups from the levels
\* above.
ComputeFrom(type, levels, l_idx, begin, end, aggregate) ==
  LET parent_begin == begin \div TREE_FANOUT
      parent_end == end \div TREE_FANOUT
      group_begin == parent_begin * TREE_FANOUT
      group_end == parent_end * TREE_FANOUT
      Part(from, to, aggr) == WindowSegmentValue(type, levels[l_idx], from, to, aggr)
      left == IF begin # group_begin THEN Part(begin, group_begin + TREE_FANOUT, aggregate) ELSE aggregate
      both == IF end # group_end THEN Part(group_end, end, left) ELSE left
  IN  IF parent_begin = parent_end
        THEN Part(begin, end, aggregate)
        ELSE ComputeFrom(type, levels, l_idx + 1,
                         IF begin # group_begin THEN parent_begin + 1 ELSE parent_begin, parent_end, both)

Compute(type, levels, begin, end) ==
  AggegateFinal(type, ComputeFrom(type, levels, 1, begin, end, AggregateInit(type)))

-----------------------------------------------------------------------------
(* Partitions, peers and frames.                                            *)

\* ChunkCollection::Reorder: the cycles of the permutation, one after the other.
RECURSIVE Cycle(_, _, _, _, _)
Cycle(rows, order, i, j, val_buf) ==
  LET k == order[j]
      ordered == [order EXCEPT ![j] = j]
  IN  IF k = i THEN <<[rows EXCEPT ![j] = val_buf], ordered>>
        ELSE Cycle([rows EXCEPT ![j] = rows[k]], ordered, i, k, val_buf)

Reorder(rows, order) ==
  FoldLeft(LAMBDA ro, i : Cycle(ro[1], ro[2], i, i, ro[1][i]), <<rows, order>>, [i \in DOMAIN rows |-> i])[1]

SortColumns(window) == window.partitions \o window.orders

\* The input in the order of the window, and its sort columns in the same order.
ReorderBoth(input, output, sorted_vector) ==
  [input |-> Reorder(input, sorted_vector), sort |-> Reorder(output, sorted_vector)]

SortCollectionForWindow(window, input) ==
  LET columns == SortColumns(window)
      output == [i \in DOMAIN input |-> [key |-> [c \in DOMAIN columns |-> input[i].key[columns[c]]]]]
      desc == [c \in DOMAIN columns |-> c > Len(window.partitions) /\ window.desc]
  IN  IF columns = <<>> THEN [input |-> input, sort |-> output]
        ELSE ReorderBoth(input, output, SortOrder(output, desc))

EqualsSubset(a, b, start, end) == \A i \in (start + 1)..end : CompareValue(a.key[i], b.key[i]) = 0

RECURSIVE Bisect(_, _, _, _, _)
Bisect(rows, row, l, r, comp_cols) ==
  LET m == (l + r) \div 2
      less_than_equals == \A i \in 1..comp_cols : CompareValue(rows[m + 1].key[i], row.key[i]) <= 0
  IN  IF l >= r THEN l - 1
        ELSE IF less_than_equals THEN Bisect(rows, row, m + 1, r, comp_cols) ELSE Bisect(rows, row, l, m, comp_cols)

BinarySearchRightmost(rows, row, l, r, comp_cols) == IF comp_cols = 0 THEN r - 1 ELSE Bisect(rows, row, l, r, comp_cols)

NoBounds(rows) ==
  [partition_start |-> 0, partition_end |-> 0, peer_start |-> 0, peer_end |-> 0, is_same_partition |-> FALSE,
   is_peer |-> FALSE, row_prev |-> Head(rows), window_start |-> -1, window_end |-> -1]

\* The partition and the peers of the row.
UpdatePartition(window, rows, row_idx, bounds) ==
  LET row_cur == rows[row_idx + 1]
      partitions == Len(window.partitions)
      sort_col_count == Len(SortColumns(window))
      same == EqualsSubset(bounds.row_prev, row_cur, 0, partitions)
      peer == same /\ EqualsSubset(bounds.row_prev, row_cur, partitions, sort_col_count)
      first == ~same \/ row_idx = 0
      partition_end == IF first THEN BinarySearchRightmost(rows, row_cur, row_idx, Len(rows), partitions) + 1
                         ELSE bounds.partition_end
  IN  IF sort_col_count = 0
        THEN [bounds EXCEPT !.is_same_partition = FALSE, !.is_peer = TRUE,
                            !.partition_end = Len(rows), !.peer_end = Len(rows)]
        ELSE [bounds EXCEPT !.is_same_partition = same, !.is_peer = peer, !.row_prev = row_cur,
                            !.partition_start = IF first THEN row_idx ELSE @,
                            !.partition_end = partition_end,
                            !.peer_start = IF first \/ ~peer THEN row_idx ELSE @,
                            !.peer_end = IF window.end = "CURRENT_ROW_RANGE" \/ window.type = "CUME_DIST"
                              THEN BinarySearchRightmost(rows, row_cur, row_idx, partition_end, sort_col_count) + 1
                              ELSE @]

\* The frame of the row, cut to its partition.  The end is compared as an unsigned
\* number: one before the first row is after all others.
CutFrame(b, start, end) ==
  [b EXCEPT !.window_start = Max({start, b.partition_start}),
            !.window_end = IF end < 0 \/ end > b.partition_end THEN b.partition_end ELSE end]

UpdateFrame(window, row_idx, b) ==
  LET start == CASE window.start = "UNBOUNDED_PRECEDING" -> b.partition_start
                 [] window.start = "CURRENT_ROW_ROWS" -> row_idx
                 [] window.start = "CURRENT_ROW_RANGE" -> b.peer_start
                 [] window.start = "EXPR_PRECEDING" -> row_idx - window.start_expr
                 [] window.start = "EXPR_FOLLOWING" -> row_idx + window.start_expr
      end == CASE window.end = "UNBOUNDED_FOLLOWING" -> b.partition_end
               [] window.end = "CURRENT_ROW_ROWS" -> row_idx + 1
               [] window.end = "CURRENT_ROW_RANGE" -> b.peer_end
               [] window.end = "EXPR_PRECEDING" -> row_idx - window.end_expr + 1
               [] window.end = "EXPR_FOLLOWING" -> row_idx + window.end_expr + 1
  IN  CutFrame(b, start, end)

UpdateWindowBoundaries(window, rows, row_idx, bounds) ==
  UpdateFrame(window, row_idx, UpdatePartition(window, rows, row_idx, bounds))

-----------------------------------------------------------------------------
(* The functions.                                                           *)

UpdateRank(row_idx, bounds, ranks) ==
  CASE ~bounds.is_same_partition \/ row_idx = 0 -> [dense_rank |-> 1, rank |-> 1, rank_equal |-> 1]
    [] bounds.is_same_partition /\ row_idx # 0 /\ ~bounds.is_peer ->
         [dense_rank |-> ranks.dense_rank + 1, rank |-> ranks.rank + ranks.rank_equal, rank_equal |-> 1]
    [] OTHER -> [ranks EXCEPT !.rank_equal = @ + 1]

Ntile(row_idx, n_total, n_param) ==
  LET n_size == n_total \div n_param
      n_large == n_total - n_param * n_size
      i_small == n_large * (n_size + 1)
  IN  IF n_size = 0 THEN NullSlot
        ELSE NotNull(IF row_idx < i_small THEN 1 + row_idx \div (n_size + 1)
                       ELSE 1 + n_large + (row_idx - i_small) \div n_size)

\* The result of one row; fractions are pairs.
WindowValue(window, payload, tree, row_idx, b, ranks) ==
  LET rows == b.partition_end - b.partition_start
      lead_idx == row_idx + 1
      lag_idx == row_idx - window.offset
  IN  CASE window.type \in SegmentTypes -> Compute(window.type, tree, b.window_start, b.window_end)
        [] window.type = "COUNT_STAR" -> NotNull(b.window_end - b.window_start)
        [] window.type = "ROW_NUMBER" -> NotNull(row_idx - b.partition_start + 1)
        [] window.type = "RANK_DENSE" -> NotNull(ranks.dense_rank)
        [] window.type = "RANK" -> NotNull(ranks.rank)
        [] window.type = "PERCENT_RANK" -> NotNull(IF rows > 1 THEN <<ranks.rank - 1, rows - 1>> ELSE <<0, 1>>)
        [] window.type = "CUME_DIST" -> NotNull(<<b.peer_end - b.partition_start, rows>>)
        [] window.type = "NTILE" -> Ntile(row_idx, rows, payload[row_idx + 1])
        [] window.type = "LEAD" -> IF lead_idx < b.partition_end THEN NotNull(payload[lead_idx + 1]) ELSE window.default
        [] window.type = "LAG" -> IF lag_idx >= b.partition_start THEN NotNull(payload[lag_idx + 1]) ELSE window.default
        [] window.type = "FIRST_VALUE" -> NotNull(payload[b.window_start + 1])
        [] window.type = "LAST_VALUE" -> NotNull(payload[b.window_end])

\* The sorted rows, and the results in their order.
NextResult(window, payload, tree, results, row_idx, b, ranks) ==
  [bounds |-> b, ranks |-> ranks,
   results |-> Append(results, IF b.window_start >= b.window_end THEN NullSlot
                                 ELSE WindowValue(window, payload, tree, row_idx, b, ranks))]

NextRow(window, payload, tree, at, row_idx, b) ==
  NextResult(window, payload, tree, at.results, row_idx, b, UpdateRank(row_idx, b, at.ranks))

WindowResults(window, sort, payload, tree) ==
  FoldLeft(LAMBDA at, i : NextRow(window, payload, tree, at, i - 1,
                                  UpdateWindowBoundaries(window, sort, i - 1, at.bounds)),
           [bounds |-> NoBounds(sort), results |-> <<>>,
            ranks |-> [dense_rank |-> 1, rank |-> 1, rank_equal |-> 0]],
           [i \in DOMAIN sort |-> i]).results

ComputeSorted(window, sorted) ==
  LET payload == [i \in DOMAIN sorted.input |-> sorted.input[i].key[window.child].raw]
      rows == IF window.type = "AVG" THEN [i \in DOMAIN payload |-> <<payload[i], 1>>] ELSE payload
      tree == IF window.type \in SegmentTypes THEN ConstructTree(window.type, rows) ELSE <<>>
  IN  [input |-> sorted.input, results |-> WindowResults(window, sorted.sort, payload, tree)]

ComputeWindowExpression(window, input) == ComputeSorted(window, SortCollectionForWindow(window, input))

-----------------------------------------------------------------------------
(* The operator.                                                            *)

WindowInit == [tuples |-> <<>>, window_results |-> <<>>, position |-> 0]

\* Every window sorts the rows again; what earlier windows computed stays where
\* it is.
AddResults(at, computed) ==
  [at EXCEPT !.tuples = computed.input, !.window_results = Append(@, computed.results)]

ComputeWindows(plan, state) ==
  FoldLeft(LAMBDA at, window : AddResults(at, ComputeWindowExpression(window, at.tuples)),
           [state EXCEPT !.tuples = Rows(Materialized(plan.left))], plan.windows)

WindowChunk(plan, s) ==
  LET some == (s.position + 1)..Min({s.position + STANDARD_VECTOR_SIZE, Len(s.tuples)})
      row(i) == <<s.tuples[i].id>> \o [w \in DOMAIN plan.windows |-> s.window_results[w][i]]
  IN  IF s.position >= Len(s.tuples) THEN Returns(s, <<>>)
        ELSE Returns([s EXCEPT !.position = @ + STANDARD_VECTOR_SIZE],
                     [k \in 1..Cardinality(some) |-> row(s.position + k)])

\* PhysicalWindow::_GetChunk.
Window(plan, state) ==
  WindowChunk(plan, IF state.position = 0 /\ plan.left # <<>> THEN ComputeWindows(plan, state) ELSE state)
=============================================================================
