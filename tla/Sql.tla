-------------------------------- MODULE Sql ---------------------------------
(***************************************************************************)
(* What SQL says that the physical operators should return, defined on all *)
(* rows of their inputs at once, without chunks, hashes, sorting or        *)
(* position: a reference to compare the operators with.                    *)
(***************************************************************************)
EXTENDS OrderIndex

-----------------------------------------------------------------------------
(* Joins.                                                                   *)

\* Do two rows match, in SQL?
SqlMatch(p, l, r) ==
  LET one(c) == LET cond == p.conditions[c]
                IN  IF cond.null_values_are_equal /\ (l.key[c].null \/ r.key[c].null)
                      THEN IF l.key[c].null /\ r.key[c].null THEN "true" ELSE "false"
                      ELSE Sql(cond.comparison, l.key[c], r.key[c])
      all == {one(c) : c \in DOMAIN p.conditions}
  IN  IF p.op = "BLOCKWISE_NL_JOIN" THEN SqlOr(all) ELSE SqlAnd(all)

\* The rows of a join, of each left row one after the other.  SINGLE has one
\* right row for each, whichever matches.
JoinOf(p, l) ==
  LET right == Rows(p.right)
      match == SelectSeq(right, LAMBDA r : SqlMatch(p, l, r) = "true")
      pairs == [k \in DOMAIN match |-> <<l.id, match[k].id>>]
  IN  CASE p.type = "INNER" -> pairs
        [] p.type = "LEFT" -> IF match = <<>> THEN <<<<l.id, 0>>>> ELSE pairs
        [] p.type = "SEMI" -> IF match = <<>> THEN <<>> ELSE <<<<l.id>>>>
        [] p.type = "ANTI" -> IF match = <<>> THEN <<<<l.id>>>> ELSE <<>>
        [] p.type = "MARK" -> <<<<l.id, SqlOr({SqlMatch(p, l, r) : r \in ToSet(right)})>>>>

JoinRight(p, rows) ==
  LET left == Rows(p.left)
      match(l) == {r.id : r \in {r \in ToSet(Rows(p.right)) : SqlMatch(p, l, r) = "true"}}
      one(l) == IF match(l) = {} THEN {0} ELSE match(l)
  IN  IF p.type = "SINGLE"
        THEN /\ [i \in DOMAIN rows |-> rows[i][1]] = [i \in DOMAIN left |-> left[i].id]
             /\ \A i \in DOMAIN left : rows[i][2] \in one(left[i])
        ELSE SameRows(rows, FlattenSeq([i \in DOMAIN left |-> JoinOf(p, left[i])]))

-----------------------------------------------------------------------------
(* Grouping and aggregation.                                                *)

\* One aggregate of the values in a sequence.
SqlAggregate(aggregate, values) ==
  LET known == SelectSeq(values, LAMBDA v : ~v.null)
      raws == {v.raw : v \in ToSet(known)}
      total(s) == FoldLeft(LAMBDA x, v : x + v.raw, 0, s)
  IN  CASE aggregate = "COUNT_STAR" -> NotNull(Len(values))
        [] aggregate = "COUNT" -> NotNull(Len(known))
        [] aggregate = "COUNT_DISTINCT" -> NotNull(Cardinality(raws))
        [] aggregate \notin {"COUNT_STAR", "COUNT", "COUNT_DISTINCT"} /\ known = <<>> -> NullSlot
        [] OTHER -> CASE aggregate = "SUM" -> NotNull(total(known))
                      [] aggregate = "SUM_DISTINCT" -> NotNull(SumSet(raws))
                      [] aggregate = "MIN" -> NotNull(Min(raws))
                      [] aggregate = "MAX" -> NotNull(Max(raws))
                      [] aggregate = "FIRST" -> Head(known)

GroupsOf(p) ==
  LET rows == Rows(p.left)
      Group(row) == SubSeq(row.key, 1, p.groups)
      members(g) == SelectSeq(rows, LAMBDA row : Group(row) = g)
      value(g, a) == SqlAggregate(p.aggregates[a], [i \in DOMAIN members(g) |-> members(g)[i].key[p.groups + a]])
      groups == IF p.groups = 0 THEN {<<>>} ELSE {Group(row) : row \in ToSet(rows)}
  IN  {g \o [a \in DOMAIN p.aggregates |-> value(g, a)] : g \in groups}

-----------------------------------------------------------------------------
(* ORDER BY, WHERE, LIMIT and UNION ALL: ids has the rows of the result.    *)

Sorted(p, ids) ==
  LET rows == Rows(p.left)
  IN  /\ SameRows(ids, [i \in DOMAIN rows |-> <<rows[i].id>>])
      /\ \A i \in 1..(Len(ids) - 1) :
           LET x == rows[ids[i][1]].key
               y == rows[ids[i + 1][1]].key
           IN  \/ x = y
               \/ \E c \in DOMAIN x :
                    /\ \A d \in 1..(c - 1) : x[d] = y[d]
                    /\ CompareValue(x[c], y[c]) = (IF p.desc[c] THEN 1 ELSE -1)

SqlBoolean(v) == IF v.null THEN "null" ELSE IF v.raw THEN "true" ELSE "false"

Selected(p) ==
  SelectSeq(Rows(p.left), LAMBDA row : SqlAnd({SqlBoolean(row.key[c]) : c \in DOMAIN row.key}) = "true")

RowsOf(p) ==
  CASE p.op = "FILTER" -> [i \in DOMAIN Selected(p) |-> <<Selected(p)[i].id>>]
    [] p.op = "LIMIT" -> LET rows == SubSeq(Selected(p), p.offset + 1, Min({Len(Selected(p)), p.offset + p.limit}))
                         IN  [i \in DOMAIN rows |-> IF rows[i].null THEN <<NullId>> ELSE <<rows[i].id>>]
    [] p.op = "UNION" -> LET rows == Rows(p.left) \o Rows(p.right) IN [i \in DOMAIN rows |-> <<rows[i].id>>]
    [] p.op = "INDEX_SCAN" ->
         LET ids == SetToSortSeq({r.id : r \in ToSet(Rows(p.left))} \ p.gone, <)
             Passes(id) == \A f \in ToSet(p.filters) : Holds(f, TableRow(p, id))
         IN  SeqIds([i \in DOMAIN SelectSeq(ids, Passes) |-> [id |-> SelectSeq(ids, Passes)[i]]])

-----------------------------------------------------------------------------
(* Window functions.  Rows that the window does not order are in the order  *)
(* of the result.                                                           *)

\* The order of two rows by some columns: negative, zero or positive.
OrderOf(cols, x, y, desc) ==
  LET different == {c \in DOMAIN cols : x.key[cols[c]] # y.key[cols[c]]}
      c == cols[Min(different)]
  IN  IF different = {} THEN 0 ELSE (IF desc THEN -1 ELSE 1) * CompareValue(x.key[c], y.key[c])

\* The rows of the frame of the i-th row, from the order of the rows of its
\* partition relative to it and from their positions.
FrameOf(w, i, order, pos) ==
  LET After(j) == CASE w.start = "UNBOUNDED_PRECEDING" -> TRUE
                    [] w.start = "CURRENT_ROW_ROWS" -> pos[j] >= pos[i]
                    [] w.start = "CURRENT_ROW_RANGE" -> order[j] >= 0
                    [] w.start = "EXPR_PRECEDING" -> pos[j] >= pos[i] - w.start_expr
                    [] w.start = "EXPR_FOLLOWING" -> pos[j] >= pos[i] + w.start_expr
      UpTo(j) == CASE w.end = "UNBOUNDED_FOLLOWING" -> TRUE
                   [] w.end = "CURRENT_ROW_ROWS" -> pos[j] <= pos[i]
                   [] w.end = "CURRENT_ROW_RANGE" -> order[j] <= 0
                   [] w.end = "EXPR_PRECEDING" -> pos[j] <= pos[i] - w.end_expr
                   [] w.end = "EXPR_FOLLOWING" -> pos[j] <= pos[i] + w.end_expr
  IN  {j \in DOMAIN pos : After(j) /\ UpTo(j)}

WindowAt(w, rows, i, order, pos, frame) ==
  LET peers == DOMAIN pos
      at(k) == CHOOSE j \in peers : pos[j] = k
      Arg(j) == rows[j].key[w.child]
      n == Cardinality(peers)
      less == {j \in peers : order[j] < 0}
      Offset(k) == IF k \in 0..(n - 1) THEN Arg(at(k)) ELSE w.default
      \* The tiles before the b-th have this many rows.
      tiles == Arg(i).raw
      Tiled(b) == b * (n \div tiles) + Min({b, n % tiles})
      total == MapThenSumSet(LAMBDA j : Arg(j).raw, frame)
  IN  CASE w.type \in {"SUM", "AVG", "MIN", "MAX", "FIRST_VALUE", "LAST_VALUE"} /\ frame = {} -> NullSlot
        [] w.type = "SUM" /\ frame # {} -> NotNull(total)
        [] w.type = "AVG" /\ frame # {} -> NotNull(Fraction(total, Cardinality(frame)))
        [] w.type = "MIN" /\ frame # {} -> NotNull(Min({Arg(j).raw : j \in frame}))
        [] w.type = "MAX" /\ frame # {} -> NotNull(Max({Arg(j).raw : j \in frame}))
        [] w.type = "FIRST_VALUE" /\ frame # {} -> Arg(at(Min({pos[j] : j \in frame})))
        [] w.type = "LAST_VALUE" /\ frame # {} -> Arg(at(Max({pos[j] : j \in frame})))
        [] w.type = "COUNT_STAR" -> NotNull(Cardinality(frame))
        [] w.type = "ROW_NUMBER" -> NotNull(pos[i] + 1)
        [] w.type = "RANK" -> NotNull(Cardinality(less) + 1)
        [] w.type = "RANK_DENSE" ->
             NotNull(Cardinality({[c \in DOMAIN w.orders |-> rows[j].key[w.orders[c]]] : j \in less}) + 1)
        [] w.type = "PERCENT_RANK" -> NotNull(IF n > 1 THEN <<Cardinality(less), n - 1>> ELSE <<0, 1>>)
        [] w.type = "CUME_DIST" -> NotNull(<<Cardinality({j \in peers : order[j] <= 0}), n>>)
        [] w.type = "NTILE" -> NotNull(Min({b \in 1..tiles : pos[i] < Tiled(b)}))
        [] w.type = "LEAD" -> Offset(pos[i] + w.offset)
        [] w.type = "LAG" -> Offset(pos[i] - w.offset)

WindowFor(w, rows, i, order, pos) == WindowAt(w, rows, i, order, pos, FrameOf(w, i, order, pos))

WindowAmong(w, rows, i, peers) ==
  LET Before(x, y) == LET c == OrderOf(w.orders, rows[x], rows[y], w.desc) IN c < 0 \/ (c = 0 /\ x < y)
  IN  WindowFor(w, rows, i, [j \in peers |-> OrderOf(w.orders, rows[j], rows[i], w.desc)],
                [j \in peers |-> Cardinality({k \in peers : Before(k, j)})])

\* The value of a window for the i-th of the rows.
WindowOf(w, rows, i) ==
  WindowAmong(w, rows, i, {j \in DOMAIN rows : OrderOf(w.partitions, rows[i], rows[j], FALSE) = 0})

\* rows has an identity and the value of each window.
WindowRows(p, result) ==
  LET input == Rows(p.left)
      rows == [i \in DOMAIN result |-> input[result[i][1]]]
  IN  /\ SameRows([i \in DOMAIN result |-> result[i][1]], [i \in DOMAIN input |-> input[i].id])
      /\ \A i \in DOMAIN result : \A w \in DOMAIN p.windows :
           result[i][w + 1] = WindowOf(p.windows[w], rows, i)
=============================================================================
