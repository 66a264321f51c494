---------------------------- MODULE MCExecution -----------------------------
(* Instances of the physical operators for TLC.                             *)
EXTENDS Execution

V == {NotNull(1), NotNull(2), NullSlot}
One == {<<v>> : v \in V}
Two == {<<v, w>> : v \in V, w \in V}

\* All children whose chunks have the sizes in cut and keys in K.
Child(K, cut) ==
  LET Before(b) == FoldLeft(LAMBDA x, y : x + y, 0, SubSeq(cut, 1, b - 1))
  IN  {[b \in DOMAIN cut |-> [i \in 1..cut[b] |-> [key |-> keys[before[b] + i], id |-> before[b] + i]]] :
         keys \in [1..Before(Len(cut) + 1) -> K], before \in {[b \in DOMAIN cut |-> Before(b)]}}

Children(K, cuts) == UNION {Child(K, cut) : cut \in cuts}

Cond(comparison) == [comparison |-> comparison, null_values_are_equal |-> FALSE]
NullsEqual == [comparison |-> "EQUAL", null_values_are_equal |-> TRUE]

Join(op, types, conditions, correlated, lefts, rights) ==
  [op : {op}, type : types, conditions : conditions, correlated : {correlated}, left : lefts, right : rights]

HashTypes == {"INNER", "LEFT", "SEMI", "ANTI", "SINGLE", "MARK"}
Range4 == {"LESSTHAN", "LESSTHANOREQUALTO", "GREATERTHAN", "GREATERTHANOREQUALTO"}

\* With NULLs in the second column: that it is greater never holds by accident.
HashJoins ==
  Join("HASH_JOIN", HashTypes, {<<Cond("EQUAL")>>, <<NullsEqual>>}, FALSE,
       Children(One, {<<>>, <<1>>, <<1, 2>>}), Children(One, {<<>>, <<2, 1>>, <<1, 1, 1>>}))
  \cup Join("HASH_JOIN", HashTypes \ {"MARK"}, {<<Cond("EQUAL"), Cond("GREATERTHAN")>>}, FALSE,
            Children(Two, {<<1>>}), Children(Two, {<<2>>}))
  \cup Join("HASH_JOIN", {"MARK"}, {<<NullsEqual, Cond("EQUAL")>>}, TRUE,
            Children(Two, {<<1>>}), Children(Two, {<<>>, <<2>>}))

CrossProducts ==
  Join("CROSS_PRODUCT", {"INNER"}, {<<>>}, FALSE,
       Children({<<>>}, {<<>>, <<1>>, <<2, 1>>, <<1, 3, 1>>}), Children({<<>>}, {<<>>, <<1>>, <<2, 3>>, <<1, 2, 1, 3>>}))

BlockwiseJoins ==
  Join("BLOCKWISE_NL_JOIN", {"INNER", "LEFT"}, {<<Cond("EQUAL"), Cond("GREATERTHAN")>>}, FALSE,
       Children(Two, {<<>>, <<1>>, <<1, 1>>}), Children(Two, {<<>>, <<2>>}))
  \cup Join("BLOCKWISE_NL_JOIN", {"INNER", "LEFT"}, {<<Cond("EQUAL")>>}, FALSE,
            Children(One, {<<2, 1>>}), Children(One, {<<3, 1>>}))

\* No NULL before two other values in a chunk, and no right chunk of NULLs only.
Sortable(chunk) ==
  LET nulls == {i \in DOMAIN chunk : chunk[i].key[1].null}
  IN  nulls # DOMAIN chunk /\ (1 \in nulls => Cardinality(DOMAIN chunk \ nulls) <= 1)

MergeJoins ==
  {p \in Join("PIECEWISE_MERGE_JOIN", {"INNER", "MARK"}, {<<Cond(c)>> : c \in Range4}, FALSE,
              Children(One, {<<>>, <<2>>, <<3>>, <<1, 1>>}), Children(One, {<<>>, <<2>>, <<1, 3>>})) :
     /\ \A b \in DOMAIN Materialized(p.right) : Sortable(Materialized(p.right)[b])
     /\ \A b \in DOMAIN p.left : Sortable(p.left[b])}

\* One left chunk with a value, and NULLs in one right chunk.  No pair of chunks
\* has as many matches as a vector has room for.
LoopJoins ==
  LET Nulls(p) == {b \in DOMAIN Materialized(p.right) : \E r \in ToSet(Materialized(p.right)[b]) : HasNull(r.key)}
      First(p, l, r) == Compare(p.conditions[1].comparison, l.key[1].raw, r.key[1].raw)
      Pairs(p, l, r) == {q \in (DOMAIN l) \X (DOMAIN r) : First(p, l[q[1]], r[q[2]])}
  IN  {p \in Join("NESTED_LOOP_JOIN", {"MARK"}, {<<Cond("NOTEQUAL")>>}, FALSE,
                  Children(One, {<<>>, <<2>>}), Children(One, {<<>>, <<2>>, <<3, 1>>}))
             \cup Join("NESTED_LOOP_JOIN", {"INNER"}, {<<Cond("NOTEQUAL")>>}, FALSE,
                       Children(One, {<<>>, <<1, 1>>}), Children(One, {<<2>>, <<2, 2>>}))
             \cup Join("NESTED_LOOP_JOIN", {"INNER"}, {<<Cond("LESSTHAN"), Cond("NOTEQUAL")>>}, FALSE,
                       Children(Two, {<<>>, <<1, 1>>}), Children(Two, {<<>>, <<2>>})) :
         /\ Cardinality(Nulls(p)) <= 1
         /\ \A l \in ToSet(p.left) : \E r \in ToSet(l) : p.type = "INNER" => ~HasNull(r.key)
         /\ p.type = "INNER" =>
              \A l \in ToSet(p.left), r \in ToSet(Materialized(p.right)) :
                Cardinality(Pairs(p, l, r)) < STANDARD_VECTOR_SIZE}

-----------------------------------------------------------------------------
(* GROUP BY.                                                                *)

GroupBy(groups, aggregates, lefts) ==
  [op : {"HASH_GROUP_BY"}, groups : {groups}, aggregates : {aggregates}, left : lefts, right : {<<>>}]

Grouped(G, n) == {g \o [a \in 1..n |-> v] : g \in G, v \in V}
Plain == <<"COUNT_STAR", "COUNT", "SUM", "MIN", "MAX", "FIRST">>
Distinct == <<"COUNT_DISTINCT", "SUM_DISTINCT">>

\* 1, 7 and 13 collide in the first two tables, 1 and 13 in the third; groups of
\* two columns with the same values in another order always do.
GroupBys ==
  GroupBy(0, Plain, Children(Grouped({<<>>}, 6), {<<>>, <<1>>, <<2, 1>>}))
  \cup GroupBy(0, Distinct, Children(Grouped({<<>>}, 2), {<<>>, <<2, 3>>}))
  \cup GroupBy(1, Plain, Children(Grouped(One, 6), {<<>>, <<1, 2>>}))
  \cup GroupBy(1, Distinct, Children(Grouped({<<NotNull(1)>>, <<NotNull(7)>>}, 2), {<<1, 2, 1>>}))
  \cup GroupBy(1, <<"COUNT_STAR">>, Children({<<NotNull(x), NotNull(0)>> : x \in {1, 7, 13}}, {<<3, 3>>, <<2, 2, 2>>}))
  \cup GroupBy(2, <<"COUNT">>, Children(Grouped(Two, 1), {<<1, 1>>}))

-----------------------------------------------------------------------------
(* Window functions.                                                        *)

\* The key of a row: a partition, an order, two to the power of its number, which
\* is different for all, and the argument of NTILE.
WindowChild(K, cut, tiles) ==
  {[b \in DOMAIN child |-> [i \in DOMAIN child[b] |->
      [id |-> child[b][i].id, key |-> child[b][i].key \o <<NotNull(2^(child[b][i].id - 1)), NotNull(tiles)>>]]] :
     child \in Child(K, cut)}

WindowOver(type, partitions, orders, start, start_expr, end, end_expr) ==
  [type |-> type, partitions |-> partitions, orders |-> orders, desc |-> FALSE,
   start |-> start, start_expr |-> start_expr, end |-> end, end_expr |-> end_expr,
   child |-> IF type = "NTILE" THEN 4 ELSE 3, offset |-> 1, default |-> NullSlot]

Default(type, partitions, orders) ==
  WindowOver(type, partitions, orders, "UNBOUNDED_PRECEDING", 0, "CURRENT_ROW_RANGE", 0)

Windowed(windows, lefts) == [op : {"WINDOW"}, windows : windows, left : lefts, right : {<<>>}]

\* Segment trees of one to four levels, and every frame of their rows.
Trees ==
  Windowed({<<WindowOver(type, <<>>, <<>>, "EXPR_PRECEDING", before, "EXPR_FOLLOWING", after)>> :
              type \in {"SUM", "MIN", "MAX"}, before \in 0..9, after \in 0..9},
           UNION {WindowChild({<<NotNull(1), NotNull(1)>>}, cut, 1) : cut \in {<<1>>, <<3>>, <<3, 3, 3>>, <<3, 2, 3, 2>>}})

\* Averages of rows below one node of the tree, and of nodes with as many rows each.
Averages ==
  Windowed({<<WindowOver("AVG", <<>>, <<>>, "EXPR_PRECEDING", before, "EXPR_FOLLOWING", after)>> :
              before \in 0..2, after \in 0..2} \cup {<<WindowOver("AVG", <<>>, <<2>>, "UNBOUNDED_PRECEDING", 0, "CURRENT_ROW_ROWS", 0)>>},
           WindowChild({<<NotNull(1), NotNull(1)>>, <<NotNull(1), NotNull(2)>>}, <<3>>, 1))
  \cup Windowed({<<WindowOver("AVG", <<>>, <<2>>, "UNBOUNDED_PRECEDING", 0, "UNBOUNDED_FOLLOWING", 0)>>},
               UNION {WindowChild({<<NotNull(1), NotNull(1)>>, <<NotNull(1), NotNull(2)>>}, cut, 1) :
                        cut \in {<<3>>, <<3, 3>>, <<3, 3, 3>>}})

\* Every function over partitions and peers, NULLs among them.
WindowFunctions == {"RANK", "RANK_DENSE", "PERCENT_RANK", "CUME_DIST", "ROW_NUMBER", "LEAD", "LAG",
               "FIRST_VALUE", "LAST_VALUE", "SUM", "COUNT_STAR"}

Partitions ==
  Windowed({<<Default(type, <<1>>, <<2>>)>> : type \in WindowFunctions}
           \cup {<<[Default("LAG", <<1>>, <<2>>) EXCEPT !.offset = 2, !.default = NotNull(0)]>>}
           \cup {<<Default(type, <<>>, <<2>>)>> : type \in {"RANK", "SUM"}}
           \cup {<<Default("CUME_DIST", <<>>, <<1, 2>>)>>, <<Default("SUM", <<1, 2>>, <<>>)>>},
           WindowChild(Two, <<2, 1>>, 1)
           \cup WindowChild({<<v, w>> : v \in {NotNull(1), NullSlot}, w \in {NotNull(1), NotNull(2)}}, <<3, 1>>, 1))

\* Every kind of frame in a partition.
Frames ==
  Windowed({<<WindowOver(type, <<1>>, <<2>>, start, 1, end, 1)>> :
              type \in {"SUM", "FIRST_VALUE", "LAST_VALUE"},
              start \in {"UNBOUNDED_PRECEDING", "CURRENT_ROW_ROWS", "CURRENT_ROW_RANGE", "EXPR_PRECEDING", "EXPR_FOLLOWING"},
              end \in {"UNBOUNDED_FOLLOWING", "CURRENT_ROW_ROWS", "CURRENT_ROW_RANGE", "EXPR_PRECEDING", "EXPR_FOLLOWING"}},
           WindowChild({<<v, w>> : v \in {NotNull(1), NotNull(2)}, w \in {NotNull(1), NotNull(2)}}, <<3, 1>>, 1))

Tiles ==
  UNION {Windowed({<<Default("NTILE", <<>>, <<2>>)>>},
                  UNION {WindowChild({<<NotNull(1), NotNull(1)>>, <<NotNull(1), NotNull(2)>>}, cut, tiles) :
                           cut \in {<<3>>, <<3, 2>>}}) :
           tiles \in 1..3}

-----------------------------------------------------------------------------
(* ORDER BY, filters, LIMIT and UNION ALL.                                  *)

Orders ==
  [op : {"ORDER_BY"}, desc : {<<FALSE>>, <<TRUE>>}, left : Children(One, {<<>>, <<2, 2, 1>>}), right : {<<>>}]
  \cup [op : {"ORDER_BY"}, desc : {<<FALSE, TRUE>>}, left : Children(Two, {<<1, 2>>}), right : {<<>>}]

\* A Boolean value; the raw data under a null bit is either.
Booleans == [raw : BOOLEAN, null : BOOLEAN]

Filters ==
  [op : {"FILTER"}, left : Children([1..2 -> Booleans], {<<>>, <<1, 1>>}) \cup Children([1..3 -> Booleans], {<<1>>}),
   right : {<<>>}]

\* A column that has NULLs or not, of chunks with the sizes in cut.
LimitChild(cut, B, Nulls) ==
  UNION {{[b \in DOMAIN child |-> [i \in DOMAIN child[b] |->
             [id |-> child[b][i].id, key |-> child[b][i].key, null |-> child[b][i].id \in nulls]]] : nulls \in Nulls} :
         child \in Child([1..1 -> B], cut)}

True == [raw |-> TRUE, null |-> FALSE]

\* An offset in the first chunk, and no NULLs, or no offset, and a row of each
\* chunk that is selected.
Limits ==
  [op : {"LIMIT"}, limit : 0..5, offset : 0..2, left : LimitChild(<<3, 1, 2>>, {True}, {{}}), right : {<<>>}]
  \cup {p \in [op : {"LIMIT"}, limit : 0..4, offset : {0}, right : {<<>>},
                left : LimitChild(<<2, 3>>, {True, [True EXCEPT !.raw = FALSE]}, SUBSET (1..3))] :
           \A b \in DOMAIN p.left : \E r \in ToSet(p.left[b]) : r.key[1] = True}

Unions ==
  [op : {"UNION"}, left : Children({<<>>}, {<<>>, <<1>>, <<3, 1>>}), right : Children({<<>>}, {<<>>, <<2>>, <<1, 2>>})]

-----------------------------------------------------------------------------
(* Filters on a table with an index on its first column.                    *)

Filter1(comparison, k) == [column |-> 1, comparison |-> comparison, constant |-> k]
Filter2 == [column |-> 2, comparison |-> "EQUAL", constant |-> 1]

Lows == {Filter1(c, k) : c \in RangeFrom, k \in 1..4}
Highs == {Filter1(c, k) : c \in {"LESSTHAN", "LESSTHANOREQUALTO"}, k \in 1..4}
Equals == {Filter1("EQUAL", k) : k \in 1..4}

\* The filters that are left when those on one column have been combined, with
\* none on the second column after a bound below and one above.
Filters1 ==
  {<<f>> : f \in Lows \cup Highs \cup Equals}
  \cup {<<f, Filter2>> : f \in Lows \cup Equals} \cup {<<Filter2, f>> : f \in Highs}
  \cup {<<l, h>> : l \in Lows, h \in Highs} \cup {<<h, Filter2, l>> : l \in Lows, h \in Highs}

\* No constant is below the least value in the index, a bound below that excludes
\* its constant is above it, and below the constant of a bound above that excludes
\* its constant, which is in the index, there are two entries or none.
Searchable(p) ==
  LET data == IndexOf(p)
      least == data[1].value
  IN  \A f \in ToSet(p.filters) : f.column = 1 =>
        /\ f.constant >= least
        /\ f.comparison = "GREATERTHAN" => f.constant > least
        /\ f.comparison = "LESSTHAN" =>
             f.constant = least \/ \E i \in 3..Len(data) : data[i].value = f.constant /\ data[i - 1].value < f.constant

Scans(filters, lefts, rights, gone) ==
  [op : {"INDEX_SCAN"}, filters : filters, left : lefts, right : rights, gone : gone, garbage : {0, 2, 9}]

Pairs(I) == {<<i, NotNull(j)>> : i \in I, j \in 1..2}
Values(S) == {NotNull(x) : x \in S}

\* Deleted rows; NULLs, and bounds below; an update, and conditions that the old
\* value does not meet.
IndexScans ==
  {p \in Scans(Filters1, Children({<<NotNull(i), NotNull(2 - (i % 2))>> : i \in 1..3}, {<<3, 1>>}),
               {<<>>}, {{}, {2}})
         \cup Scans({<<f>> : f \in Lows \cup Equals}, Children(Pairs(Values({2}) \cup {NullSlot}), {<<3>>}),
                   {<<>>}, {{}})
         \cup Scans({<<f>> : f \in Equals}, Children(Pairs(Values({2, 3})), {<<3>>}),
                   {<<<<[id |-> 1, key |-> <<NotNull(k), NotNull(1)>>]>>>> : k \in 3..4}, {{}}) :
     Searchable(p) /\ (p.right # <<>> => p.filters[1].constant # p.left[1][1].key[1].raw)}

MCPlans == <<HashJoins, CrossProducts, BlockwiseJoins, MergeJoins, LoopJoins, GroupBys, Trees, Averages, Partitions,
             Frames, Tiles, Orders, Filters, Limits, Unions, IndexScans>>

-----------------------------------------------------------------------------
(* Operators with inputs on which they do not do what the code says.         *)

\* A range condition beside the equality, and NULLs.
NullRangeKey ==
  <<Join("HASH_JOIN", {"INNER"}, {<<Cond("EQUAL"), Cond("LESSTHAN")>>}, FALSE,
         Children(Two, {<<1>>}), Children(Two, {<<1>>}))>>

\* As many matches as a vector has room for.
FullVector ==
  <<Join("NESTED_LOOP_JOIN", {"INNER"}, {<<Cond("NOTEQUAL")>>}, FALSE,
         Children({<<NotNull(1)>>}, {<<2>>}), Children({<<NotNull(2)>>}, {<<2>>}))>>

\* A left chunk after the first.
SecondLeftChunk ==
  <<Join("NESTED_LOOP_JOIN", {"MARK"}, {<<Cond("NOTEQUAL")>>}, FALSE,
         Children({<<NotNull(1)>>}, {<<1, 1>>}), Children({<<NotNull(2)>>}, {<<1>>}))>>

\* NULLs in two right chunks.
NullsInTwoChunks ==
  <<Join("NESTED_LOOP_JOIN", {"INNER"}, {<<Cond("LESSTHANOREQUALTO"), Cond("NOTEQUAL")>>}, FALSE,
         Children(Two, {<<1>>}), Children({<<NotNull(1), NotNull(1)>>, <<NotNull(1), NullSlot>>}, {<<3, 1>>}))>>

\* A left chunk with only NULLs.
NullLeftChunk ==
  <<Join("NESTED_LOOP_JOIN", {"INNER"}, {<<Cond("NOTEQUAL")>>}, FALSE,
         Children({<<NullSlot>>}, {<<1>>}), Children({<<NotNull(2)>>}, {<<1>>}))>>

\* A right chunk with only NULLs.
NullRightChunk ==
  <<Join("PIECEWISE_MERGE_JOIN", {"MARK"}, {<<Cond("GREATERTHAN")>>}, FALSE,
         Children(One, {<<1>>}), Children({<<NullSlot>>}, {<<1>>}))>>

\* An offset that is not in the first chunk.
LaterOffset ==
  <<[op : {"LIMIT"}, limit : {1}, offset : {3}, left : LimitChild(<<3, 2>>, {True}, {{}}), right : {<<>>}]>>

\* An offset, and NULLs.
OffsetNulls ==
  <<[op : {"LIMIT"}, limit : {1}, offset : {1}, left : LimitChild(<<2>>, {True}, {{1}, {2}}), right : {<<>>}]>>

\* Two windows with different orders.
TwoWindows ==
  <<Windowed({<<Default("RANK", <<>>, <<1>>), Default("RANK", <<>>, <<2>>)>>}, WindowChild(Two, <<2>>, 1))>>

\* Peers in descending order.
DescendingPeers ==
  <<Windowed({<<[Default("SUM", <<>>, <<2>>) EXCEPT !.desc = TRUE]>>}, WindowChild(Two, <<3>>, 1))>>

\* A row before the first: a frame that ends there has all rows.
EndBeforeFirst ==
  <<Windowed({<<WindowOver("SUM", <<>>, <<>>, "UNBOUNDED_PRECEDING", 0, "EXPR_PRECEDING", 2)>>},
             WindowChild(Two, <<2>>, 1))>>

\* A frame without rows.
EmptyFrame ==
  <<Windowed({<<WindowOver("COUNT_STAR", <<>>, <<>>, "UNBOUNDED_PRECEDING", 0, "EXPR_PRECEDING", 1)>>},
             WindowChild(Two, <<2>>, 1))>>

\* An average of more rows than a node of the tree has.
WideAverage ==
  <<Windowed({<<WindowOver("AVG", <<>>, <<>>, "UNBOUNDED_PRECEDING", 0, "UNBOUNDED_FOLLOWING", 0)>>},
             WindowChild({<<NotNull(1), NotNull(1)>>}, <<3, 1>>, 1))>>

\* The second row on.
LeadOffset ==
  <<Windowed({<<[Default("LEAD", <<>>, <<>>) EXCEPT !.offset = 2]>>}, WindowChild(Two, <<3>>, 1))>>

\* Tiles of two partitions.
PartitionTiles ==
  <<Windowed({<<Default("NTILE", <<1>>, <<>>)>>},
             WindowChild({<<NotNull(1), NotNull(1)>>, <<NotNull(2), NotNull(1)>>}, <<3, 1>>, 1))>>

\* More tiles than rows.
ManyTiles ==
  <<Windowed({<<Default("NTILE", <<>>, <<>>)>>}, WindowChild(Two, <<2>>, 3))>>

\* A NULL, then values to sort.
NullFirst ==
  <<Join("PIECEWISE_MERGE_JOIN", {"INNER"}, {<<Cond("LESSTHAN")>>}, FALSE,
         Children(One, {<<3>>}), Children(One, {<<3>>}))>>

\* A constant that is not in the index.
BoundBetween ==
  <<Scans({<<Filter1("LESSTHAN", 2)>>}, Children({<<NotNull(1)>>, <<NotNull(3)>>}, {<<2>>}), {<<>>}, {{}})>>

\* One entry below the constant.
BoundSecond ==
  <<Scans({<<Filter1("LESSTHAN", 3)>>}, Children({<<NotNull(1)>>, <<NotNull(3)>>}, {<<2>>}), {<<>>}, {{}})>>

\* The least value.
BoundFirst ==
  <<Scans({<<Filter1("GREATERTHAN", 1)>>}, Children({<<NotNull(1)>>, <<NotNull(3)>>}, {<<2>>}), {<<>>}, {{}})>>

\* A constant below the least value.
BoundBelow ==
  <<Scans({<<Filter1("EQUAL", 1)>>}, Children({<<NotNull(2)>>}, {<<2>>}), {<<>>}, {{}})>>

\* NULLs in the index.
IndexedNull ==
  <<Scans({<<Filter1("LESSTHANOREQUALTO", 2)>>}, Children({<<NullSlot>>, <<NotNull(2)>>}, {<<2>>}), {<<>>}, {{}})>>

\* A bound below, a bound above, and another condition.
ErasedFilter ==
  <<Scans({<<Filter1("GREATERTHANOREQUALTO", 1), Filter1("LESSTHANOREQUALTO", 3), Filter2>>},
          Children(Pairs(Values({1})), {<<2>>}), {<<>>}, {{}})>>

\* A row that was updated, and its old value.
StaleEntry ==
  <<Scans({<<Filter1("EQUAL", 1)>>}, Children(Pairs(Values({1})), {<<2>>}),
          {<<<<[id |-> 1, key |-> <<NotNull(3), NotNull(1)>>]>>>>}, {{}})>>

\* A vector of deleted rows before the others.
DeletedFirst ==
  <<Scans({<<Filter1("GREATERTHANOREQUALTO", 1)>>}, Children({<<NotNull(1)>>}, {<<3, 1>>}), {<<>>}, {1..3})>>
=============================================================================
