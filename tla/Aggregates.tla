----------------------------- MODULE Aggregates -----------------------------
(***************************************************************************)
(* The aggregate hash table (SuperLargeHashTable) and the operator that    *)
(* groups and aggregates with it.  A plan has the number of group columns  *)
(* (0 for an aggregation of everything) and the aggregates.  The key of a  *)
(* row has the values of the groups, then one value for each aggregate.    *)
(***************************************************************************)
EXTENDS Vectors

CONSTANT GroupCapacity        \* the first capacity of an aggregate hash table

Counts == {"COUNT_STAR", "COUNT", "COUNT_DISTINCT"}
Distincts == {"COUNT_DISTINCT", "SUM_DISTINCT"}

\* A NULL is NullValue<T> in the table, and NullValue<T> is a NULL outside.
Serialize(values) == [c \in DOMAIN values |-> IF values[c].null THEN NullRaw ELSE values[c].raw]
Gather(raws) == [c \in DOMAIN raws |-> IF raws[c] = NullRaw THEN NullSlot ELSE NotNull(raws[c])]

\* A cell is empty, <<>>, or has a group and its aggregates.
NoCells(capacity) == [p \in 0..(capacity - 1) |-> <<>>]

EmptyPayload(aggregates) == [a \in DOMAIN aggregates |-> IF aggregates[a] \in Counts THEN 0 ELSE NullRaw]

\* distinct has a table of groups and values for each aggregate of distinct values.
SuperLargeHashTable(aggregates) ==
  LET table == [capacity |-> GroupCapacity, cells |-> NoCells(GroupCapacity), entries |-> 0, distinct |-> <<>>]
  IN  [table EXCEPT !.distinct = [a \in DOMAIN aggregates |-> table]]

\* The hashes of the columns are combined by a commutative operation.  A cell
\* that is taken by another group is skipped, over the end to the start.
FindCell(table, group) ==
  LET hash == FoldLeft(LAMBDA h, x : h + x, 0, group)
      at(k) == (hash + k) % table.capacity
  IN  at(Min({k \in 0..(table.capacity - 1) :
                LET cell == table.cells[at(k)] IN cell = <<>> \/ cell[1].group = group}))

TakeCell(table, payload, group, p) ==
  IF table.cells[p] # <<>> THEN table
    ELSE [table EXCEPT !.cells[p] = <<[group |-> group, payload |-> payload]>>, !.entries = @ + 1]

CreateGroup(table, payload, group) == TakeCell(table, payload, group, FindCell(table, group))

FullCells(table) == SelectSeq([p \in 1..table.capacity |-> p - 1], LAMBDA p : table.cells[p] # <<>>)

\* The groups and their aggregates are put in a larger table; the tables of
\* distinct values stay.
ResizeTable(table, size) ==
  FoldLeft(LAMBDA t, p : CreateGroup(t, table.cells[p][1].payload, table.cells[p][1].group),
           [table EXCEPT !.capacity = size, !.cells = NoCells(size), !.entries = 0],
           FullCells(table))

AddGroup(found, payload, group, p) ==
  [table |-> TakeCell(found.table, payload, group, p),
   addresses |-> Append(found.addresses, p),
   new_group |-> Append(found.new_group, found.table.cells[p] = <<>>)]

\* The cell of each group of a chunk, and whether it was new.
FindOrCreateGroups(table, payload, groups) ==
  LET full == table.entries > table.capacity \div 2 \/ table.capacity - table.entries <= STANDARD_VECTOR_SIZE
      Step(found, group) == AddGroup(found, payload, group, FindCell(found.table, group))
  IN  FoldLeft(Step, [table |-> IF full THEN ResizeTable(table, table.capacity * 2) ELSE table,
                      addresses |-> <<>>, new_group |-> <<>>], groups)

\* What becomes of an aggregate with one more value.
Scatter(aggregate, value, old) ==
  CASE aggregate = "COUNT_STAR" -> old + 1
    [] aggregate # "COUNT_STAR" /\ value.null -> old
    [] aggregate \in {"COUNT", "COUNT_DISTINCT"} /\ ~value.null -> old + 1
    [] aggregate \notin Counts /\ ~value.null /\ old = NullRaw -> value.raw
    [] OTHER -> CASE aggregate \in {"SUM", "SUM_DISTINCT"} -> value.raw + old
                  [] aggregate = "MIN" -> Min({value.raw, old})
                  [] aggregate = "MAX" -> Max({value.raw, old})
                  [] aggregate = "FIRST" -> old

\* Of a value that the group had before, an aggregate of distinct values is not
\* told.
UpdateGroups(aggregates, payload, found, distinct) ==
  LET Update(cells, i) ==
        LET cell == cells[found.addresses[i]][1]
            aggr(a) == IF distinct[a].new_group[i] THEN Scatter(aggregates[a], payload[i][a], cell.payload[a])
                         ELSE cell.payload[a]
        IN  [cells EXCEPT ![found.addresses[i]] =
               <<[group |-> cell.group, payload |-> [a \in DOMAIN aggregates |-> aggr(a)]]>>]
  IN  [found.table EXCEPT !.cells = FoldLeft(Update, found.table.cells, [i \in DOMAIN payload |-> i]),
                          !.distinct = [a \in DOMAIN aggregates |-> distinct[a].table]]

AddChunk(table, aggregates, groups, payload) ==
  LET probe(a) == [i \in DOMAIN groups |-> groups[i] \o Serialize(<<payload[i][a]>>)]
  IN  UpdateGroups(aggregates, payload, FindOrCreateGroups(table, EmptyPayload(aggregates), groups),
                   [a \in DOMAIN aggregates |->
                      IF aggregates[a] \in Distincts
                        THEN FindOrCreateGroups(table.distinct[a], <<>>, probe(a))
                        ELSE [table |-> table.distinct[a], new_group |-> [i \in DOMAIN groups |-> TRUE]]])

\* A vector of full cells from the position on, and the position after them.
ScanGroups(table, position) ==
  LET rest == SelectSeq(FullCells(table), LAMBDA p : p >= position)
      some == SubSeq(rest, 1, Min({Len(rest), STANDARD_VECTOR_SIZE}))
  IN  [cells |-> [k \in DOMAIN some |-> table.cells[some[k]][1]],
       position |-> IF Len(some) = STANDARD_VECTOR_SIZE THEN Last(some) + 1
                      ELSE IF some = <<>> THEN position ELSE table.capacity]

-----------------------------------------------------------------------------
(* The operator.  Everything is one group, 42, when there are no groups.    *)

HashAggregateInit(plan) ==
  [ht |-> SuperLargeHashTable(plan.aggregates), left |-> 1, tuples_scanned |-> 0, ht_scan_position |-> 0,
   finished |-> FALSE]

GroupOf(plan, row) == IF plan.groups = 0 THEN <<NotNull(42)>> ELSE SubSeq(row.key, 1, plan.groups)
PayloadOf(plan, row) == SubSeq(row.key, plan.groups + 1, Len(row.key))

\* What an aggregate of no rows is.
OfNothing(aggregate) == IF aggregate \in Counts THEN NotNull(0) ELSE NullSlot

\* A pass over the table.
ScanPass(plan, state, scan) ==
  LET next == [state EXCEPT !.left = @ + 1, !.ht_scan_position = scan.position]
      columns(cell) == (IF plan.groups = 0 THEN <<>> ELSE Gather(cell.group)) \o Gather(cell.payload)
  IN  IF scan.cells # <<>> THEN Returns(next, [k \in DOMAIN scan.cells |-> columns(scan.cells[k])])
        ELSE Returns([next EXCEPT !.finished = TRUE],
                     IF state.tuples_scanned = 0 /\ plan.groups = 0
                       THEN <<[a \in DOMAIN plan.aggregates |-> OfNothing(plan.aggregates[a])]>> ELSE <<>>)

\* PhysicalHashAggregate::_GetChunk: a pass is one chunk of the child, or the scan
\* after the last.
HashAggregate(plan, state) ==
  LET rows == ChildChunk(plan.left, state.left)
      groups == [i \in DOMAIN rows |-> Serialize(GroupOf(plan, rows[i]))]
      payload == [i \in DOMAIN rows |-> PayloadOf(plan, rows[i])]
  IN  CASE state.finished -> Returns(state, <<>>)
        [] ~state.finished /\ rows # <<>> ->
             Loops([state EXCEPT !.left = @ + 1, !.tuples_scanned = @ + Len(rows),
                                 !.ht = AddChunk(@, plan.aggregates, groups, payload)])
        [] OTHER -> ScanPass(plan, state, ScanGroups(state.ht, state.ht_scan_position))
=============================================================================
