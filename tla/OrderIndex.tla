----------------------------- MODULE OrderIndex -----------------------------
(***************************************************************************)
(* A filter over a table with an index on its first column.  The index is  *)
(* an array of values and row identifiers in the order of the values, with *)
(* positions from 0.  The filters compare a column with a constant.  The   *)
(* left child of the plan has the chunks that were appended to the table,  *)
(* the right one those that were updated since; gone are the rows that     *)
(* were deleted, and garbage is the memory after the array.                *)
(***************************************************************************)
EXTENDS Operators, TLC

-----------------------------------------------------------------------------
(* The index.                                                               *)

\* OrderIndex::Insert: the values are those in the vector, under a null bit too.
Insert(data, rows) == data \o [i \in DOMAIN rows |-> [value |-> rows[i].key[1].raw, row_id |-> rows[i].id]]

Sort(data) == SortSeq(data, LAMBDA a, b : a.value < b.value)

\* OrderIndex::Append and Update.  Nothing ever leaves the index.
AppendRows(data, rows) == Sort(Insert(data, rows))

IndexOf(plan) == FoldLeft(AppendRows, <<>>, plan.left \o plan.right)

\* The values in memory, from the first entry on.
Memory(data, garbage) ==
  [p \in 0..(Len(data) + 1) |->
     CASE p < Len(data) -> data[p + 1].value [] p = Len(data) -> garbage [] OTHER -> MaxRaw]

\* The search reads memory that is far from the index, and the program ends: this
\* stands for the position, and a row that no table has for the result.
Far == -1

RECURSIVE BinarySearch(_, _, _, _)
\* binary_search: upper is unsigned.
BinarySearch(array, key, lower, upper) ==
  LET middle == (lower + upper) \div 2
  IN  CASE lower > upper -> [found |-> FALSE, pos |-> upper]
        [] lower <= upper /\ array[middle] < key -> BinarySearch(array, key, middle + 1, upper)
        [] lower <= upper /\ array[middle] > key /\ middle > 0 -> BinarySearch(array, key, lower, middle - 1)
        [] lower <= upper /\ array[middle] > key /\ middle = 0 -> [found |-> FALSE, pos |-> Far]
        [] OTHER -> [found |-> TRUE, pos |-> middle]

SearchLT(array, key, s) ==
  LET pos == Max({p \in 0..s.pos : p = 0 \/ array[p] # key})
  IN  CASE ~s.found -> s.pos [] s.found /\ pos = 0 -> 0 [] OTHER -> pos + 1

SearchGT(array, key, s) ==
  Min({p \in DOMAIN array : p >= s.pos /\ (p = 0 \/ array[p] # key)}) + (IF s.found THEN 0 ELSE 1)

SearchLTE(array, key, s, count) == Min({p \in 0..count : p >= s.pos /\ (array[p] > key \/ p = count)})

SearchGTE(array, key, s) ==
  IF s.found THEN Max({p \in -1..s.pos : p = -1 \/ array[p] # key}) + 1 ELSE s.pos + 1

-----------------------------------------------------------------------------
(* The plan.                                                                *)

RangeFrom == {"GREATERTHAN", "GREATERTHANOREQUALTO"}

\* vector::erase.  Given the end, the library drops the last element.
Erase(s, i) == IF i \in DOMAIN s THEN RemoveAt(s, i) ELSE Front(s)

\* CreateIndexScan: the last bound below, the last bound above and the first
\* equality, up to that equality; 0 if there is none.
CreateIndexScan(filters) ==
  LET matching == {i \in DOMAIN filters : filters[i].column = 1 /\ filters[i].comparison # "NOTEQUAL"}
      equal == {i \in matching : filters[i].comparison = "EQUAL"}
      before == {i \in matching : \A e \in equal : i < e}
      low == {i \in before : filters[i].comparison \in RangeFrom}
  IN  [equal |-> IF equal = {} THEN 0 ELSE Min(equal),
       low |-> Max(low \cup {0}), high |-> Max((before \ low) \cup {0})]

\* What is left to filter: the conditions of the scan are erased one after the other.
RemainingFilters(filters, scan) ==
  LET erased(s, i) == IF i = 0 THEN s ELSE Erase(s, i)
  IN  erased(erased(erased(filters, scan.equal), scan.low), scan.high)

-----------------------------------------------------------------------------
(* The scan.                                                                *)

IndexScanInit == [scanning |-> FALSE, current_index |-> 0, final_index |-> 0]

ScanFrom(array, filter, s) ==
  CASE s.pos = Far -> Far
    [] s.pos # Far /\ filter.comparison = "GREATERTHAN" -> SearchGT(array, filter.constant, s)
    [] OTHER -> SearchGTE(array, filter.constant, s)

ScanTo(array, filter, s, count) ==
  CASE s.pos = Far -> Far
    [] s.pos # Far /\ filter.comparison = "LESSTHAN" -> SearchLT(array, filter.constant, s)
    [] OTHER -> SearchLTE(array, filter.constant, s, count)

\* OrderIndex::InitializeScanSinglePredicate and InitializeScanTwoPredicates.
InitializeScan(plan, scan, data) ==
  LET array == Memory(data, plan.garbage)
      count == Len(data)
      Found(i) == BinarySearch(array, plan.filters[i].constant, 0, count)
      From(i) == ScanFrom(array, plan.filters[i], Found(i))
      To(i) == ScanTo(array, plan.filters[i], Found(i), count)
      only_equal == scan.low = 0 /\ scan.high = 0
  IN  [scanning |-> TRUE,
       current_index |-> CASE only_equal -> From(scan.equal) [] scan.low # 0 -> From(scan.low) [] OTHER -> 0,
       final_index |-> CASE only_equal -> To(scan.equal) [] scan.high # 0 -> To(scan.high) [] OTHER -> count]

\* The columns of a row as they are now.
TableRow(plan, id) ==
  LET rows == SelectSeq(Rows(plan.left \o plan.right), LAMBDA r : r.id = id) IN rows[Len(rows)]

\* DataTable::Fetch: the rows with these identifiers, in the order of those, that
\* were not deleted.
Fetch(plan, row_ids) ==
  LET seen == SelectSeq(SortSeq(row_ids, <), LAMBDA id : id \notin plan.gone)
  IN  [k \in DOMAIN seen |-> TableRow(plan, seen[k])]

Holds(filter, row) == Sql(filter.comparison, row.key[filter.column], NotNull(filter.constant)) = "true"

\* The filter above the scan.  After a chunk of which no row is left to fetch, the
\* scan is over.
FilterFetched(s, chunk, remaining) ==
  IF chunk = <<>> THEN Returns(s, <<>>)
    ELSE Yields(s, SeqIds(SelectSeq(chunk, LAMBDA r : \A i \in DOMAIN remaining : Holds(remaining[i], r))))

ScanIndex(plan, s, data, remaining) ==
  LET position == Min({s.final_index, s.current_index + STANDARD_VECTOR_SIZE})
      row_ids == [k \in 1..(position - s.current_index) |-> data[s.current_index + k].row_id]
  IN  CASE Far \in {s.current_index, s.final_index} ->
             Returns([s EXCEPT !.current_index = 0, !.final_index = 0], <<<<NullId>>>>)
        [] s.current_index >= s.final_index -> Returns(s, <<>>)
        [] OTHER -> FilterFetched([s EXCEPT !.current_index = position], Fetch(plan, row_ids), remaining)

ScanWith(plan, state, scan, data) ==
  ScanIndex(plan, IF state.scanning THEN state ELSE InitializeScan(plan, scan, data), data,
            RemainingFilters(plan.filters, scan))

\* PhysicalIndexScan::_GetChunk, with OrderIndex::Scan and the filter above it.
IndexScan(plan, state) == ScanWith(plan, state, CreateIndexScan(plan.filters), IndexOf(plan))
=============================================================================
