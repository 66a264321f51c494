------------------------------ MODULE Vectors -------------------------------
(***************************************************************************)
(* The data that physical operators work on.  A value is a slot of a       *)
(* vector: the raw data and the bit of the null mask.  NULL slots have raw *)
(* data too; what was read from a table has NullValue<T> there, the        *)
(* smallest value of the type.  A chunk is a sequence of at most           *)
(* STANDARD_VECTOR_SIZE rows.  A row has the values of the expressions its *)
(* operator evaluates on it (the keys) and an identity that stands for its *)
(* columns.                                                                *)
(***************************************************************************)
EXTENDS Integers, Sequences, FiniteSets, SequencesExt, FiniteSetsExt

CONSTANT STANDARD_VECTOR_SIZE

ASSUME VectorAssumption == STANDARD_VECTOR_SIZE \in Nat \ {0}

\* The smallest and the largest value of the type.
NullRaw == -1000
MaxRaw == 1000

NotNull(x) == [raw |-> x, null |-> FALSE]
NullSlot == [raw |-> NullRaw, null |-> TRUE]

\* A DECIMAL: a fraction in lowest terms.
Fraction(a, b) == LET g == Max({d \in 1..b : a % d = 0 /\ b % d = 0}) IN <<a \div g, b \div g>>

\* An identity that is NULL.
NullId == -1

HasNull(key) == \E c \in DOMAIN key : key[c].null

-----------------------------------------------------------------------------
(* Comparisons.                                                             *)

\* What the loops over vectors compute: the raw data is compared, whatever the
\* null masks say.
Compare(comparison, x, y) ==
  CASE comparison = "EQUAL" -> x = y
    [] comparison = "NOTEQUAL" -> x # y
    [] comparison = "LESSTHAN" -> x < y
    [] comparison = "LESSTHANOREQUALTO" -> x <= y
    [] comparison = "GREATERTHAN" -> x > y
    [] comparison = "GREATERTHANOREQUALTO" -> x >= y

\* A value of the type BOOLEAN in SQL.
Three == {"true", "false", "null"}

\* What SQL says of the comparison of two values.
Sql(comparison, v, w) ==
  CASE v.null \/ w.null -> "null"
    [] Compare(comparison, v.raw, w.raw) -> "true"
    [] OTHER -> "false"

SqlAnd(S) ==
  CASE "false" \in S -> "false"
    [] "null" \in S -> "null"
    [] OTHER -> "true"

SqlOr(S) ==
  CASE "true" \in S -> "true"
    [] "null" \in S -> "null"
    [] OTHER -> "false"

-----------------------------------------------------------------------------
(* Sorting.  up[<<p, q>>] lets the position p stay left of the pivot q, and *)
(* down[<<p, q>>] lets it stay right of it.                                 *)

Swapped(s, i, j) == [s EXCEPT ![i] = s[j], ![j] = s[i]]

RECURSIVE Partition(_, _, _, _, _, _)
\* The loop over i and j: the sequence, and i when they have met.
Partition(s, i, j, pivot, up, down) ==
  LET a == Min({k \in i..(j + 1) : k > j \/ ~up[<<s[k], pivot>>]})
      b == Max({k \in (a - 1)..j : k < a \/ ~down[<<s[k], pivot>>]})
  IN  IF a < b THEN Partition(Swapped(s, a, b), a, b, pivot, up, down) ELSE <<s, a>>

RECURSIVE QuicksortInplace(_, _, _, _, _)
\* The pivot is put where the two met, and the sides of it are sorted.
SortSides(met, left, right, up, down) ==
  LET part == met[2] - 1
  IN  QuicksortInplace(QuicksortInplace(Swapped(met[1], part, left), left, part - 1, up, down),
                       part + 1, right, up, down)

QuicksortInplace(s, left, right, up, down) ==
  IF left >= right THEN s
    ELSE LET middle == left + (right - left) \div 2
         IN  SortSides(Partition(Swapped(s, middle, left), left + 1, right, s[middle], up, down),
                       left, right, up, down)

\* The first pass compares with the slot 1 of the data, and puts the first of
\* the selected positions in the place found for it.
QuicksortInitial(sel, up) ==
  LET rest == Tail(sel)
  IN  << SelectSeq(rest, LAMBDA p : up[<<p, 1>>]), SelectSeq(rest, LAMBDA p : ~up[<<p, 1>>]) >>

SortParts(pivot, parts, up, down) ==
  LET part == Len(parts[1]) + 1
  IN  QuicksortInplace(QuicksortInplace(parts[1] \o <<pivot>> \o Reverse(parts[2]), 1, part, up, down),
                       part + 1, part + Len(parts[2]), up, down)

Quicksort(sel, up, down) ==
  IF sel = <<>> THEN <<>> ELSE SortParts(sel[1], QuicksortInitial(sel, up), up, down)

\* The positions of a vector in the order of its data, without the NULLs.
OrderVector(vector) ==
  LET pairs == (DOMAIN vector) \X (DOMAIN vector)
  IN  Quicksort(SelectSeq([i \in DOMAIN vector |-> i], LAMBDA i : ~vector[i].null),
                [p \in pairs |-> vector[p[1]].raw <= vector[p[2]].raw],
                [p \in pairs |-> vector[p[2]].raw <= vector[p[1]].raw])

\* Column by column, NULL before all other values.
CompareValue(v, w) ==
  CASE v.null /\ w.null -> 0
    [] w.null -> 1
    [] v.null -> -1
    [] v.raw = w.raw -> 0
    [] v.raw < w.raw -> -1
    [] OTHER -> 1

FirstDifference(comparisons) ==
  LET c == SelectInSeq(comparisons, LAMBDA x : x # 0) IN IF c = 0 THEN 0 ELSE comparisons[c]

CompareTuple(desc, key1, key2) ==
  FirstDifference([c \in DOMAIN desc |-> CompareValue(key1[c], key2[c]) * (IF desc[c] THEN -1 ELSE 1)])

\* ChunkCollection::Sort, on the rows of the collection.
SortBy(sel, up) == Quicksort(sel, up, [p \in DOMAIN up |-> ~up[p]])

SortOrder(rows, desc) ==
  SortBy([i \in DOMAIN rows |-> i],
         [p \in (DOMAIN rows) \X (DOMAIN rows) |-> CompareTuple(desc, rows[p[1]].key, rows[p[2]].key) <= 0])

-----------------------------------------------------------------------------
(* Collections of chunks.  All but the last are full.                       *)

FillLast(chunks, new, added) ==
  LET filled == IF added = 0 THEN chunks
                  ELSE [chunks EXCEPT ![Len(chunks)] = @ \o SubSeq(new, 1, added)]
  IN  IF added = Len(new) THEN filled ELSE Append(filled, SubSeq(new, added + 1, Len(new)))

CollectionAppend(chunks, new) ==
  LET room == IF chunks = <<>> THEN 0 ELSE STANDARD_VECTOR_SIZE - Len(Last(chunks))
  IN  FillLast(chunks, new, Min({room, Len(new)}))

\* A child of an operator, called until it returns an empty chunk.
Materialized(child) == FoldLeft(CollectionAppend, <<>>, child)

\* All rows of a sequence of chunks.
Rows(chunks) == FlattenSeq(chunks)

\* What the next call to a child returns; the empty chunk at the end.
ChildChunk(child, pos) == IF pos <= Len(child) THEN child[pos] ELSE <<>>

-----------------------------------------------------------------------------
(* One pass of the loop in an operator's _GetChunk: its state afterwards,   *)
(* and the chunk if it returns.                                             *)

Loops(state) == [state |-> state, returns |-> FALSE, chunk |-> <<>>]
Returns(state, chunk) == [state |-> state, returns |-> TRUE, chunk |-> chunk]
Yields(state, chunk) == [state |-> state, returns |-> chunk # <<>>, chunk |-> chunk]

\* Two sequences with the same rows in any order.
SameRows(s, t) ==
  LET times(x, q) == Cardinality({i \in DOMAIN q : q[i] = x})
  IN  Len(s) = Len(t) /\ \A i \in DOMAIN s : times(s[i], s) = times(s[i], t)
=============================================================================
