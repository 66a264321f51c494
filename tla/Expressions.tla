---------------------------- MODULE Expressions -----------------------------
(***************************************************************************)
(* The expression executor and the data chunks it reads and fills: what a  *)
(* pipeline of scan, filters, projections and sinks does to the rows of a  *)
(* table.  Beside the chunk runs the meaning of the same steps, row by     *)
(* row, in three-valued logic.                                             *)
(***************************************************************************)
EXTENDS VectorOps, TLC

CONSTANT Workloads  \* tables (per column a type and what is stored) with the steps to run

VARIABLES
  chunk,   \* the DataChunk, or Raise(what)
  rows,    \* what the steps so far mean
  error,   \* whether they mean an error
  todo     \* the steps to go

vars == <<chunk, rows, error, todo>>

-----------------------------------------------------------------------------
(* Scalar functions.                                                        *)

Upper(b) == IF b \in 97..122 THEN b - 32 ELSE b
Lower(b) == IF b \in 65..90 THEN b + 32 ELSE b

\* caseconvert_function, length_function: only where the input is not NULL.
StringLoop(input, type, Op(_)) ==
  Result(type, input, Exec(input) \ input.nullmask, LAMBDA i : Op(input.data[i]), input.nullmask)

Characters(s) == Len(SelectSeq(s, LAMBDA b : ~IsContinuation(b)))

\* concat_function: the masks are joined position by position.
concat_function(left, right) ==
  LET shape == Shape(left, right)
      nullmask == left.nullmask \cup right.nullmask
      todo_ == Exec(shape) \ nullmask
      L(i) == left.data[Index(left, i)]
      R(i) == right.data[Index(right, i)]
  IN  IF \E i \in todo_ : {L(i), R(i)} \cap {Dangling, NullPtr} # {} THEN Raise("crash")
      ELSE Result("VARCHAR", shape, todo_, LAMBDA i : L(i) \o R(i), nullmask)

\* The characters of a string after the first offset ones, at most length of them;
\* both are size_t and wrap.
SubstringOf(s, offset, last) ==
  LET char(i) == Characters(SubSeq(s, 1, i))
      kept == {i \in DOMAIN s : offset < char(i) /\ \A j \in 1..i : char(j) <= last}
  IN  IF kept = {} THEN <<>> ELSE SubSeq(s, Min(kept), Max(kept))

Unsigned64(x) == x % 2^Bits["POINTER"]

Substring(s, from, length) ==
  SubstringOf(s, Unsigned64(from - 1), Unsigned64(from - 1 + length))

substring_function(input, offset, length) ==
  LET shape == Shape(input, Shape(offset, length))
  IN  Result("VARCHAR", shape, {i \in Exec(shape) : Index(input, i) \notin input.nullmask},
             LAMBDA i : Substring(input.data[Index(input, i)], offset.data[Index(offset, i)],
                                  length.data[Index(length, i)]),
             input.nullmask)

\* VectorOperations::Round, to no digit after the point.
Round(input, precision) ==
  IF TypeIsInteger(input.type) THEN Copy(input, 0)
  ELSE BinaryLoop(input, precision, input.type, LAMBDA x, p : FromInteger(Truncated(x)))

Call(name, a) ==
  CASE name = "abs" -> Abs(a[1])
    [] name = "upper" -> StringLoop(a[1], "VARCHAR", LAMBDA s : [i \in DOMAIN s |-> Upper(s[i])])
    [] name = "lower" -> StringLoop(a[1], "VARCHAR", LAMBDA s : [i \in DOMAIN s |-> Lower(s[i])])
    [] name = "length" -> StringLoop(a[1], "BIGINT", Characters)
    [] name = "concat" -> concat_function(a[1], a[2])
    [] name = "substring" -> substring_function(a[1], a[2], a[3])
    [] name = "round" -> Round(a[1], a[2])

-----------------------------------------------------------------------------
(* ExpressionExecutor.                                                      *)

AnyOf(matches) == FoldLeft(Or, matches[1], Tail(matches))
NotIf(negated, v) == IF negated THEN Not(v) ELSE v

\* IN: the comparisons with the list, joined by OR.
ExecuteIn(expr, a) ==
  NotIf(expr.type = "NOT_IN",
        AnyOf([i \in 1..(Len(a) - 1) |-> Compare("EQUAL", a[1], a[i + 1])]))

ExecuteCast(expr, child) ==
  IF child.type = GetInternalType(expr.target_type) THEN child
  ELSE Cast(child, expr.source_type, expr.target_type)

ExecuteComparison(type, left, right) ==
  IF type \in {"LIKE", "NOTLIKE"} THEN LikeLoop(left, right, type = "NOTLIKE")
  ELSE Compare(type, left, right)

ExecuteConjunction(type, left, right) == IF type = "AND" THEN And(left, right) ELSE Or(left, right)

ExecuteOperator(expr, a) ==
  CASE expr.type \in {"IN", "NOT_IN"} -> ExecuteIn(expr, a)
    [] expr.type = "NOT" -> Not(a[1])
    [] expr.type \in {"IS_NULL", "IS_NOT_NULL"} -> IsNull(a[1], expr.type = "IS_NOT_NULL")
    [] expr.type = "ADD" -> Add(a[1], a[2])
    [] expr.type = "SUBTRACT" -> Subtract(a[1], a[2])
    [] expr.type = "MULTIPLY" -> Multiply(a[1], a[2])
    [] expr.type = "DIVIDE" -> Divide(a[1], a[2])
    [] expr.type = "MOD" -> Modulo(a[1], a[2])

Apply(expr, a) ==
  CASE expr.class = "CASE" -> Case(a[1], a[2], a[3])
    [] expr.class = "CAST" -> ExecuteCast(expr, a[1])
    [] expr.class = "COMPARISON" -> ExecuteComparison(expr.type, a[1], a[2])
    [] expr.class = "CONJUNCTION" -> ExecuteConjunction(expr.type, a[1], a[2])
    [] expr.class = "FUNCTION" -> Call(expr.type, a)
    [] OTHER -> ExecuteOperator(expr, a)

\* The first exception of these results, 0 if there is none.
FirstRaised(results) == SelectInSeq(results, Raised)

ApplyUnlessRaised(expr, a) ==
  IF FirstRaised(a) # 0 THEN a[FirstRaised(a)] ELSE Apply(expr, a)

RECURSIVE Execute(_, _)
Execute(expr, input) ==
  CASE expr.class = "REF" -> input.data[expr.index]
    [] expr.class = "CONSTANT" -> ReferenceValue(expr.value)
    [] OTHER ->
         ApplyUnlessRaised(expr, [i \in DOMAIN expr.children |-> Execute(expr.children[i], input)])

Size(c) == c.data[1].count

\* ExecuteExpression: a single value is repeated for every row of the chunk.
Repeated(vector, input) ==
  IF Raised(vector) THEN vector
  ELSE IF vector.count = 1 /\ (Size(input) > 1 \/ vector.sel_vector # input.sel_vector)
  THEN Set([count |-> Size(input), sel_vector |-> input.sel_vector], GetValue(vector, 0))
  ELSE IF vector.count # Size(input) THEN Raise("length")
  ELSE vector

ExecuteExpression(expr, input) == Repeated(Execute(expr, input), input)

ChunkOf(data) ==
  IF FirstRaised(data) # 0 THEN data[FirstRaised(data)]
  ELSE [data |-> data, sel_vector |-> data[1].sel_vector]

ExecuteAll(expressions, input) ==
  ChunkOf([i \in DOMAIN expressions |-> ExecuteExpression(expressions[i], input)])

\* Merge: the first expression is repeated if it is constant, the others are not.
AndUnlessRaised(left, right) ==
  IF Raised(left) THEN left ELSE IF Raised(right) THEN right ELSE And(left, right)

MergeAll(vectors, input) ==
  FoldLeft(AndUnlessRaised, Repeated(vectors[1], input), Tail(vectors))

Merge(expressions, input) ==
  MergeAll([i \in DOMAIN expressions |-> Execute(expressions[i], input)], input)

-----------------------------------------------------------------------------
(* DataChunk.                                                               *)

\* Mutant of SetSelectionVector: the chunk does not take the new selection vector.
SetSelectionVectorOfData(c, matches) ==
  LET old == [k \in 1..matches.count |-> At(c, k - 1)]
      kept == SelectSeq(old, LAMBDA i : matches.data[i] = 1 /\ i \notin matches.nullmask)
  IN  [c EXCEPT !.data = [i \in DOMAIN c.data |->
                            [c.data[i] EXCEPT !.count = Len(kept), !.sel_vector = kept]]]

SetSelectionVector(c, matches) ==
  LET old == [k \in 1..matches.count |-> At(c, k - 1)]
      kept == SelectSeq(old, LAMBDA i : matches.data[i] = 1 /\ i \notin matches.nullmask)
      sel == IF c.sel_vector # NoSel \/ Len(kept) < matches.count THEN kept ELSE NoSel
  IN  [data |-> [i \in DOMAIN c.data |-> [c.data[i] EXCEPT !.count = Len(kept), !.sel_vector = sel]],
       sel_vector |-> sel]

MapData(c, Op(_)) == [data |-> [i \in DOMAIN c.data |-> Op(c.data[i])], sel_vector |-> NoSel]

Flatten(c) == IF c.sel_vector = NoSel THEN c ELSE MapData(c, FlattenVector)

CopyChunk(c, offset) == MapData(c, LAMBDA v : Copy(v, offset))

\* DataChunk::Append to a chunk.
AppendChunk(c, other) ==
  IF Size(other) = 0 THEN c
  ELSE ChunkOf([i \in DOMAIN c.data |-> AppendVector(c.data[i], other.data[i])])

\* DataChunk::Serialize and Deserialize: the strings are taken from the front of
\* the data, a null pointer stands for NULL.
Serialize(c) ==
  [i \in DOMAIN c.data |->
     LET v == c.data[i]
     IN  [type |-> v.type,
          stored |-> IF v.type # "VARCHAR" THEN CopyToStorage(v)
                     ELSE [j \in 1..Size(c) |-> IF v.data[j - 1] = NullPtr THEN StrNil
                                                ELSE v.data[j - 1]]]]

Deserialize(columns) ==
  [sel_vector |-> NoSel,
   data |-> [i \in DOMAIN columns |->
     LET v == AppendFromStorage(columns[i].stored, Initialize(columns[i].type))
     IN  IF v.type = "VARCHAR"
         THEN [v EXCEPT !.data = [j \in Slots |-> IF j \in v.nullmask THEN NullPtr ELSE @[j]]]
         ELSE v]]

\* A scan reads what is stored, column by column.
Scan(columns) ==
  [sel_vector |-> NoSel,
   data |-> [i \in DOMAIN columns |->
               AppendFromStorage(columns[i].stored, Initialize(columns[i].type))]]

\* An append to a table writes the storage format of each column.
Store(c) == [i \in DOMAIN c.data |-> [type |-> c.data[i].type, stored |-> CopyToStorage(c.data[i])]]

-----------------------------------------------------------------------------
(* What an expression means for one row: a value, or Failure.               *)

Failure == Value("VARCHAR", NullPtr)
IsTrue(value) == ~value.is_null /\ value.raw = 1
IsFalse(value) == ~value.is_null /\ value.raw = 0
Truth(b) == Value("BOOLEAN", IF b THEN 1 ELSE 0)

Unless(args, type, result) == IF \E i \in DOMAIN args : args[i].is_null THEN Null(type) ELSE result

Conjoin(l, r) ==
  IF IsFalse(l) \/ IsFalse(r) THEN Truth(FALSE) ELSE Unless(<<l, r>>, "BOOLEAN", Truth(TRUE))
Negate(l) == IF l.is_null THEN l ELSE Truth(~IsTrue(l))
Disjoin(l, r) == Negate(Conjoin(Negate(l), Negate(r)))
Equal(l, r) == IF l.is_null \/ r.is_null THEN Null("BOOLEAN") ELSE Truth(l.raw = r.raw)

RECURSIVE Matches(_, _)
Matches(s, p) ==
  IF p = <<>> THEN s = <<>>
  ELSE IF p[1] = Percent THEN \E n \in 0..Len(s) : Matches(SubSeq(s, n + 1, Len(s)), Tail(p))
  ELSE s # <<>> /\ (p[1] = Underscore \/ p[1] = s[1]) /\ Matches(Tail(s), Tail(p))

\* The characters of a string: each with the bytes that go on with it.
Split(s) ==
  LET starts == SelectSeq([i \in DOMAIN s |-> i], LAMBDA i : ~IsContinuation(s[i]))
      end(k) == IF k = Len(starts) THEN Len(s) ELSE starts[k + 1] - 1
  IN  [k \in DOMAIN starts |-> SubSeq(s, starts[k], end(k))]

FunctionMeaning(name, a) ==
  CASE name = "abs" -> Value(a[1].type, Larger(a[1].raw, -a[1].raw))
    [] name = "upper" -> Value("VARCHAR", [i \in DOMAIN a[1].raw |-> Upper(a[1].raw[i])])
    [] name = "lower" -> Value("VARCHAR", [i \in DOMAIN a[1].raw |-> Lower(a[1].raw[i])])
    [] name = "length" -> Value("BIGINT", Len(Split(a[1].raw)))
    [] name = "concat" -> Value("VARCHAR", a[1].raw \o a[2].raw)
    [] name = "substring" ->
         Value("VARCHAR", FlattenSeq(SubSeq(Split(a[1].raw), Larger(a[2].raw, 1),
                                            Smaller(a[2].raw + a[3].raw - 1, Characters(a[1].raw)))))
    [] name = "round" -> Value(a[1].type, IF TypeIsInteger(a[1].type) THEN a[1].raw
                                          ELSE FromInteger(Truncated(a[1].raw)))

\* Integer arithmetic in the width of the type, as in C.
Arithmetic(op, type, x, y) ==
  Wrap(type, CASE op = "ADD" -> x + y
               [] op = "SUBTRACT" -> x - y
               [] op = "MULTIPLY" -> x * y
               [] op = "DIVIDE" -> CDiv(x, y)
               [] op = "MOD" -> CMod(x, y))

OperatorMeaning(expr, a) ==
  LET type == a[1].type
  IN  CASE expr.type \in {"DIVIDE", "MOD"} /\ a[2].raw = 0 -> Null(type)
        [] expr.class = "FUNCTION" -> FunctionMeaning(expr.type, a)
        [] expr.type = "LIKE" -> Truth(Matches(a[1].raw, a[2].raw))
        [] expr.type = "NOTLIKE" -> Truth(~Matches(a[1].raw, a[2].raw))
        [] expr.class = "COMPARISON" -> Truth(Compares(expr.type, type, a[1].raw, a[2].raw))
        [] OTHER -> Value(type, Arithmetic(expr.type, type, a[1].raw, a[2].raw))

CastMeaning(expr, value) ==
  LET source == GetInternalType(expr.source_type)
      target == GetInternalType(expr.target_type)
  IN  IF value.is_null THEN Null(target)
      ELSE IF source # target /\ CastFails(source, target, value.raw) # "" THEN Failure
      ELSE Value(target, CastRaw(source, target, value.raw))

ResultType(expr, a) ==
  CASE expr.class = "COMPARISON" -> "BOOLEAN"
    [] expr.type = "length" -> "BIGINT"
    [] OTHER -> a[1].type

RECURSIVE Meaning(_, _)
Meaning(expr, row) ==
  CASE expr.class = "REF" -> row[expr.index]
    [] expr.class = "CONSTANT" -> expr.value
    [] OTHER ->
         LET a == [i \in DOMAIN expr.children |-> Meaning(expr.children[i], row)]
             any == FoldLeft(Disjoin, Truth(FALSE), [i \in 1..(Len(a) - 1) |-> Equal(a[1], a[i + 1])])
         IN  CASE \E i \in DOMAIN a : a[i] = Failure -> Failure
               [] expr.class = "CASE" -> IF IsTrue(a[1]) THEN a[2] ELSE a[3]
               [] expr.class = "CAST" -> CastMeaning(expr, a[1])
               [] expr.type = "AND" -> Conjoin(a[1], a[2])
               [] expr.type = "OR" -> Disjoin(a[1], a[2])
               [] expr.type = "NOT" -> Negate(a[1])
               [] expr.type = "IN" -> any
               [] expr.type = "NOT_IN" -> Negate(any)
               [] expr.type = "IS_NULL" -> Truth(a[1].is_null)
               [] expr.type = "IS_NOT_NULL" -> Truth(~a[1].is_null)
               [] OTHER -> Unless(a, ResultType(expr, a), OperatorMeaning(expr, a))

-----------------------------------------------------------------------------
(* The pipeline.                                                            *)

Init ==
  \E w \in Workloads :
     /\ chunk = Scan(w.table)
     /\ rows = [k \in 1..Len(w.table[1].stored) |->
                  [i \in DOMAIN w.table |->
                     LET raw == w.table[i].stored[k]
                     IN  IF raw = NullValue(w.table[i].type) THEN Null(w.table[i].type)
                         ELSE Value(w.table[i].type, raw)]]
     /\ error = FALSE
     /\ todo = w.steps

\* An exception ends the query, and an operator that gets no rows asks no further.
Ended == ~Raised(chunk) => Size(chunk) = 0

Step(op) ==
  /\ todo # <<>> /\ ~Ended
  /\ Head(todo).op = op
  /\ todo' = Tail(todo)

\* The meaning of expressions for all rows.
Means(expressions) == [k \in DOMAIN rows |-> [i \in DOMAIN expressions |-> Meaning(expressions[i], rows[k])]]
Fails(results) == \E k \in DOMAIN results : \E i \in DOMAIN results[k] : results[k][i] = Failure

\* PhysicalFilter::_GetChunk for one chunk of the child.
Select(c, result) == IF Raised(result) THEN result ELSE SetSelectionVector(c, result)

Where(table, means) ==
  LET kept == SelectSeq([k \in DOMAIN table |-> k],
                        LAMBDA k : \A i \in DOMAIN means[k] : IsTrue(means[k][i]))
  IN  [k \in DOMAIN kept |-> table[kept[k]]]

Filter ==
  /\ Step("FILTER")
  /\ chunk' = Select(chunk, Merge(Head(todo).expressions, chunk))
  /\ \E means \in {Means(Head(todo).expressions)} :
        /\ error' = Fails(means)
        /\ rows' = Where(rows, means)

\* PhysicalProjection::_GetChunk.
Projection ==
  /\ Step("PROJECTION")
  /\ chunk' = ExecuteAll(Head(todo).expressions, chunk)
  /\ rows' = Means(Head(todo).expressions)
  /\ error' = Fails(rows')

\* DataChunk::Flatten, Copy from an offset, and Append to a copy of the chunk.
FlattenStep ==
  /\ Step("FLATTEN")
  /\ chunk' = Flatten(chunk)
  /\ UNCHANGED <<rows, error>>

CopyStep ==
  /\ Step("COPY")
  /\ chunk' = CopyChunk(chunk, Head(todo).offset)
  /\ rows' = SubSeq(rows, Head(todo).offset + 1, Len(rows))
  /\ UNCHANGED error

AppendStep ==
  /\ Step("APPEND")
  /\ chunk' = AppendChunk(CopyChunk(chunk, 0), chunk)
  /\ rows' = rows \o rows
  /\ error' = (2 * Len(rows) > STANDARD_VECTOR_SIZE)

\* An append to a table and a scan of it; a chunk file written and read; a row
\* layout filled and read as a hash table does.
StoreStep ==
  /\ Step("STORE")
  /\ chunk' = Scan(Store(chunk))
  /\ UNCHANGED <<rows, error>>

SerializeStep ==
  /\ Step("SERIALIZE")
  /\ chunk' = Deserialize(Serialize(chunk))
  /\ UNCHANGED <<rows, error>>

ScatterStep ==
  /\ Step("SCATTER")
  /\ chunk' = [chunk EXCEPT !.data = [i \in DOMAIN chunk.data |->
       LET v == chunk.data[i]
           empty == [k \in 1..v.count |-> NullValue(v.type)]
       IN  GatherSet(ScatterSet(v, empty), v.type, v)]]
  /\ UNCHANGED <<rows, error>>

\* Nothing is left to do.
Done ==
  /\ todo = <<>> \/ Ended
  /\ UNCHANGED vars

Next ==
  \/ Filter
  \/ Projection
  \/ FlattenStep
  \/ CopyStep
  \/ AppendStep
  \/ StoreStep
  \/ SerializeStep
  \/ ScatterStep
  \/ Done

Spec == Init /\ [][Next]_vars

-----------------------------------------------------------------------------
(* Properties.                                                              *)

\* The rows a chunk holds, through its selection vector.
Rows(c) ==
  [k \in 1..Size(c) |-> [i \in DOMAIN c.data |-> GetValue(c.data[i], k - 1)]]

\* What Sum, Min, Max and the tests for booleans give: they fold the selected
\* values of v that are not NULL, and give NULL only if there is none.
FoldsRight(v) ==
  LET values == SelectSeq(Values(v), LAMBDA x : ~x.is_null)
      raws == {values[k].raw : k \in DOMAIN values}
      fold(result, expected) ==
        IF values = <<>> THEN result.is_null ELSE result = Value(v.type, expected)
  IN  CASE TypeIsNumeric(v.type) ->
             /\ fold(Sum(v), Wrap(v.type, FoldLeft(LAMBDA acc, x : acc + x.raw, 0, values)))
             /\ fold(MinOf(v), Min(raws))
             /\ fold(MaxOf(v), Max(raws))
        [] v.type = "BOOLEAN" ->
             /\ AnyTrue(v) <=> 1 \in raws
             /\ AllTrue(v) <=> v.count > 0 /\ Len(values) = v.count /\ 0 \notin raws
        [] OTHER -> MaximumStringLength(v) = Max({0} \cup {Len(s) : s \in raws})

\* Filters, projections and sinks compute for every row what their expressions
\* mean for that row alone, and a fold over a column is one over those values:
\* NULLs, constants of one row, selection vectors set by an earlier filter and what
\* lies under a NULL make no difference, and an exception is thrown only if the
\* expression fails for some row still selected.
PipelineRight ==
  IF Raised(chunk) THEN error
    ELSE ~error /\ Rows(chunk) = rows /\ \A i \in DOMAIN chunk.data : FoldsRight(chunk.data[i])

\* What DataChunk::Verify and Vector::Verify assert: the vectors of a chunk share
\* its selection vector and its count, no position is out of the vector or
\* selected twice, and every string that is not NULL can be read and is UTF-8.
ChunkVerified ==
  ~Raised(chunk) =>
    \A i \in DOMAIN chunk.data :
       LET v == chunk.data[i]
       IN  /\ v.sel_vector = chunk.sel_vector
           /\ v.count = Size(chunk)
           /\ Exec(v) \subseteq Slots
           /\ Cardinality(Exec(v)) = v.count
           /\ v.type = "VARCHAR" => \A p \in Exec(v) \ v.nullmask :
                v.data[p] \notin {Dangling, NullPtr} /\ IsUTF8String(v.data[p])
=============================================================================
