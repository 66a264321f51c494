----------------------------- MODULE VectorOps ------------------------------
(***************************************************************************)
(* Vectors and the loops of VectorOperations.  A vector is a record of its *)
(* type, count, data, selection vector and null mask (the set of positions *)
(* whose bit is set).  The data under a NULL is whatever was there: the    *)
(* sentinel of the storage, a null pointer, or what a fresh allocation     *)
(* holds (Fresh).  An operation that throws returns Raise(what); one that  *)
(* divides the lowest integer by -1, or reads a string through a pointer   *)
(* that points to none, does not return at all: Raise("crash").            *)
(***************************************************************************)
EXTENDS Types

CONSTANTS STANDARD_VECTOR_SIZE, Fresh

Slots == 0..(STANDARD_VECTOR_SIZE - 1)
NoSel == <<-1>>
Dangling == <<-1>>

Raise(what) == [raised |-> what]
Raised(v) == "raised" \in DOMAIN v

Initialize(type) ==
  [type |-> type, count |-> 0, sel_vector |-> NoSel, nullmask |-> {},
   data |-> [i \in Slots |-> CASE type = "VARCHAR" -> Dangling
                               [] type = "BOOLEAN" -> Fresh % 2
                               [] OTHER -> Fresh]]

IsConstant(v) == v.count = 1 /\ v.sel_vector = NoSel

\* The position of the k-th element, the positions an Exec goes over, and the
\* position at which BinaryExec and TernaryExec read an operand.
At(v, k) == IF v.sel_vector = NoSel THEN k ELSE v.sel_vector[k + 1]
Exec(v) == {At(v, k) : k \in 0..(v.count - 1)}
Index(v, i) == IF IsConstant(v) THEN 0 ELSE i
Shape(a, b) == IF IsConstant(a) THEN b ELSE a

\* A vector of this type that has the count and the selection vector of shape.
Result(type, shape, S, Raw(_), nullmask) ==
  [Initialize(type) EXCEPT
     !.count = shape.count, !.sel_vector = shape.sel_vector, !.nullmask = nullmask,
     !.data = [i \in Slots |-> IF i \in S THEN Raw(i) ELSE @[i]]]

-----------------------------------------------------------------------------
(* Values of a vector.                                                      *)

Null(type) == [type |-> type, is_null |-> TRUE]
Value(type, raw) == [type |-> type, is_null |-> FALSE, raw |-> raw]

GetValue(v, k) ==
  LET i == At(v, k) IN IF i \in v.nullmask THEN Null(v.type) ELSE Value(v.type, v.data[i])

Values(v) == [k \in 1..v.count |-> GetValue(v, k - 1)]

\* Vector::Reference(Value): a vector of one element.
ReferenceValue(value) ==
  [Initialize(value.type) EXCEPT
     !.count = 1, !.nullmask = IF value.is_null THEN {0} ELSE {},
     !.data[0] = IF ~value.is_null THEN value.raw
                 ELSE IF value.type = "VARCHAR" THEN <<>> ELSE @]

\* VectorOperations::Set over the positions of a vector of this shape.
Set(shape, value) ==
  IF value.is_null
  THEN Result(value.type, shape, {}, LAMBDA i : 0, Slots)
  ELSE Result(value.type, shape, Exec(shape), LAMBDA i : value.raw, {})

-----------------------------------------------------------------------------
(* Loops over two operands.                                                 *)

ConstantNull(left, right) ==
  IF IsConstant(left) THEN 0 \in left.nullmask ELSE IsConstant(right) /\ 0 \in right.nullmask

OperandMask(left, right) ==
  CASE ConstantNull(left, right) -> Slots
    [] IsConstant(left) -> right.nullmask
    [] IsConstant(right) -> left.nullmask
    [] OTHER -> left.nullmask \cup right.nullmask

\* templated_binary_loop.  Strings are compared only where neither is NULL.
BinaryLoop(left, right, type, Op(_, _)) ==
  LET shape == Shape(left, right)
      nullmask == OperandMask(left, right)
      todo == IF ConstantNull(left, right) THEN {}
              ELSE IF left.type = "VARCHAR" THEN Exec(shape) \ nullmask
              ELSE Exec(shape)
      L(i) == left.data[Index(left, i)]
      R(i) == right.data[Index(right, i)]
  IN  IF left.type = "VARCHAR" /\ \E i \in todo : {L(i), R(i)} \cap {Dangling, NullPtr} # {}
      THEN Raise("crash")
      ELSE Result(type, shape, todo, LAMBDA i : Op(L(i), R(i)), nullmask)

\* templated_divmod_loop: a divisor 0 makes the result NULL.
DivModLoop(left, right, Op(_, _)) ==
  LET shape == Shape(left, right)
      L(i) == left.data[Index(left, i)]
      R(i) == right.data[Index(right, i)]
      zero == {i \in Exec(shape) : R(i) = 0}
      all == \/ ConstantNull(left, right)
             \/ ~IsConstant(left) /\ IsConstant(right) /\ right.data[0] = 0
      todo == IF all THEN {} ELSE Exec(shape) \ zero
  IN  IF /\ left.type \in {"INTEGER", "BIGINT"}
         /\ \E i \in todo : L(i) = Lowest(left.type) /\ R(i) = -1
      THEN Raise("crash")
      ELSE Result(left.type, shape, todo, LAMBDA i : Wrap(left.type, Op(L(i), R(i))),
                  IF all THEN Slots ELSE OperandMask(left, right) \cup zero)

Compare(comparison, left, right) ==
  BinaryLoop(left, right, "BOOLEAN",
             LAMBDA x, y : IF Compares(comparison, left.type, x, y) THEN 1 ELSE 0)

Add(left, right) == BinaryLoop(left, right, left.type, LAMBDA x, y : Wrap(left.type, x + y))
Subtract(left, right) == BinaryLoop(left, right, left.type, LAMBDA x, y : Wrap(left.type, x - y))
Multiply(left, right) == BinaryLoop(left, right, left.type, LAMBDA x, y : Wrap(left.type, x * y))
Divide(left, right) == DivModLoop(left, right, CDiv)
Modulo(left, right) == DivModLoop(left, right, CMod)

\* Like::Operation: what is left of the string and of the pattern.
Underscore == 95
Percent == 37

RECURSIVE Like(_, _)
Like(t, p) ==
  IF p = <<>> \/ t = <<>> THEN p = <<Percent>> \/ (t = <<>> /\ p = <<>>)
  ELSE IF p[1] = Underscore THEN Like(Tail(t), Tail(p))
  ELSE IF p[1] = Percent
  THEN LET rest == SelectInSeq(p, LAMBDA b : b # Percent)
           tail == SubSeq(p, rest, Len(p))
       IN  rest = 0 \/ \E n \in 0..(Len(t) - 1) : Like(SubSeq(t, n + 1, Len(t)), tail)
  ELSE p[1] = t[1] /\ Like(Tail(t), Tail(p))

LikeLoop(left, right, negated) ==
  BinaryLoop(left, right, "BOOLEAN", LAMBDA x, y : IF Like(x, y) # negated THEN 1 ELSE 0)

\* Mutant of AndMask: NULL AND FALSE is NULL.
AndMaskEither(l, r, left_null, right_null) == left_null \/ right_null

\* templated_boolean_nullmask with And, AndMask or Or, OrMask.
AndMask(l, r, left_null, right_null) == (left_null /\ (right_null \/ r)) \/ (right_null /\ l)
OrMask(l, r, left_null, right_null) == (left_null /\ (right_null \/ ~r)) \/ (right_null /\ ~l)

BooleanLoop(left, right, Op(_, _), NullOp(_, _, _, _)) ==
  LET shape == Shape(left, right)
      L(i) == left.data[Index(left, i)] = 1
      R(i) == right.data[Index(right, i)] = 1
  IN  Result("BOOLEAN", shape, Exec(shape), LAMBDA i : IF Op(L(i), R(i)) THEN 1 ELSE 0,
             {i \in Exec(shape) : NullOp(L(i), R(i), Index(left, i) \in left.nullmask,
                                         Index(right, i) \in right.nullmask)})

And(left, right) == BooleanLoop(left, right, LAMBDA l, r : l /\ r, AndMask)
Or(left, right) == BooleanLoop(left, right, LAMBDA l, r : l \/ r, OrMask)

-----------------------------------------------------------------------------
(* Loops over one operand and the three of CASE.                            *)

\* templated_unary_loop.
UnaryLoop(input, type, Op(_)) ==
  Result(type, input, Exec(input), LAMBDA i : Op(input.data[i]), input.nullmask)

Not(left) == UnaryLoop(left, "BOOLEAN", LAMBDA x : 1 - x)
Abs(input) == UnaryLoop(input, input.type, LAMBDA x : AbsRaw(input.type, x))

IsNull(input, inverse) ==
  Result("BOOLEAN", input, Exec(input),
         LAMBDA i : IF (i \in input.nullmask) # inverse THEN 1 ELSE 0, {})

Case(check, res_true, res_false) ==
  LET shape == Shape(check, Shape(res_true, res_false))
      c(i) == Index(check, i)
      branch(i) == check.data[c(i)] = 1 /\ c(i) \notin check.nullmask
      taken(i) == IF branch(i) THEN res_true ELSE res_false
      null(i) == Index(taken(i), i) \in taken(i).nullmask
  IN  Result(res_true.type, shape, Exec(shape),
             LAMBDA i : IF res_true.type = "VARCHAR" /\ null(i) THEN NullPtr
                        ELSE taken(i).data[Index(taken(i), i)],
             {i \in Exec(shape) : null(i)})

-----------------------------------------------------------------------------
(* Casts.  What the code leaves to the compiler (a FLOAT that does not fit) *)
(* is Raise("undefined").  Strings of numbers with a fraction are left out. *)

Space == 32
Plus == 43
Minus == 45
Digit(b) == b \in 48..57

RECURSIVE Digits(_)
Digits(n) == IF n < 10 THEN <<48 + n>> ELSE Digits(n \div 10) \o <<48 + (n % 10)>>
NumberString(x) == IF x < 0 THEN <<Minus>> \o Digits(-x) ELSE Digits(x)

True == <<116, 114, 117, 101>>
False == <<102, 97, 108, 115, 101>>

\* What stoll makes of a string: blanks, a sign, digits; the rest is not looked at.
Prefix(s, stop) == IF stop = 0 THEN s ELSE SubSeq(s, 1, stop - 1)
Number(sign, digits) ==
  [ok |-> digits # <<>>, value |-> sign * FoldLeft(LAMBDA acc, b : 10 * acc + b - 48, 0, digits)]
Unsigned(sign, s) == Number(sign, Prefix(s, SelectInSeq(s, LAMBDA b : ~Digit(b))))

RECURSIVE Stoll(_)
Stoll(s) ==
  CASE s # <<>> /\ s[1] = Space -> Stoll(Tail(s))
    [] s # <<>> /\ s[1] = Minus -> Unsigned(-1, Tail(s))
    [] s # <<>> /\ s[1] = Plus -> Unsigned(1, Tail(s))
    [] OTHER -> Unsigned(1, s)

\* Cast::Operation: why it does not return for this input ("" when it does).
ParseFails(target, parsed) ==
  IF ~parsed.ok \/ parsed.value \notin Lowest("BIGINT")..Highest("BIGINT") THEN "conversion"
  ELSE IF target = "BIGINT" \/ InBounds(target, parsed.value) THEN "" ELSE "range"

CastFails(source, target, x) ==
  CASE source = "VARCHAR" /\ target = "BOOLEAN" ->
         IF x # <<>> /\ x[1] \in {116, 84, 102, 70} THEN "" ELSE "conversion"
    [] source = "VARCHAR" -> ParseFails(target, Stoll(x))
    [] target \in {"BOOLEAN", "VARCHAR", "FLOAT", "DOUBLE"} -> ""
    [] target = "POINTER" -> IF x < 0 THEN "range" ELSE ""
    [] source = "POINTER" ->
         IF target \in {"TINYINT", "SMALLINT"} /\ x > MaximumValue(target) THEN "range" ELSE ""
    [] source = "FLOAT" ->
         IF Truncated(x) \in Lowest(target)..Highest(target) THEN "" ELSE "undefined"
    [] source = "DOUBLE" ->
         IF \/ x < FromInteger(MinimumValue(target))
            \/ x > FromInteger(MaximumValue(target)) THEN "range" ELSE ""
    [] Rank(target) < Rank(source) -> IF InBounds(target, x) THEN "" ELSE "range"
    [] OTHER -> ""

CastRaw(source, target, x) ==
  LET real(t) == t \in {"FLOAT", "DOUBLE"}
  IN  CASE source = target \/ (real(source) /\ real(target)) -> x
        [] source = "VARCHAR" /\ target = "BOOLEAN" -> IF x[1] \in {116, 84} THEN 1 ELSE 0
        [] source = "VARCHAR" -> Stoll(x).value
        [] target = "VARCHAR" /\ source = "BOOLEAN" -> IF x = 1 THEN True ELSE False
        [] target = "VARCHAR" -> NumberString(x)
        [] target = "BOOLEAN" -> IF x = 0 THEN 0 ELSE 1
        [] real(source) -> Truncated(x)
        [] real(target) -> FromInteger(x)
        [] OTHER -> Wrap(target, x)

\* VectorOperations::Cast: NULLs are not converted, and of a SQLNULL nothing is.
CastLoop(input, source, target, todo, failures) ==
  IF failures # {} THEN Raise(CHOOSE what \in failures : TRUE)
  ELSE [Result(target, input, todo, LAMBDA i : CastRaw(source, target, input.data[i]),
               input.nullmask)
          EXCEPT !.data = [i \in Slots |-> IF target = "VARCHAR" /\ i \in Exec(input) \ todo
                                           THEN NullPtr ELSE @[i]]]

CastSome(input, source, target, todo) ==
  CastLoop(input, source, target, todo,
           {CastFails(source, target, input.data[i]) : i \in todo} \ {""})

Cast(input, source_type, target_type) ==
  CastSome(input, GetInternalType(source_type), GetInternalType(target_type),
           IF source_type = "SQLNULL" THEN {} ELSE Exec(input) \ input.nullmask)

-----------------------------------------------------------------------------
(* Copies, appends and the storage format without a null mask.              *)

\* Vector::Copy from an offset on; VectorOperations::Copy for a type of constant
\* size.  The target has no selection vector.
CopyTo(v, offset, target) ==
  LET k(i) == At(v, i + offset)
      S == 0..(v.count - offset - 1)
  IN  [target EXCEPT
         !.count = v.count - offset,
         !.nullmask = {i \in S : k(i) \in v.nullmask},
         !.data = [i \in Slots |-> IF i \notin S THEN @[i]
                                   ELSE IF v.type = "VARCHAR" /\ k(i) \in v.nullmask THEN NullPtr
                                   ELSE v.data[k(i)]]]

Copy(v, offset) == CopyTo(v, offset, Initialize(v.type))

FlattenVector(v) == IF v.sel_vector = NoSel THEN v ELSE Copy(v, 0)

AppendVector(v, other) ==
  LET from == Copy(other, 0)
  IN  IF v.sel_vector # NoSel THEN Raise("not implemented")
      ELSE IF v.count + other.count > STANDARD_VECTOR_SIZE THEN Raise("out of range")
      ELSE [v EXCEPT !.count = @ + other.count,
                     !.nullmask = {i \in @ : i < v.count \/ i >= v.count + other.count}
                                    \cup {v.count + k : k \in from.nullmask},
                     !.data = [i \in Slots |-> IF i \in v.count..(v.count + other.count - 1)
                                               THEN from.data[i - v.count] ELSE @[i]]]

CopyToStorage(v) ==
  [k \in 1..v.count |-> LET i == At(v, k - 1)
                        IN  IF i \in v.nullmask THEN NullValue(v.type) ELSE v.data[i]]

\* Appends what is stored at these places.
AppendFromStorage(stored, v) ==
  IF v.count + Len(stored) > STANDARD_VECTOR_SIZE THEN Raise("out of range")
  ELSE LET S == v.count..(v.count + Len(stored) - 1)
           at(i) == stored[i - v.count + 1]
       IN  [v EXCEPT !.count = @ + Len(stored),
                     !.nullmask = @ \cup {i \in S : IsNullValue(v.type, at(i))},
                     !.data = [i \in Slots |-> IF i \in S THEN at(i) ELSE @[i]]]

\* Scatter::Set into rows of memory, and Gather::Set from them.
ScatterSet(v, memory) ==
  [k \in DOMAIN memory |->
     LET i == IF IsConstant(v) THEN 0 ELSE At(v, k - 1)
     IN  IF i \in v.nullmask THEN memory[k] ELSE v.data[i]]

GatherSet(memory, type, shape) ==
  LET place(i) == CHOOSE k \in DOMAIN memory : At(shape, k - 1) = i
      null == {i \in Exec(shape) : IsNullValue(type, memory[place(i)])}
  IN  Result(type, shape, Exec(shape) \ null, LAMBDA i : memory[place(i)], null)

-----------------------------------------------------------------------------
(* Folds.                                                                   *)

\* templated_unary_fold, in the order of the elements.
Fold(v, Op(_, _), start) ==
  FoldLeft(LAMBDA acc, k : IF At(v, k) \in v.nullmask THEN acc ELSE Op(v.data[At(v, k)], acc),
           start, [k \in 1..v.count |-> k - 1])

AnyTrue(v) == \E i \in Exec(v) \ v.nullmask : v.data[i] = 1
AllTrue(v) == v.count > 0 /\ \A i \in Exec(v) : i \notin v.nullmask /\ v.data[i] = 1

Sum(v) ==
  IF v.count = 0 \/ ~TypeIsNumeric(v.type) \/ AllTrue(IsNull(v, FALSE)) THEN Null(v.type)
  ELSE Value(v.type, Fold(v, LAMBDA x, acc : Wrap(v.type, acc + x), 0))

Larger(x, y) == IF x < y THEN y ELSE x
Smaller(x, y) == IF x < y THEN x ELSE y

MaxOf(v) ==
  LET start == Lowest(v.type)
      result == Fold(v, Larger, start)
  IN  IF v.count = 0 \/ ~TypeIsNumeric(v.type) \/ result = start THEN Null(v.type)
      ELSE Value(v.type, result)

MinOf(v) ==
  LET start == Highest(v.type)
      result == Fold(v, Smaller, start)
  IN  IF v.count = 0 \/ ~TypeIsNumeric(v.type) \/ result = start THEN Null(v.type)
      ELSE Value(v.type, result)

MaximumStringLength(v) == Fold(v, LAMBDA s, acc : Larger(Len(s), acc), 0)
=============================================================================
