------------------------------- MODULE Types --------------------------------
(***************************************************************************)
(* Types and single values.  An integral type has the width Bits gives it, *)
(* two's complement but for POINTER.  FLOAT and DOUBLE are counted in      *)
(* fourths: 1 stands for numeric_limits<double>::min(), which is between 0 *)
(* and every other positive number.  A VARCHAR is a sequence of bytes      *)
(* without the final zero.                                                 *)
(***************************************************************************)
EXTENDS Integers, Sequences, SequencesExt, FiniteSetsExt

CONSTANT Bits

ASSUME BitsAssumption ==
  /\ DOMAIN Bits = {"TINYINT", "SMALLINT", "INTEGER", "BIGINT", "POINTER"}
  /\ \A t \in DOMAIN Bits : Bits[t] \in 2..16

\* The order of the enumeration TypeId.
TypeIds == <<"BOOLEAN", "TINYINT", "SMALLINT", "INTEGER", "BIGINT", "POINTER",
             "FLOAT", "DOUBLE", "VARCHAR">>

Rank(type) == CHOOSE i \in DOMAIN TypeIds : TypeIds[i] = type

TypeIsInteger(type) == type \in {"TINYINT", "SMALLINT", "INTEGER", "BIGINT"}
TypeIsIntegral(type) == type \in DOMAIN Bits
TypeIsNumeric(type) == TypeIsIntegral(type) \/ type \in {"FLOAT", "DOUBLE"}

GetInternalType(type) ==
  CASE type \in {"SQLNULL", "DATE"} -> "INTEGER"
    [] type = "TIMESTAMP" -> "BIGINT"
    [] type = "DECIMAL" -> "DOUBLE"
    [] type = "CHAR" -> "VARCHAR"
    [] OTHER -> type

-----------------------------------------------------------------------------
(* Numbers.                                                                 *)

\* Division and remainder of C.
CDiv(a, b) ==
  LET q == (IF a < 0 THEN -a ELSE a) \div (IF b < 0 THEN -b ELSE b)
  IN  IF (a < 0) = (b < 0) THEN q ELSE -q
CMod(a, b) == a - b * CDiv(a, b)

One == 4
FromInteger(x) == One * x
Truncated(x) == CDiv(x, One)

\* numeric_limits<T>::min() and max().
Lowest(type) ==
  CASE type = "POINTER" -> 0
    [] type = "BOOLEAN" -> -(2^(Bits["TINYINT"] - 1))
    [] TypeIsInteger(type) -> -(2^(Bits[type] - 1))
    [] OTHER -> 1
Highest(type) ==
  CASE type = "POINTER" -> 2^Bits[type] - 1
    [] type = "BOOLEAN" -> 2^(Bits["TINYINT"] - 1) - 1
    [] TypeIsInteger(type) -> 2^(Bits[type] - 1) - 1
    [] OTHER -> FromInteger(2^Bits["BIGINT"])

\* The range of a type, without the value that stands for NULL.
MinimumValue(type) == IF type = "POINTER" THEN 0 ELSE Lowest(type) + 1
MaximumValue(type) == IF type = "POINTER" THEN Highest("BIGINT") ELSE Highest(type)

InBounds(type, x) == MinimumValue(type) <= x /\ x <= MaximumValue(type)

\* What is left of a result in the width of its type.
Wrap(type, x) ==
  IF TypeIsIntegral(type)
  THEN Lowest(type) + ((x - Lowest(type)) % 2^Bits[type])
  ELSE x

-----------------------------------------------------------------------------
(* Strings.                                                                 *)

\* The byte 128 and, as bit patterns, the bytes that go on with a character.
IsContinuation(b) == b \in 128..191
StrNil == <<128>>
NullPtr == <<0>>

StrLess(s, t) ==
  \E n \in 0..Len(s) :
     /\ n < Len(t)
     /\ SubSeq(s, 1, n) = SubSeq(t, 1, n)
     /\ n = Len(s) \/ s[n + 1] < t[n + 1]

NullValue(type) == IF type = "VARCHAR" THEN StrNil ELSE Lowest(type)
IsNullValue(type, raw) == raw = NullValue(type)

\* The bytes after the first one that a character with this first byte has, as
\* IsUTF8String goes through them.
Follow(b) == IF b < 128 THEN 0 ELSE IF b \in 192..223 THEN 1 ELSE IF b \in 224..239 THEN 2 ELSE 3

RECURSIVE IsUTF8String(_)
IsUTF8String(s) ==
  \/ s \in {<<>>, StrNil}
  \/ LET n == Follow(s[1])
     IN  /\ s[1] < 248
         /\ Len(s) > n
         /\ \A i \in 2..(n + 1) : IsContinuation(s[i])
         /\ IsUTF8String(SubSeq(s, n + 2, Len(s)))

-----------------------------------------------------------------------------
(* Comparisons and arithmetic on the raw data.                              *)

Less(type, x, y) == IF type = "VARCHAR" THEN StrLess(x, y) ELSE x < y

Compares(comparison, type, x, y) ==
  CASE comparison = "EQUAL" -> x = y
    [] comparison = "NOTEQUAL" -> x # y
    [] comparison = "LESSTHAN" -> Less(type, x, y)
    [] comparison = "LESSTHANOREQUALTO" -> ~Less(type, y, x)
    [] comparison = "GREATERTHAN" -> Less(type, y, x)
    [] comparison = "GREATERTHANOREQUALTO" -> ~Less(type, x, y)

AbsRaw(type, x) == Wrap(type, IF x < 0 THEN -x ELSE x)
=============================================================================
