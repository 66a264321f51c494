--------------------------- MODULE MCExpressions ----------------------------
EXTENDS Expressions

MCBits == [TINYINT |-> 3, SMALLINT |-> 4, INTEGER |-> 5, BIGINT |-> 7, POINTER |-> 7]

Ref(i) == [class |-> "REF", index |-> i, type |-> "REF"]
Const(type, raw) == [class |-> "CONSTANT", type |-> "CONSTANT", value |-> Value(type, raw)]
ConstNull(type) == [class |-> "CONSTANT", type |-> "CONSTANT", value |-> Null(type)]
Node(class, type, children) == [class |-> class, type |-> type, children |-> children]
Op(type, children) == Node("OPERATOR", type, children)
Fn(type, children) == Node("FUNCTION", type, children)
Cmp(type, l, r) == Node("COMPARISON", type, <<l, r>>)
ToType(child, source, target) ==
  [class |-> "CAST", type |-> "CAST", children |-> <<child>>, source_type |-> source, target_type |-> target]
I(x) == Const("INTEGER", x)
S(x) == Const("VARCHAR", x)

Filtered(expressions) == [op |-> "FILTER", expressions |-> expressions]
Projected(expressions) == [op |-> "PROJECTION", expressions |-> expressions]
Do(op) == [op |-> op]
CopyFrom(offset) == [op |-> "COPY", offset |-> offset]

\* All tables with n rows over these columns of stored values.
TablesOf(types, stored, n) ==
  {[i \in DOMAIN types |-> [type |-> types[i], stored |-> t[i]]] :
     t \in {<<a, b>> : a \in [1..n -> stored[1]], b \in [1..n -> stored[2]]}}

Numbers == UNION {TablesOf(<<"INTEGER", "INTEGER">>, <<{-16, -1, 5}, {-16, 0, 2}>>, n) : n \in 1..3}

\* The strings "", "a", "A1", "-1" and "e" with an accent, and NULL.
Acute == <<195, 169>>
Strings ==
  UNION {TablesOf(<<"VARCHAR", "INTEGER">>, <<{StrNil, <<>>, <<97>>, Acute \o <<49>>}, {-16, 1, 2}>>, n) : n \in 1..2}
Numerals ==
  UNION {TablesOf(<<"VARCHAR", "VARCHAR">>, <<{StrNil, <<45, 49>>, <<49, 50>>}, {StrNil, <<116>>, <<49, 57>>}>>, n) :
           n \in 1..2}
Reals ==
  UNION {TablesOf(<<"DOUBLE", "POINTER">>, <<{1, 6, 34}, {0, 2, 9}>>, n) : n \in 1..2}

a == Ref(1)
b == Ref(2)

NumberSteps == {
  \* Constants in every place, and a projection of what a projection gave.
  <<Projected(<<Op("ADD", <<a, b>>), Op("MULTIPLY", <<a, a>>), I(3), ConstNull("INTEGER")>>),
    Projected(<<Op("ADD", <<Ref(1), Ref(3)>>), Op("SUBTRACT", <<Ref(4), Ref(2)>>)>>)>>,
  \* A filter of a filtered chunk; the second conjunct is a constant.
  <<Filtered(<<Cmp("LESSTHAN", I(-16), a), Op("IS_NOT_NULL", <<b>>)>>),
    Filtered(<<Cmp("NOTEQUAL", a, b), Const("BOOLEAN", 1)>>),
    Projected(<<I(1), Op("SUBTRACT", <<I(2), a>>), Op("DIVIDE", <<a, b>>), Op("MOD", <<I(5), b>>)>>),
    Do("FLATTEN"), Do("APPEND")>>,
  <<Filtered(<<Const("BOOLEAN", 1), Node("CONJUNCTION", "OR", <<Cmp("EQUAL", b, I(2)), Cmp("GREATERTHANOREQUALTO", a, b)>>)>>),
    CopyFrom(1), Projected(<<b, Fn("abs", <<a>>), Fn("round", <<a, I(0)>>)>>), Do("STORE")>>,
  \* Membership, and a choice between constants and columns.
  <<Projected(<<Op("NOT_IN", <<a, b, I(5)>>), Op("IN", <<I(2), b, ConstNull("INTEGER")>>),
                Node("CASE", "CASE", <<Cmp("LESSTHANOREQUALTO", a, b), I(7), b>>)>>),
    Filtered(<<Op("NOT", <<Node("CONJUNCTION", "AND", <<Ref(1), Ref(2)>>)>>)>>),
    Do("SCATTER"), Do("STORE")>>,
  <<Filtered(<<Cmp("GREATERTHAN", b, I(0))>>),
    Projected(<<ToType(a, "INTEGER", "TINYINT"), ToType(b, "INTEGER", "VARCHAR"), ToType(a, "INTEGER", "BOOLEAN")>>),
    Do("STORE"), Do("SERIALIZE")>>
}

StringSteps == {
  <<Filtered(<<Op("IS_NOT_NULL", <<b>>)>>),
    Projected(<<Fn("concat", <<a, a>>), Fn("length", <<a>>), Fn("substring", <<a, b, I(1)>>), Fn("upper", <<a>>)>>),
    Projected(<<Ref(3), Node("CASE", "CASE", <<Cmp("EQUAL", Ref(1), Ref(3)), Ref(1), ConstNull("VARCHAR")>>)>>),
    Do("SCATTER"), Do("FLATTEN"), Do("STORE"), Do("SERIALIZE"), CopyFrom(1)>>,
  <<Filtered(<<Node("COMPARISON", "LIKE", <<Fn("concat", <<a, S(<<98, 97>>)>>), S(<<Percent, 97>>)>>)>>),
    Projected(<<Fn("lower", <<a>>), Node("COMPARISON", "NOTLIKE", <<a, S(<<97, Percent>>)>>),
                Cmp("LESSTHAN", a, S(<<97>>)), S(Acute)>>), Do("STORE"), Do("APPEND")>>
}

NumeralSteps == {
  <<Projected(<<ToType(a, "VARCHAR", "TINYINT"), b>>)>>,
  <<Projected(<<ToType(a, "VARCHAR", "BIGINT"), ToType(b, "VARCHAR", "BOOLEAN")>>), Do("STORE")>>,
  <<Filtered(<<Cmp("NOTEQUAL", b, S(<<116>>))>>), Projected(<<ToType(b, "VARCHAR", "INTEGER"), a>>)>>
}

RealSteps == {
  <<Filtered(<<Cmp("GREATERTHAN", a, Const("DOUBLE", 5))>>),
    Projected(<<ToType(a, "DOUBLE", "TINYINT"), ToType(b, "POINTER", "TINYINT"), ToType(b, "POINTER", "DOUBLE")>>)>>,
  <<Projected(<<ToType(a, "DOUBLE", "INTEGER"), Fn("round", <<a, I(0)>>), ToType(a, "DOUBLE", "FLOAT")>>),
    Projected(<<ToType(Ref(1), "INTEGER", "POINTER"), ToType(Ref(1), "INTEGER", "BIGINT")>>), Do("STORE")>>
}

Load(tables, steps) == {[table |-> t, steps |-> s] : t \in tables, s \in steps}

MCWorkloads ==
  Load(Numbers, NumberSteps) \cup Load(Strings, StringSteps)
    \cup Load(Numerals, NumeralSteps) \cup Load(Reals, RealSteps)
=============================================================================
