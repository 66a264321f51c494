---------------------------- MODULE LogicalPlan ----------------------------
(***************************************************************************)
(* Expressions and logical operators, as the planner builds them and the   *)
(* optimizer rewrites them, and what a plan computes.                      *)
(*                                                                         *)
(* A value is <<>> (NULL) or <<n>>; a boolean is <<0>> or <<1>>.  A column *)
(* is named by a binding <<table index, column index>>.  A row is a tuple  *)
(* of values: a binding is found in it by the position the column binding  *)
(* resolver computes from the tables bound below the operator, so an       *)
(* operator that loses or moves a column is seen to do so.                 *)
(***************************************************************************)
EXTENDS Integers, Sequences, FiniteSets, SequencesExt

CONSTANT Tables                 \* the stored tables: name -> sequence of rows

NULL == <<>>

Bool(b) == IF b THEN <<1>> ELSE <<0>>

----------------------------------------------------------------------------
(* Expressions.                                                            *)

Expr(op, args) == [op |-> op, args |-> args, val |-> <<>>, sub |-> <<>>, cmp |-> ""]

Const(v) == [Expr("CONSTANT", <<>>) EXCEPT !.val = v]

Col(binding) == [Expr("COLUMN", <<>>) EXCEPT !.val = binding]

\* A column of the query around the subquery this expression is in (depth 1).
Outer(binding) == [Expr("OUTER", <<>>) EXCEPT !.val = binding]

Comparisons == {"=", "<>", "<", ">", "<=", ">="}

Arithmetic == {"+", "-", "*", "/"}

Subqueries == {"EXISTS", "SCALAR", "ANY"}

AggregateOps == {"COUNT", "COUNT_STAR", "SUM", "FIRST"}

FlipComparisionExpression(op) ==
    CASE op = "<" -> ">" [] op = ">" -> "<" [] op = "<=" -> ">=" [] op = ">=" -> "<="
      [] OTHER -> op

NegateComparisionExpression(op) ==
    CASE op = "=" -> "<>" [] op = "<>" -> "=" [] op = "<" -> ">=" [] op = ">=" -> "<"
      [] op = ">" -> "<=" [] op = "<=" -> ">"

RECURSIVE IsScalar(_)
IsScalar(e) == /\ e.op \notin {"COLUMN", "OUTER"} \cup Subqueries \cup AggregateOps
               /\ \A i \in DOMAIN e.args : IsScalar(e.args[i])

RECURSIVE ColumnsIn(_)
ColumnsIn(e) ==
    (IF e.op = "COLUMN" THEN {e.val} ELSE {}) \cup UNION {ColumnsIn(e.args[i]) : i \in DOMAIN e.args}

\* The table indexes an expression refers to.
ExpressionBindings(e) == {b[1] : b \in ColumnsIn(e)}

RECURSIVE Conjoined(_, _)
Conjoined(op, es) ==
    IF Len(es) = 1 THEN es[1] ELSE Expr(op, <<Conjoined(op, Front(es)), Last(es)>>)

RECURSIVE SplitFrom(_, _)
\* The right operand of a conjunction takes its place, the left one goes to the end.
SplitFrom(es, i) ==
    IF i > Len(es) THEN es
    ELSE IF es[i].op = "AND"
         THEN SplitFrom(Append([es EXCEPT ![i] = es[i].args[2]], es[i].args[1]), i)
         ELSE SplitFrom(es, i + 1)

SplitPredicates(es) == SplitFrom(es, 1)

Quotient(a, b) ==
    LET Abs(n) == IF n < 0 THEN -n ELSE n
        q == Abs(a) \div Abs(b)
    IN IF (a < 0) # (b < 0) THEN -q ELSE q

----------------------------------------------------------------------------
(* Logical operators.  conds are join conditions; tables the tables a scan *)
(* (or a pruned branch, or the child of a subquery node when it was made)  *)
(* binds, with their column counts; count the column_count of a subquery   *)
(* or set operation; index2 the aggregate_index of an aggregate.           *)

Node(op, children) ==
    [op |-> op, children |-> children, exprs |-> <<>>, groups |-> <<>>, conds |-> <<>>,
     join |-> "", index |-> 0, index2 |-> 0, count |-> 0, tables |-> <<>>, table |-> ""]

Get(table, index, columns) ==
    [Node("GET", <<>>) EXCEPT !.index = index, !.tables = <<<<index, columns>>>>, !.table = table]

FilterNode(exprs, child) == [Node("FILTER", <<child>>) EXCEPT !.exprs = exprs]

Projection(index, exprs, child) ==
    [Node("PROJECTION", <<child>>) EXCEPT !.index = index, !.exprs = exprs]

Cross(left, right) == Node("CROSS_PRODUCT", <<left, right>>)

Condition(op, left, right, nulls) == [cmp |-> op, left |-> left, right |-> right, nulls |-> nulls]

Join(type, conds, left, right) ==
    [Node("COMPARISON_JOIN", <<left, right>>) EXCEPT !.join = type, !.conds = conds]

JoinOps == {"COMPARISON_JOIN", "DELIM_JOIN", "ANY_JOIN", "JOINREF"}

SetOps == {"UNION", "EXCEPT", "INTERSECT"}

RECURSIVE BoundTables(_)
\* TableBindingResolver: the tables an operator's result is made of, in order.
BoundTables(p) ==
    CASE p.op \in {"GET", "CHUNK_GET", "DELIM_GET", "EMPTY_RESULT"} -> p.tables
      [] p.op = "PROJECTION" -> <<<<p.index, Len(p.exprs)>>>>
      [] p.op = "AGGREGATE" -> <<<<p.index, Len(p.groups)>>, <<p.index2, Len(p.exprs)>>>>
      [] p.op \in SetOps \cup {"SUBQUERY"} -> <<<<p.index, p.count>>>>
      [] p.op = "CROSS_PRODUCT" -> BoundTables(p.children[1]) \o BoundTables(p.children[2])
      [] p.op \in JoinOps ->
           BoundTables(p.children[1])
             \o (CASE p.join \in {"SEMI", "ANTI"} -> <<>>
                   [] p.join = "MARK" -> <<<<p.children[2].index, 1>>>>
                   [] OTHER -> BoundTables(p.children[2]))
      [] OTHER -> BoundTables(p.children[1])

TableReferences(p) == {BoundTables(p)[i][1] : i \in DOMAIN BoundTables(p)}

Columns(tables) == FoldLeft(LAMBDA n, t : n + t[2], 0, tables)

\* ColumnBindingResolver: the position of a binding in a row; 0: it is not bound.
ColumnIndex(tables, binding) ==
    LET at == SelectInSeq(tables, LAMBDA t : t[1] = binding[1])
    IN IF at = 0 \/ binding[2] >= tables[at][2] THEN 0
       ELSE Columns(SubSeq(tables, 1, at - 1)) + binding[2] + 1

SubqueryNode(child, index) ==
    LET tables == BoundTables(child)
    IN [Node("SUBQUERY", <<child>>) EXCEPT !.index = index, !.tables = tables,
                                           !.count = Columns(tables)]

EmptyResult(p) == [Node("EMPTY_RESULT", <<>>) EXCEPT !.tables = BoundTables(p)]

RECURSIVE EstimateCardinality(_)
EstimateCardinality(p) ==
    IF p.op = "GET" THEN Len(Tables[p.table])
    ELSE LET Larger(n, child) == LET m == EstimateCardinality(child)
                                 IN IF m > n THEN m ELSE n
         IN FoldLeft(Larger, 0, p.children)

----------------------------------------------------------------------------
(* What expressions and plans compute.                                     *)

Compare(op, l, r) ==
    IF l = NULL \/ r = NULL THEN NULL
    ELSE Bool(CASE op = "=" -> l[1] = r[1] [] op = "<>" -> l[1] # r[1]
                [] op = "<" -> l[1] < r[1] [] op = ">" -> l[1] > r[1]
                [] op = "<=" -> l[1] <= r[1] [] op = ">=" -> l[1] >= r[1])

\* The integers have the width of a TINYINT, the narrowest type; overflow wraps around.
Width == 8
Wrap(x) == ((x + 2^(Width - 1)) % 2^Width) - 2^(Width - 1)

Calculate(op, l, r) ==
    IF l = NULL \/ r = NULL \/ (op = "/" /\ r = <<0>>) THEN NULL
    ELSE <<Wrap(CASE op = "+" -> l[1] + r[1] [] op = "-" -> l[1] - r[1]
                  [] op = "*" -> l[1] * r[1] [] op = "/" -> Quotient(l[1], r[1]))>>

\* Three-valued AND and OR of a set of truth values.
All3(vs) == IF <<0>> \in vs THEN <<0>> ELSE IF NULL \in vs THEN NULL ELSE <<1>>
Some3(vs) == IF <<1>> \in vs THEN <<1>> ELSE IF NULL \in vs THEN NULL ELSE <<0>>

\* What an expression is evaluated in: the row of the operator and its tables, and, in a
\* subquery, the row of the operator the subquery is in; delim are the distinct rows that a
\* duplicate eliminated join hands to the scans on its right.
Scope(tables, row) == [tables |-> tables, row |-> row]

Top == [outer |-> Scope(<<>>, <<>>), delim |-> <<>>]

\* An operator applied to values.
Operate(op, a) ==
    CASE op \in Comparisons -> Compare(op, a[1], a[2])
      [] op \in Arithmetic -> Calculate(op, a[1], a[2])
      [] op = "AND" -> All3({a[1], a[2]})
      [] op = "OR" -> Some3({a[1], a[2]})
      [] op = "NOT" -> IF a[1] = NULL THEN NULL ELSE <<1 - a[1][1]>>
      [] op = "IS NULL" -> Bool(a[1] = NULL)
      [] op = "IS NOT NULL" -> Bool(a[1] # NULL)
      [] op = "CASE" -> IF a[1] = <<1>> THEN a[2] ELSE a[3]
      [] op = "IN" -> Some3({Compare("=", a[1], a[i]) : i \in 2..Len(a)})

\* A subquery with these rows, of the values of its operands.
Answer(e, a, rows) ==
    CASE e.op = "EXISTS" -> Bool(rows # <<>>)
      [] e.op = "ANY" -> Some3({Compare(e.cmp, a[1], row[1]) : row \in ToSet(rows)})
      [] e.op = "SCALAR" -> IF rows = <<>> THEN NULL ELSE rows[1][1]

RECURSIVE Eval(_, _, _), Rows(_, _)

Eval(e, scope, env) ==
    CASE e.op = "CONSTANT" -> e.val
      [] e.op = "COLUMN" -> scope.row[ColumnIndex(scope.tables, e.val)]
      [] e.op = "OUTER" -> env.outer.row[ColumnIndex(env.outer.tables, e.val)]
      [] e.op \in Subqueries -> Answer(e, [i \in DOMAIN e.args |-> Eval(e.args[i], scope, env)],
                                       Rows(e.sub[1], [outer |-> scope, delim |-> <<>>]))
      [] OTHER -> Operate(e.op, [i \in DOMAIN e.args |-> Eval(e.args[i], scope, env)])

EvalAll(es, scope, env) == [i \in DOMAIN es |-> Eval(es[i], scope, env)]

Passes(es, scope, env) == \A i \in DOMAIN es : Eval(es[i], scope, env) = <<1>>

\* The value of one aggregate over the rows of a group.
AggregateOf(op, values) ==
    LET known == SelectSeq(values, LAMBDA v : v # NULL)
    IN CASE op \in {"COUNT", "COUNT_STAR"} -> <<Len(known)>>
         [] op = "FIRST" -> IF values = <<>> THEN NULL ELSE values[1]
         [] op = "SUM" -> IF known = <<>> THEN NULL
                          ELSE <<FoldLeft(LAMBDA n, v : n + v[1], 0, known)>>

AggregateValue(agg, scopes, env) ==
    AggregateOf(agg.op, [i \in DOMAIN scopes |-> IF agg.args = <<>> THEN <<1>>
                                                ELSE Eval(agg.args[1], scopes[i], env)])

Distinct(rows) ==
    FoldLeft(LAMBDA seen, row : IF row \in ToSet(seen) THEN seen ELSE Append(seen, row), <<>>, rows)

\* Whether a condition makes two rows match; a condition marked so takes NULLs as equal.
Matches(cond, l, r, env) ==
    LET x == Eval(cond.left, l, env)
        y == Eval(cond.right, r, env)
    IN IF cond.nulls THEN Bool(x = y) ELSE Compare(cond.cmp, x, y)

\* The conditions of a join, for a row on its left and one on its right.
ConditionValues(p, l, r, env) ==
    IF p.op \in {"ANY_JOIN", "JOINREF"}
    THEN <<Eval(p.exprs[1], Scope(l.tables \o r.tables, l.row \o r.row), env)>>
    ELSE [i \in DOMAIN p.conds |-> Matches(p.conds[i], l, r, env)]

\* The rows a join makes of one row on its left and the rows on its right; truths has their
\* conditions.  A MARK join compares the left row with the rows of its group.
JoinRow(p, l, right, rows, truths) ==
    LET Where(S) == SelectSeq([k \in DOMAIN rows |-> k], LAMBDA k : ToSet(truths[k]) \subseteq S)
        found == Where({<<1>>})
        Pair(k) == l \o rows[k]
        unmatched == <<l \o [i \in 1..Columns(right) |-> NULL]>>
        equal == {i \in DOMAIN p.conds : p.conds[i].nulls}
        group == {k \in DOMAIN rows : \A i \in equal : truths[k][i] = <<1>>}
        Asked(k) == All3({truths[k][i] : i \in DOMAIN p.conds \ equal})
    IN CASE p.join = "INNER" -> [i \in DOMAIN found |-> Pair(found[i])]
         [] p.join = "LEFT" -> IF found = <<>> THEN unmatched ELSE [i \in DOMAIN found |-> Pair(found[i])]
         [] p.join = "SINGLE" -> IF found = <<>> THEN unmatched ELSE <<Pair(found[1])>>
         [] p.join = "SEMI" -> IF found = <<>> THEN <<>> ELSE <<l>>
         [] p.join = "ANTI" -> IF found = <<>> THEN <<l>> ELSE <<>>
         [] p.join = "MARK" -> <<Append(l, Some3({Asked(k) : k \in group}))>>

JoinRows(p, left, right, lrows, rows, env) ==
    FlattenSeq([k \in DOMAIN lrows |->
                  JoinRow(p, lrows[k], right, rows,
                          [j \in DOMAIN rows |-> ConditionValues(p, Scope(left, lrows[k]), Scope(right, rows[j]), env)])])

GroupRows(p, scopes, keys, env) ==
    LET groups == IF p.groups = <<>> THEN << <<>> >> ELSE Distinct(keys)
        In(g) == SelectSeq([k \in DOMAIN scopes |-> k], LAMBDA k : keys[k] = g)
        Members(ks) == [i \in DOMAIN ks |-> scopes[ks[i]]]
    IN [k \in DOMAIN groups |->
          groups[k] \o [a \in DOMAIN p.exprs |-> AggregateValue(p.exprs[a], Members(In(groups[k])), env)]]

\* The rows of an operator with one child, from those of the child.
OneInput(p, scopes, rows, env) ==
    CASE p.op = "FILTER" ->
           LET kept == SelectSeq(scopes, LAMBDA s : Passes(p.exprs, s, env))
           IN [k \in DOMAIN kept |-> kept[k].row]
      [] p.op = "PROJECTION" -> [k \in DOMAIN scopes |-> EvalAll(p.exprs, scopes[k], env)]
      [] p.op = "AGGREGATE" ->
           GroupRows(p, scopes, [k \in DOMAIN scopes |-> EvalAll(p.groups, scopes[k], env)], env)
      [] p.op \in {"SUBQUERY", "ORDER_BY"} -> rows
      [] p.op = "DISTINCT" -> Distinct(rows)
      [] p.op = "LIMIT" -> SubSeq(rows, 1, IF Len(rows) < p.count THEN Len(rows) ELSE p.count)

ScopesOf(tables, rows) == [k \in DOMAIN rows |-> Scope(tables, rows[k])]

CombineRows(op, rows, other) ==
    CASE op = "UNION" -> rows \o other
      [] op = "EXCEPT" -> Distinct(SelectSeq(rows, LAMBDA r : r \notin ToSet(other)))
      [] op = "INTERSECT" -> Distinct(SelectSeq(rows, LAMBDA r : r \in ToSet(other)))
      [] op = "CROSS_PRODUCT" ->
           FlattenSeq([k \in DOMAIN rows |-> [j \in DOMAIN other |-> rows[k] \o other[j]]])

\* What a duplicate eliminated join hands to its right side.
DelimOf(p, left, lrows, env) ==
    IF p.op # "DELIM_JOIN" THEN env
    ELSE [env EXCEPT !.delim = Distinct([k \in DOMAIN lrows |-> EvalAll(p.exprs, Scope(left, lrows[k]), env)])]

JoinWith(p, left, lrows, env) ==
    JoinRows(p, left, BoundTables(p.children[2]), lrows, Rows(p.children[2], DelimOf(p, left, lrows, env)), env)

Above(p, tables, rows, env) ==
    CASE p.op \in JoinOps -> JoinWith(p, tables, rows, env)
      [] p.op \in SetOps \cup {"CROSS_PRODUCT"} -> CombineRows(p.op, rows, Rows(p.children[2], env))
      [] OTHER -> OneInput(p, ScopesOf(tables, rows), rows, env)

Rows(p, env) ==
    CASE p.op = "GET" -> Tables[p.table]
      [] p.op = "CHUNK_GET" -> [k \in DOMAIN p.exprs |-> <<p.exprs[k].val>>]
      [] p.op = "DELIM_GET" -> env.delim
      [] p.op = "EMPTY_RESULT" -> <<>>
      [] OTHER -> Above(p, BoundTables(p.children[1]), Rows(p.children[1], env), env)

\* Two results with the same rows, each as often, in any order.
SameRows(a, b) ==
    /\ Len(a) = Len(b)
    /\ \A r \in ToSet(a) : Len(SelectSeq(a, LAMBDA x : x = r)) = Len(SelectSeq(b, LAMBDA x : x = r))

\* Every column an expression of the plan refers to is a column of the operator's input, and
\* every column of an enclosing query one of that query's operator.
RECURSIVE Resolves(_, _, _), PlanResolves(_, _)
Resolves(e, tables, outer) ==
    /\ e.op = "COLUMN" => ColumnIndex(tables, e.val) # 0
    /\ e.op = "OUTER" => ColumnIndex(outer, e.val) # 0
    /\ e.op \in Subqueries => PlanResolves(e.sub[1], tables)
    /\ \A i \in DOMAIN e.args : Resolves(e.args[i], tables, outer)

PlanResolves(p, outer) ==
    LET Side(i) == BoundTables(p.children[i])
        \* a condition of a join is resolved in one child, its other expressions in the input
        input == IF p.op = "DELIM_JOIN" THEN Side(1)
                 ELSE IF p.children = <<>> THEN <<>>
                 ELSE FoldLeft(LAMBDA all, c : all \o BoundTables(c), <<>>, p.children)
    IN /\ \A i \in DOMAIN p.children : PlanResolves(p.children[i], outer)
       /\ \A i \in DOMAIN p.exprs : Resolves(p.exprs[i], input, outer)
       /\ \A i \in DOMAIN p.groups : Resolves(p.groups[i], input, outer)
       /\ \A i \in DOMAIN p.conds : /\ Resolves(p.conds[i].left, Side(1), outer)
                                    /\ Resolves(p.conds[i].right, Side(2), outer)
=============================================================================
