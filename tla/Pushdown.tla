------------------------------ MODULE Pushdown ------------------------------
(***************************************************************************)
(* Filter pushdown.  The filters on their way down are collected by a      *)
(* filter combiner, which derives new ones from equalities and drops those *)
(* that others imply, and every operator decides which of them may go      *)
(* below it.                                                               *)
(***************************************************************************)
EXTENDS Planner, Rewriter

----------------------------------------------------------------------------
(* The filter combiner: the expressions known to be equal (sets, and the   *)
(* set each expression is in now), the comparisons of each set with        *)
(* constants, and the filters it does not understand.                      *)

NoFilters == [rest |-> <<>>, sets |-> <<>>, of |-> <<>>, infos |-> <<>>, sat |-> TRUE]

\* Values in the order of ValueOperations, where NULL is equal to itself and the smallest.
Order(v) == IF v = NULL THEN -1000 ELSE v[1]
ValueCompare(op, v, w) == Compare(op, <<Order(v)>>, <<Order(w)>>) = <<1>>

Invert(result) == CASE result = "LEFT" -> "RIGHT" [] result = "RIGHT" -> "LEFT" [] OTHER -> result

GreaterThan == {">", ">="}
LessThan == {"<", "<="}

RECURSIVE CompareValueInformation(_, _)
\* Which of two comparisons of an expression with constants the other one implies.
CompareValueInformation(l, r) ==
    LET Selective(strict, wide) ==
            IF ValueCompare(strict, l.val, r.val) THEN "RIGHT"
            ELSE IF l.val # r.val \/ l.cmp = wide THEN "LEFT" ELSE "RIGHT"
    IN CASE l.cmp = "=" -> IF ValueCompare(r.cmp, l.val, r.val) THEN "RIGHT" ELSE "UNSATISFIABLE"
         [] l.cmp # "=" /\ r.cmp = "=" -> Invert(CompareValueInformation(r, l))
         [] l.cmp = "<>" /\ r.cmp # "=" -> IF ValueCompare(r.cmp, l.val, r.val) THEN "NOTHING" ELSE "LEFT"
         [] l.cmp \in GreaterThan \cup LessThan /\ r.cmp = "<>" -> Invert(CompareValueInformation(r, l))
         [] l.cmp \in GreaterThan /\ r.cmp \in GreaterThan -> Selective(">", ">=")
         [] l.cmp \in LessThan /\ r.cmp \in LessThan -> Selective("<", "<=")
         [] l.cmp \in LessThan /\ r.cmp \in GreaterThan ->
              IF ValueCompare(">=", l.val, r.val) THEN "NOTHING" ELSE "UNSATISFIABLE"
         [] l.cmp \in GreaterThan /\ r.cmp \in LessThan -> Invert(CompareValueInformation(r, l))

RECURSIVE AddConstantComparison(_, _, _)
CompareWith(infos, i, info, result) ==
    CASE result = "LEFT" -> AddConstantComparison(RemoveAt(infos, i), i, info)
      [] result = "RIGHT" -> [infos |-> infos, sat |-> TRUE]
      [] result = "UNSATISFIABLE" -> [infos |-> infos, sat |-> FALSE]
      [] OTHER -> AddConstantComparison(infos, i + 1, info)

AddConstantComparison(infos, i, info) ==
    IF i > Len(infos) THEN [infos |-> Append(infos, info), sat |-> TRUE]
    ELSE CompareWith(infos, i, info, CompareValueInformation(infos[i], info))

\* The combiner with the expression in it (GetNode, GetEquivalenceSet).
WithNode(c, e) ==
    IF \E i \in DOMAIN c.of : c.of[i].expr = e THEN c
    ELSE [c EXCEPT !.of = Append(@, [expr |-> e, set |-> Len(c.sets) + 1]),
                   !.sets = Append(@, <<e>>), !.infos = Append(@, <<>>)]

GetEquivalenceSet(c, e) == c.of[SelectInSeq(c.of, LAMBDA o : o.expr = e)].set

WithInfos(c, set, added) == [c EXCEPT !.infos[set] = added.infos, !.sat = @ /\ added.sat]

AddInfo(c, set, info) == WithInfos(c, set, AddConstantComparison(c.infos[set], 1, info))

\* The right set stays where it is: only the map of its expressions changes.
Merged(c, left, right) ==
    LET moved == [c EXCEPT !.sets[left] = @ \o c.sets[right],
                           !.of = [i \in DOMAIN c.of |-> IF c.of[i].set = right
                                                         THEN [c.of[i] EXCEPT !.set = left] ELSE c.of[i]]]
    IN FoldLeft(LAMBDA d, info : IF d.sat THEN AddInfo(d, left, info) ELSE d, moved, c.infos[right])

CompareWithConstant(c, e, other, side) ==
    AddInfo(c, GetEquivalenceSet(c, other),
            [cmp |-> IF side = 1 THEN FlipComparisionExpression(e.op) ELSE e.op,
             val |-> EvaluateScalar(e.args[side])])

MergeEqual(c, left, right) == IF left = right THEN c ELSE Merged(c, left, right)
Equated(c, e) == MergeEqual(c, GetEquivalenceSet(c, e.args[1]), GetEquivalenceSet(c, e.args[2]))

CombinerAddFilter(c, e) ==
    LET side == FirstChild(e, IsScalar)
    IN CASE IsScalar(e) -> [c EXCEPT !.sat = EvaluateScalar(e) \notin {NULL, <<0>>}]
         [] ~IsScalar(e) /\ e.op \in Comparisons /\ side # 0 ->
              CompareWithConstant(WithNode(c, OtherChild(e, side)), e, OtherChild(e, side), side)
         [] ~IsScalar(e) /\ e.op = "=" /\ side = 0 -> Equated(WithNode(WithNode(c, e.args[1]), e.args[2]), e)
         [] OTHER -> [c EXCEPT !.rest = Append(@, e)]

CombinerGenerateFilters(c) ==
    LET Pairs(s, i) == [k \in 1..(Len(s) - i) |-> Expr("=", <<s[i], s[i + k]>>)]
        Infos(e, infos) == [k \in DOMAIN infos |-> Expr(infos[k].cmp, <<e, Const(infos[k].val)>>)]
        Of(set) == FoldLeft(LAMBDA all, i : all \o Pairs(c.sets[set], i) \o Infos(c.sets[set][i], c.infos[set]),
                            <<>>, [i \in DOMAIN c.sets[set] |-> i])
    IN FoldLeft(LAMBDA all, set : all \o Of(set), c.rest, [i \in DOMAIN c.sets |-> i])

\* FilterPushdown::AddFilter of new filters to those there are, until one cannot be met.
Combined(filters, new) ==
    FoldLeft(LAMBDA c, e : IF c.sat THEN CombinerAddFilter(c, e) ELSE c,
             NoFilters, filters \o FoldLeft(LAMBDA all, e : all \o SplitPredicates(<<e>>), <<>>, new))

----------------------------------------------------------------------------
(* Pushing filters through the operators.  A pushdown gives the plan and   *)
(* the next table index.                                                   *)

SideOf(bindings, left_bindings) ==
    CASE bindings = {} -> "NONE"
      [] bindings # {} /\ bindings \subseteq left_bindings -> "LEFT"
      [] bindings # {} /\ bindings \cap left_bindings = {} -> "RIGHT"
      [] OTHER -> "BOTH"

Side(e, left_bindings) == SideOf(ExpressionBindings(e), left_bindings)

On(side, filters, left_bindings) == SelectSeq(filters, LAMBDA e : Side(e, left_bindings) = side)
NotOn(side, filters, left_bindings) == SelectSeq(filters, LAMBDA e : Side(e, left_bindings) # side)

RECURSIVE Substituted(_, _)
\* The column references of an expression replaced.
Substituted(e, by) ==
    IF e.op = "COLUMN" THEN by[e.val]
    ELSE [e EXCEPT !.args = [i \in DOMAIN e.args |-> Substituted(e.args[i], by)]]

Substitute(e, By(_)) == Substituted(e, [b \in ColumnsIn(e) |-> By(b)])

Replaced(filters, By(_)) == [i \in DOMAIN filters |-> Substitute(filters[i], By)]

\* The binding below a subquery, looked up in the tables the subquery had when it was made;
\* a column added to it since is not found.
RewriteSubqueryBinding(tables, binding) ==
    LET Ends(k) == Columns(SubSeq(tables, 1, k))
        found == {k \in DOMAIN tables : binding[2] < Ends(k)}
        k == CHOOSE j \in found : \A i \in found : j <= i
    IN IF found = {} THEN Col(binding) ELSE Col(<<tables[k][1], binding[2] - Ends(k - 1)>>)

\* Whether the filter is never true of a row whose columns on the right are NULL.
FilterRemovesNull(e, right_bindings) ==
    LET nulled == Substitute(e, LAMBDA b : IF b[1] \in right_bindings THEN Const(NULL) ELSE Col(b))
    IN Apply(FilterNode(<<nulled>>, Node("EMPTY_RESULT", <<>>))).exprs[1] \in {Const(NULL), Const(<<0>>)}

\* A combiner whose user does not look at the results.
CombinedAnyway(es) ==
    FoldLeft(LAMBDA c, e : [CombinerAddFilter(c, e) EXCEPT !.sat = TRUE], NoFilters, es)

\* What the combiner derives for the right side of a left join from its conditions and the
\* filters on its left.
RightFilters(p, left, left_bindings) ==
    LET conds == [i \in DOMAIN p.conds |-> CreateExpressionFromCondition(p.conds[i])]
        right == SelectSeq(CombinerGenerateFilters(CombinedAnyway(conds \o left)),
                           LAMBDA e : GetJoinSide(e, left_bindings) = "RIGHT")
    IN IF p.op = "COMPARISON_JOIN" THEN CombinerGenerateFilters(CombinedAnyway(right)) ELSE <<>>

\* The join and the filters left once the filters on the marker have been looked at.
MarkFilters(p, filters, left_bindings) ==
    LET always == \A i \in DOMAIN p.conds : p.conds[i].nulls
        Step(s, e) ==
            IF Side(e, left_bindings) # "RIGHT" THEN [s EXCEPT !.filters = Append(@, e)]
            ELSE CASE e.op = "COLUMN" -> [s EXCEPT !.join = "SEMI"]
                   [] e.op = "NOT" /\ e.args[1].op = "COLUMN" /\ always -> [s EXCEPT !.join = "ANTI"]
                   [] OTHER -> [s EXCEPT !.filters = Append(@, e)]
    IN FoldLeft(Step, [join |-> "MARK", filters |-> <<>>], NotOn("LEFT", filters, left_bindings))

RECURSIVE Rewrite(_, _, _), FinishPushdown(_, _, _), PushdownCrossProduct(_, _, _)

\* The children rewritten, each with the filters that go below it.
Below(p, filters, n) ==
    LET Step(s, i) == Child(s, Rewrite(p.children[i], filters[i], s.next))
    IN Parent(p, FoldLeft(Step, [children |-> <<>>, next |-> n], [i \in DOMAIN p.children |-> i]))

Filtered(filters, t) == IF filters = <<>> THEN t ELSE Result(FilterNode(filters, t.plan), t.next)

FinishPushdown(p, filters, n) == Filtered(filters, Below(p, [i \in DOMAIN p.children |-> <<>>], n))
FinishAbove(t, filters) == FinishPushdown(t.plan, filters, t.next)

PushdownCombined(p, c, n) ==
    IF ~c.sat THEN Result(EmptyResult(p), n)
    ELSE Rewrite(p.children[1], CombinerGenerateFilters(c), n)

PushdownFilter(p, filters, n) ==
    IF p.exprs = <<>> THEN Rewrite(p.children[1], filters, n)
    ELSE PushdownCombined(p, Combined(filters, p.exprs), n)

\* A filter on the columns of an operator, pushed below it with the columns replaced.
ThroughCombined(p, c, up, n) ==
    IF ~c.sat THEN Result(EmptyResult(p), n)
    ELSE IF p.op = "AGGREGATE" THEN FinishAbove(Below(p, <<CombinerGenerateFilters(c)>>, n), up)
    ELSE Below(p, <<CombinerGenerateFilters(c)>>, n)

PushdownThrough(p, down, up, By(_), n) == ThroughCombined(p, Combined(<<>>, Replaced(down, By)), up, n)

\* Mutant of PushdownAggregate: a filter on an aggregate goes below it too.
PushdownAggregateAll(p, filters, n) ==
    LET By(b) == IF b[1] = p.index THEN p.groups[b[2] + 1] ELSE Col(b)
    IN PushdownThrough(p, filters, <<>>, By, n)

PushdownAggregate(p, filters, n) ==
    LET Group(b) == p.groups[b[2] + 1]
        down == SelectSeq(filters, LAMBDA e : p.index2 \notin ExpressionBindings(e))
        up == SelectSeq(filters, LAMBDA e : p.index2 \in ExpressionBindings(e))
    IN PushdownThrough(p, down, up, Group, n)

PushdownProjection(p, filters, n) ==
    LET Projected(b) == p.exprs[b[2] + 1] IN PushdownThrough(p, filters, <<>>, Projected, n)

PushdownSubquery(p, filters, n) ==
    LET Inner(b) == RewriteSubqueryBinding(p.tables, b) IN Below(p, <<Replaced(filters, Inner)>>, n)

PushdownWrapped(p, filters, s) ==
    LET To(i) == Replaced(filters, LAMBDA b : Col(<<s.children[i].index, b[2]>>))
    IN Below([p EXCEPT !.children = s.children], <<To(1), To(2)>>, s.next)

PushdownSetOperation(p, filters, n) ==
    LET Wrapped(s, c) ==
            IF c.op = "SUBQUERY" THEN [s EXCEPT !.children = Append(@, c)]
            ELSE [children |-> Append(s.children, SubqueryNode(c, s.next)), next |-> s.next + 1]
    IN PushdownWrapped(p, filters, FoldLeft(Wrapped, [children |-> <<>>, next |-> n], p.children))

JoinedOn(t, join) ==
    IF join = <<>> THEN t
    ELSE Result(CreateJoin("INNER", t.plan.children[1], t.plan.children[2], join), t.next)

PushdownCrossProduct(p, filters, n) ==
    LET left_bindings == TableReferences(p.children[1])
    IN JoinedOn(Below(p, <<On("LEFT", filters, left_bindings), On("RIGHT", filters, left_bindings)>>, n),
                On("BOTH", filters, left_bindings))

InnerCombined(p, c, n) ==
    IF ~c.sat THEN Result(EmptyResult(p), n)
    ELSE PushdownCrossProduct(Cross(p.children[1], p.children[2]), CombinerGenerateFilters(c), n)

PushdownInnerJoin(p, filters, n) ==
    InnerCombined(p, Combined(filters, IF p.op = "ANY_JOIN" THEN p.exprs
                                       ELSE [i \in DOMAIN p.conds |-> CreateExpressionFromCondition(p.conds[i])]),
                  n)

PushdownLeftJoin(p, filters, n) ==
    LET left_bindings == TableReferences(p.children[1])
        right_bindings == TableReferences(p.children[2])
        left == On("LEFT", filters, left_bindings)
        other == NotOn("LEFT", filters, left_bindings)
    IN IF \E i \in DOMAIN other : FilterRemovesNull(other[i], right_bindings)
       THEN PushdownInnerJoin([p EXCEPT !.join = "INNER"], filters, n)
       ELSE FinishAbove(Below(p, <<left, RightFilters(p, left, left_bindings)>>, n), other)

PushdownMarkJoin(p, filters, n) ==
    LET left_bindings == TableReferences(p.children[1])
        s == MarkFilters(p, filters, left_bindings)
    IN FinishAbove(Below([p EXCEPT !.join = s.join], <<On("LEFT", filters, left_bindings), <<>>>>, n),
                   s.filters)

PushdownSingleJoin(p, filters, n) ==
    LET left_bindings == TableReferences(p.children[1])
    IN FinishAbove(Below(p, <<On("LEFT", filters, left_bindings), <<>>>>, n),
                   NotOn("LEFT", filters, left_bindings))

Rewrite(p, filters, n) ==
    CASE p.op = "AGGREGATE" -> PushdownAggregate(p, filters, n)
      [] p.op = "FILTER" -> PushdownFilter(p, filters, n)
      [] p.op = "CROSS_PRODUCT" -> PushdownCrossProduct(p, filters, n)
      [] p.op \in JoinOps /\ p.join = "INNER" -> PushdownInnerJoin(p, filters, n)
      [] p.op \in JoinOps /\ p.join = "LEFT" -> PushdownLeftJoin(p, filters, n)
      [] p.op \in JoinOps /\ p.join = "MARK" -> PushdownMarkJoin(p, filters, n)
      [] p.op \in JoinOps /\ p.join = "SINGLE" -> PushdownSingleJoin(p, filters, n)
      [] p.op = "SUBQUERY" -> PushdownSubquery(p, filters, n)
      [] p.op = "PROJECTION" -> PushdownProjection(p, filters, n)
      [] p.op \in SetOps -> PushdownSetOperation(p, filters, n)
      [] p.op \in {"DISTINCT", "ORDER_BY"} -> Below(p, <<filters>>, n)
      [] OTHER -> FinishPushdown(p, filters, n)
=============================================================================
