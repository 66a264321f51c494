------------------------------ MODULE Planner ------------------------------
(***************************************************************************)
(* The logical plan generator: joins made of ON clauses, and subqueries    *)
(* turned into joins.  The query it starts from is a tree of the operators *)
(* the generator stacks up, with the subqueries still in the expressions   *)
(* and a JOINREF for every JOIN ... ON.                                    *)
(*                                                                         *)
(* Operators thread the next free table index (Binder::GenerateTableIndex) *)
(* through.  An operator THROW stands for the exception of an unsupported  *)
(* query.                                                                  *)
(***************************************************************************)
EXTENDS LogicalPlan

THROW == Node("THROW", <<>>)

Result(plan, next) == [plan |-> plan, next |-> next]
Child(s, t) == [children |-> Append(s.children, t.plan), next |-> t.next]
Parent(p, s) == Result([p EXCEPT !.children = s.children], s.next)

----------------------------------------------------------------------------
(* Joins.                                                                  *)

CombineJoinSide(left, right) ==
    CASE left = "NONE" -> right
      [] right = "NONE" -> left
      [] OTHER -> IF left # right THEN "BOTH" ELSE left

BindingSide(table, left_bindings) == IF table \in left_bindings THEN "LEFT" ELSE "RIGHT"

RECURSIVE OuterColumns(_)
\* The columns of the enclosing query an expression refers to.
OuterColumns(e) ==
    IF e.op = "OUTER" THEN <<e.val>>
    ELSE FoldLeft(LAMBDA all, a : all \o OuterColumns(a), <<>>, e.args)

RECURSIVE OuterColumnsOf(_)
OuterColumnsOf(p) ==
    LET In(es) == FoldLeft(LAMBDA all, e : all \o OuterColumns(e), <<>>, es)
        left == [i \in DOMAIN p.conds |-> p.conds[i].left]
        right == [i \in DOMAIN p.conds |-> p.conds[i].right]
    IN FoldLeft(LAMBDA all, c : all \o OuterColumnsOf(c), <<>>, p.children)
         \o In(p.groups) \o In(p.exprs) \o In(left) \o In(right)

\* The correlated columns of a subquery, each once.
CorrelatedColumns(p) == Distinct(OuterColumnsOf(p))

RECURSIVE GetJoinSide(_, _)
GetJoinSide(e, left_bindings) ==
    CASE e.op = "COLUMN" -> BindingSide(e.val[1], left_bindings)
      [] e.op \in Subqueries ->
           FoldLeft(LAMBDA side, c : CombineJoinSide(side, BindingSide(c[1], left_bindings)),
                    "NONE", CorrelatedColumns(e.sub[1]))
      [] OTHER -> FoldLeft(LAMBDA side, a : CombineJoinSide(GetJoinSide(a, left_bindings), side),
                           "NONE", e.args)

\* <<>>: the comparison cannot be divided into a left and a right side.
Divided(e, left_side, right_side) ==
    IF left_side = "BOTH" \/ right_side = "BOTH" THEN <<>>
    ELSE IF left_side = "RIGHT"
    THEN <<Condition(FlipComparisionExpression(e.op), e.args[2], e.args[1], FALSE)>>
    ELSE <<Condition(e.op, e.args[1], e.args[2], FALSE)>>

CreateJoinCondition(e, left_bindings) ==
    Divided(e, GetJoinSide(e.args[1], left_bindings), GetJoinSide(e.args[2], left_bindings))

CreateExpressionFromCondition(cond) == Expr(cond.cmp, <<cond.left, cond.right>>)

AddToFilter(p, e) ==
    IF p.op = "FILTER" THEN [p EXCEPT !.exprs = Append(@, e)] ELSE FilterNode(<<e>>, p)

\* The condition of a comparison that can be divided; else e is an arbitrary condition.
WithCondition(s, e, cond) ==
    IF cond # <<>> THEN [s EXCEPT !.conds = @ \o cond] ELSE [s EXCEPT !.rest = Append(@, e)]

\* A NOT whose comparison cannot be divided is left with the comparison negated.
WithNegated(s, e, negated, left_bindings) ==
    WithCondition(s, [e EXCEPT !.args = <<negated>>], CreateJoinCondition(negated, left_bindings))

SortCondition(s, type, e, side, left_bindings) ==
    CASE side = "RIGHT" /\ type = "LEFT" -> [s EXCEPT !.right = AddToFilter(@, e)]
      [] side = "BOTH" /\ e.op \in Comparisons ->
           WithCondition(s, e, CreateJoinCondition(e, left_bindings))
      [] side = "BOTH" /\ e.op = "NOT" /\ e.args[1].op \in Comparisons ->
           WithNegated(s, e, [e.args[1] EXCEPT !.op = NegateComparisionExpression(@)], left_bindings)
      [] OTHER -> [s EXCEPT !.rest = Append(@, e)]

JoinOf(type, left, end) ==
    LET join == Join(type, end.conds, left, end.right)
    IN IF end.conds # <<>>
       THEN IF end.rest = <<>> THEN join ELSE FilterNode(SplitPredicates(end.rest), join)
       ELSE [Node("ANY_JOIN", <<left, end.right>>) EXCEPT !.join = type,
               !.exprs = <<IF end.rest = <<>> THEN Const(<<1>>) ELSE Conjoined("AND", end.rest)>>]

CreateJoin(type, left, right, exprs) ==
    LET left_bindings == TableReferences(left)
        Sort(s, e) == SortCondition(s, type, e, GetJoinSide(e, left_bindings), left_bindings)
    IN JoinOf(type, left, FoldLeft(Sort, [right |-> right, conds |-> <<>>, rest |-> <<>>], exprs))

----------------------------------------------------------------------------
(* FlattenDependentJoins: the dependent join between the duplicate         *)
(* eliminated scan and a correlated subquery is pushed down until it is a  *)
(* cross product.  s carries the plan, the binding of the scan's columns   *)
(* in it, where they and the data start in its rows, and the COUNTs that   *)
(* a left join may have made NULL.                                         *)

DelimGet(index, cols) ==
    [Node("DELIM_GET", <<>>) EXCEPT !.index = index, !.tables = <<<<index, Len(cols)>>>>]

DelimColumn(base, i) == Col(<<base[1], base[2] + i - 1>>)

DelimColumns(base, cols) == [i \in DOMAIN cols |-> DelimColumn(base, i)]

RECURSIVE RewriteCorrelatedExpressions(_, _, _)
RewriteCorrelatedExpressions(e, base, cols) ==
    IF e.op = "OUTER" THEN DelimColumn(base, SelectInSeq(cols, LAMBDA c : c = e.val))
    ELSE [e EXCEPT !.args = [i \in DOMAIN e.args |-> RewriteCorrelatedExpressions(e.args[i], base, cols)]]

RewriteCorrelated(p, base, cols) ==
    LET R(es) == [i \in DOMAIN es |-> RewriteCorrelatedExpressions(es[i], base, cols)]
    IN [p EXCEPT !.exprs = R(p.exprs), !.groups = R(p.groups),
                 !.conds = [i \in DOMAIN p.conds |->
                     [p.conds[i] EXCEPT !.left = R(<<@>>)[1], !.right = R(<<@>>)[1]]]]

RECURSIVE CountOrZero(_, _)
CountOrZero(e, counts) ==
    IF e.op = "COLUMN" /\ e.val \in counts
    THEN Expr("CASE", <<Expr("IS NULL", <<e>>), Const(<<0>>), e>>)
    ELSE [e EXCEPT !.args = [i \in DOMAIN e.args |-> CountOrZero(e.args[i], counts)]]

RECURSIVE RewriteCountAggregates(_, _)
RewriteCountAggregates(p, counts) ==
    LET R(es) == [i \in DOMAIN es |-> CountOrZero(es[i], counts)]
    IN [p EXCEPT !.children = [i \in DOMAIN p.children |-> RewriteCountAggregates(p.children[i], counts)],
                 !.exprs = R(p.exprs), !.groups = R(p.groups),
                 !.conds = [i \in DOMAIN p.conds |->
                     [p.conds[i] EXCEPT !.left = R(<<@>>)[1], !.right = R(<<@>>)[1]]]]

NullsEqual(left, right) ==
    [i \in DOMAIN left |-> Condition("=", left[i], right[i], TRUE)]

\* An aggregate without groups of its own has a row for every row of the scan.
WithScan(aggr, cols, s) ==
    LET own == Len(aggr.groups) - Len(cols)
        scan == DelimGet(s.next, cols)
    IN IF own = 0
       THEN [s EXCEPT !.plan = Join("LEFT", NullsEqual(DelimColumns(<<s.next, 0>>, cols),
                                                       DelimColumns(<<aggr.index, 0>>, cols)), scan, aggr),
                      !.counts = @ \cup {<<aggr.index2, i - 1>> : i \in
                          {j \in DOMAIN aggr.exprs : aggr.exprs[j].op \in {"COUNT", "COUNT_STAR"}}},
                      !.base = <<s.next, 0>>, !.delim = 0, !.data = 0, !.next = @ + 1]
       ELSE [s EXCEPT !.plan = aggr, !.base = <<aggr.index, own>>, !.delim = own,
                      !.data = Len(aggr.groups)]

PushIntoAggregate(p, cols, s) ==
    WithScan([RewriteCorrelated(p, s.base, cols) EXCEPT !.groups = @ \o DelimColumns(s.base, cols)], cols, s)

PushIntoProjection(p, cols, s) ==
    LET at == Len(p.exprs)
    IN [s EXCEPT !.plan = [RewriteCorrelated(p, s.base, cols) EXCEPT !.exprs = @ \o DelimColumns(s.base, cols)],
                 !.base = <<p.index, at>>, !.delim = at, !.data = 0]

\* Both sides of a join are correlated.
JoinSides(p, cols, l, r) ==
    LET equal == NullsEqual(DelimColumns(l.base, cols), DelimColumns(r.base, cols))
    IN [r EXCEPT !.plan = RewriteCorrelated(
                      [Join("INNER", p.conds \o equal, l.plan, r.plan) EXCEPT
                         !.join = IF p.op = "CROSS_PRODUCT" THEN "INNER" ELSE p.join],
                      r.base, cols),
                 !.base = IF p.join = "LEFT" THEN l.base ELSE @]

SetSides(p, cols, l, r) ==
    [r EXCEPT !.plan = [p EXCEPT !.children = <<l.plan, r.plan>>, !.count = @ + Len(cols)],
              !.base = <<p.index, p.count>>]

WithChild(p, i, t) == [t EXCEPT !.plan = [p EXCEPT !.children[i] = t.plan]]

Counted(t) == IF t.counts = {} THEN t ELSE [t EXCEPT !.plan = RewriteCountAggregates(@, t.counts)]

\* An operator with one child, once the dependent join is below it.
PushedBelow(p, cols, t) ==
    CASE p.op \in {"FILTER", "COMPARISON_JOIN"} -> [t EXCEPT !.plan = RewriteCorrelated(@, t.base, cols)]
      [] p.op = "PROJECTION" -> PushIntoProjection(t.plan, cols, t)
      [] p.op = "AGGREGATE" -> PushIntoAggregate(t.plan, cols, t)
      [] p.op = "SUBQUERY" -> [t EXCEPT !.plan.count = p.count + Len(cols), !.base = <<p.index, p.count>>]
      [] OTHER -> t

RECURSIVE PushDownDependentJoinInternal(_, _), PushDownDependentJoin(_, _)

Into(p, i, cols, s) == PushDownDependentJoinInternal(cols, [s EXCEPT !.plan = p.children[i]])
IntoFully(p, i, cols, s) == PushDownDependentJoin(cols, [s EXCEPT !.plan = p.children[i]])

IntoRight(p, cols, l) == JoinSides(p, cols, l, Into(p, 2, cols, l))
IntoRightFully(p, cols, l) == SetSides(p, cols, l, IntoFully(p, 2, cols, l))

\* cl, cr: whether the left and the right side of a join are correlated.
IntoJoin(p, cols, s, cl, cr) ==
    CASE p.join = "MARK" ->
           IF cr THEN [s EXCEPT !.plan = THROW] ELSE PushedBelow(p, cols, WithChild(p, 1, Into(p, 1, cols, s)))
      [] p.join # "MARK" /\ ~cr -> WithChild(p, 1, Into(p, 1, cols, s))
      [] p.join # "MARK" /\ cr ->
           IF p.join # "LEFT" /\ ~cl THEN WithChild(p, 2, Into(p, 2, cols, s))
           ELSE IntoRight(p, cols, Into(p, 1, cols, s))

\* The plans have no WINDOW and no PRUNE_COLUMNS, which the code pushes through, and no OFFSET,
\* which it refuses.
PushDownDependentJoinInternal(cols, s) ==
    LET p == s.plan
        Correlated(i) == CorrelatedColumns(p.children[i]) # <<>>
    IN CASE CorrelatedColumns(p) = <<>> ->
              [s EXCEPT !.plan = Cross(DelimGet(s.next, cols), p), !.base = <<s.next, 0>>, !.next = @ + 1]
         [] p.op \in {"FILTER", "PROJECTION", "AGGREGATE", "SUBQUERY"} ->
              PushedBelow(p, cols, WithChild(p, 1, Into(p, 1, cols, s)))
         [] \/ p.op = "CROSS_PRODUCT"
            \/ p.op = "COMPARISON_JOIN" /\ p.join \in {"INNER", "LEFT", "MARK"} ->
              IntoJoin(p, cols, s, Correlated(1), Correlated(2))
         [] p.op = "LIMIT" ->
              IF p.count = 0 THEN WithChild(p, 1, Into(p, 1, cols, s)) ELSE Into(p, 1, cols, s)
         [] p.op \in SetOps -> IntoRightFully(p, cols, IntoFully(p, 1, cols, s))
         [] p.op = "DISTINCT" -> WithChild(p, 1, IntoFully(p, 1, cols, s))
         [] OTHER -> [s EXCEPT !.plan = THROW]

PushDownDependentJoin(cols, s) == Counted(PushDownDependentJoinInternal(cols, s))

----------------------------------------------------------------------------
(* Subqueries.  A planner returns the expression that takes the place of   *)
(* the subquery, the plan below it with the subquery joined to it, and the *)
(* next table index.                                                       *)

Planned(expr, root, next) == [expr |-> expr, root |-> root, next |-> next]

CountStar == Expr("COUNT_STAR", <<>>)

PlanUncorrelatedSubquery(e, root, plan, n) ==
    LET one == [Node("LIMIT", <<plan>>) EXCEPT !.count = 1]
        Aggregate(expr) == [Node("AGGREGATE", <<one>>) EXCEPT !.index2 = n, !.index = n + 1, !.exprs = <<expr>>]
        first == Expr("FIRST", <<Col(<<BoundTables(plan)[1][1], 0>>)>>)
        exists == Projection(n + 2, <<Expr("=", <<Col(<<n, 0>>), Const(<<1>>)>>)>>, Aggregate(CountStar))
        cond == Condition(e.cmp, e.args[1], Col(<<n, 0>>), FALSE)
    IN CASE e.op = "EXISTS" -> Planned(Col(<<n + 2, 0>>), Cross(root, exists), n + 3)
         [] e.op = "SCALAR" -> Planned(Col(<<n, 0>>), Cross(root, Aggregate(first)), n + 2)
         [] e.op = "ANY" -> Planned(Col(<<n, 0>>), Join("MARK", <<cond>>, root, SubqueryNode(plan, n)), n + 1)

JoinFlattened(e, root, cols, s) ==
    LET index == s.next
        keys == [i \in DOMAIN cols |-> Col(cols[i])]
        conds == NullsEqual(keys, DelimColumns(<<index, s.delim>>, cols))
        asked == IF e.op = "ANY" THEN <<Condition(e.cmp, e.args[1], Col(<<index, 0>>), FALSE)>> ELSE <<>>
        join == [Join(IF e.op = "SCALAR" THEN "SINGLE" ELSE "MARK", conds \o asked, root,
                      SubqueryNode(s.plan, index)) EXCEPT !.op = "DELIM_JOIN", !.exprs = keys]
    IN Planned(Col(<<index, IF e.op = "EXISTS" THEN 0 ELSE s.data>>), join, index + 1)

PlanCorrelatedSubquery(e, root, plan, cols, n) ==
    JoinFlattened(e, root, cols,
                  PushDownDependentJoin(cols, [plan |-> plan, base |-> <<0, 0>>, delim |-> 0, data |-> 0,
                                               counts |-> {}, next |-> n]))

RECURSIVE HasSubquery(_), PlanHasSubquery(_)
HasSubquery(e) == e.op \in Subqueries \/ \E i \in DOMAIN e.args : HasSubquery(e.args[i])
PlanHasSubquery(p) ==
    \/ \E i \in DOMAIN p.exprs : HasSubquery(p.exprs[i])
    \/ \E i \in DOMAIN p.groups : HasSubquery(p.groups[i])
    \/ \E i \in DOMAIN p.children : PlanHasSubquery(p.children[i])

RECURSIVE CreatePlan(_, _, _), PlanSubquery(_, _, _), PlanSubqueries(_, _, _, _), RecursivePlan(_, _)

AddPlanned(s, t) == [exprs |-> Append(s.exprs, t.expr), root |-> t.root, next |-> t.next]

PlanAll(es, root, n, plan_subquery) ==
    FoldLeft(LAMBDA s, e : AddPlanned(s, PlanSubqueries(e, s.root, s.next, plan_subquery)),
             [exprs |-> <<>>, root |-> root, next |-> n], es)

WithArguments(e, s, plan) ==
    IF plan THEN PlanSubquery([e EXCEPT !.args = s.exprs], s.root, s.next)
    ELSE Planned([e EXCEPT !.args = s.exprs], s.root, s.next)

\* plan_subquery: whether correlated subqueries are planned now, or left for the planner of
\* the subquery that they are nested in.
PlanSubqueries(e, root, n, plan_subquery) ==
    WithArguments(e, PlanAll(e.args, root, n, plan_subquery),
                  e.op \in Subqueries /\ (plan_subquery \/ CorrelatedColumns(e.sub[1]) = <<>>))

\* The subqueries nested in a subquery are planned when it has been flattened.
RecursiveChildren(p, gs) ==
    Parent([p EXCEPT !.groups = gs.exprs],
           FoldLeft(LAMBDA s, c : Child(s, RecursivePlan(c, s.next)),
                    [children |-> <<>>, next |-> gs.next], <<gs.root>> \o Tail(p.children)))

RecursiveGroups(p, es) ==
    RecursiveChildren([p EXCEPT !.exprs = es.exprs], PlanAll(p.groups, es.root, es.next, TRUE))

RecursivePlan(p, n) ==
    IF p.children = <<>> THEN Result(p, n) ELSE RecursiveGroups(p, PlanAll(p.exprs, p.children[1], n, TRUE))

PlanNested(t, nested) == Planned(t.expr, nested.plan, nested.next)
PlanIfNested(t, has) == IF has THEN PlanNested(t, RecursivePlan(t.root, t.next)) ELSE t

JoinSubquery(e, root, cols, sub) ==
    PlanIfNested(IF cols = <<>> THEN PlanUncorrelatedSubquery(e, root, sub.plan, sub.next)
                 ELSE PlanCorrelatedSubquery(e, root, sub.plan, cols, sub.next),
                 PlanHasSubquery(sub.plan))

PlanSubquery(e, root, n) ==
    JoinSubquery(e, root, CorrelatedColumns(e.sub[1]), CreatePlan(e.sub[1], n, FALSE))

\* A JOIN ... ON: an inner join becomes a filtered cross product; for the others the sides of
\* the conditions are planned on the sides of the join.
FilterPlanned(s) == Result(FilterNode(s.exprs, s.root), s.next)

ConditionPlanned(s, c, l, r) ==
    Result([s.plan EXCEPT !.children = <<l.root, r.root>>,
                          !.conds = Append(@, [c EXCEPT !.left = l.expr, !.right = r.expr])], r.next)

PlanRightSide(s, c, l, plan_subquery) ==
    ConditionPlanned(s, c, l, PlanSubqueries(c.right, s.plan.children[2], l.next, plan_subquery))

PlanSides(s, c, plan_subquery) ==
    PlanRightSide(s, c, PlanSubqueries(c.left, s.plan.children[1], s.next, plan_subquery), plan_subquery)

PlanConditions(join, n, plan_subquery) ==
    FoldLeft(LAMBDA s, c : PlanSides(s, c, plan_subquery), Result([join EXCEPT !.conds = <<>>], n), join.conds)

FilterAbove(filter, s) == Result([filter EXCEPT !.children = <<s.plan>>], s.next)

PlanCreated(result, cond, n, plan_subquery) ==
    CASE OuterColumns(cond) # <<>> \/ (result.op = "ANY_JOIN" /\ HasSubquery(cond)) -> Result(THROW, n)
      [] OTHER -> IF result.op = "FILTER"
                  THEN FilterAbove(result, PlanConditions(result.children[1], n, plan_subquery))
                  ELSE PlanConditions(result, n, plan_subquery)

PlanJoinRef(type, cond, left, right, n, plan_subquery) ==
    IF type = "INNER"
    THEN FilterPlanned(PlanAll(SplitPredicates(<<cond>>), Cross(left, right), n, plan_subquery))
    ELSE PlanCreated(CreateJoin(type, left, right, SplitPredicates(<<cond>>)), cond, n, plan_subquery)

ExpressionsPlanned(p, s) ==
    Result([p EXCEPT !.children = <<s.root>>,
                     !.exprs = IF p.op = "FILTER" THEN SplitPredicates(s.exprs) ELSE s.exprs], s.next)

PlanExpressions(p, groups, plan_subquery) ==
    ExpressionsPlanned([p EXCEPT !.groups = groups.exprs],
                       PlanAll(p.exprs, groups.root, groups.next, plan_subquery))

PlanOperator(p, s, plan_subquery) ==
    CASE p.op \in {"FILTER", "PROJECTION", "AGGREGATE"} ->
           PlanExpressions(p, PlanAll(p.groups, s.children[1], s.next, plan_subquery), plan_subquery)
      [] p.op = "JOINREF" ->
           PlanJoinRef(p.join, p.exprs[1], s.children[1], s.children[2], s.next, plan_subquery)
      [] p.op = "SUBQUERY" -> Result(SubqueryNode(s.children[1], p.index), s.next)
      [] OTHER -> Parent(p, s)

CreatePlan(p, n, plan_subquery) ==
    PlanOperator(p, FoldLeft(LAMBDA s, c : Child(s, CreatePlan(c, s.next, plan_subquery)),
                             [children |-> <<>>, next |-> n], p.children), plan_subquery)
=============================================================================
