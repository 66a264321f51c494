------------------------------ MODULE Rewriter ------------------------------
(***************************************************************************)
(* The expression rewriter of the optimizer and its rules.  A rule gives   *)
(* <<>> when it does not match or changes nothing, and the expression that *)
(* takes the place of the one it matched otherwise.                        *)
(***************************************************************************)
EXTENDS LogicalPlan

RECURSIVE EvaluateScalar(_)
EvaluateScalar(e) ==
    IF e.op = "CONSTANT" THEN e.val ELSE Operate(e.op, [i \in DOMAIN e.args |-> EvaluateScalar(e.args[i])])

IsConstant(e) == e.op = "CONSTANT"

\* The first child a matcher with the policy SOME binds; 0: none.
FirstChild(e, Test(_)) == SelectInSeq(e.args, Test)

\* The other child of a binary expression.
OtherChild(e, i) == e.args[3 - i]

ConstantFoldingRule(e) ==
    IF IsScalar(e) /\ ~IsConstant(e) THEN <<Const(EvaluateScalar(e))>> ELSE <<>>

----------------------------------------------------------------------------
(* (X AND A) OR (X AND B) becomes (A OR B) AND X.                          *)

RECURSIVE Gather(_, _)
\* The operands of a tree of conjunctions of one kind.
Gather(op, e) == IF e.op = op THEN Gather(op, e.args[1]) \o Gather(op, e.args[2]) ELSE <<e>>

GatherOrExpressions(e) ==
    LET disjuncts == Gather("OR", e)
    IN [i \in DOMAIN disjuncts |-> Gather("AND", disjuncts[i])]

WithoutFirst(list, e) ==
    LET at == SelectInSeq(list, LAMBDA x : x = e)
    IN IF at = 0 THEN list ELSE RemoveAt(list, at)

\* Prune drops the operands of the OR that nothing is left of.
Disjoined(lists) ==
    IF lists = <<>> THEN <<>>
    ELSE <<Conjoined("OR", [j \in DOMAIN lists |-> Conjoined("AND", lists[j])])>>

Distributed(end) ==
    IF end.shared = <<>> THEN <<>>
    ELSE <<Conjoined("AND", Disjoined(SelectSeq(end.lists, LAMBDA list : list # <<>>)) \o end.shared)>>

\* The expressions that occur in every list, taken out.
TakeShared(lists) ==
    LET Shared(state, x) ==
            IF \A j \in 2..Len(lists) : x \in ToSet(state.lists[j])
            THEN [lists |-> [j \in DOMAIN lists |-> WithoutFirst(state.lists[j], x)],
                  shared |-> Append(state.shared, x)]
            ELSE state
    IN FoldLeft(Shared, [lists |-> lists, shared |-> <<>>], lists[1])

DistributivityRule(e) ==
    IF e.op # "OR" THEN <<>> ELSE Distributed(TakeShared(GatherOrExpressions(e)))

----------------------------------------------------------------------------

ArithmeticSimplificationRule(e) ==
    LET c == FirstChild(e, IsConstant)
        value == e.args[c].val
        other == OtherChild(e, c)
    IN IF e.op \notin Arithmetic \/ c = 0 THEN <<>>
       ELSE CASE value = NULL -> <<Const(NULL)>>
              [] e.op = "+" /\ value = <<0>> -> <<other>>
              [] e.op = "-" /\ c = 2 /\ value = <<0>> -> <<other>>
              [] e.op = "*" /\ value = <<1>> -> <<other>>
              [] e.op = "/" /\ c = 2 /\ value = <<1>> -> <<other>>
              [] e.op = "/" /\ c = 2 /\ value = <<0>> -> <<Const(NULL)>>
              [] OTHER -> <<>>

CaseSimplificationRule(e) ==
    IF e.op # "CASE" \/ ~IsScalar(e.args[1]) THEN <<>>
    ELSE <<IF EvaluateScalar(e.args[1]) \in {NULL, <<0>>} THEN e.args[3] ELSE e.args[2]>>

WithConstant(e, c, value) ==
    IF value = NULL THEN <<>>
    ELSE IF (e.op = "AND") = (value = <<0>>) THEN <<Const(value)>>
    ELSE <<OtherChild(e, c)>>

ConjunctionSimplificationRule(e) ==
    LET c == FirstChild(e, IsScalar)
    IN IF e.op \notin {"AND", "OR"} \/ c = 0 THEN <<>> ELSE WithConstant(e, c, EvaluateScalar(e.args[c]))

ComparisonSimplificationRule(e) ==
    LET c == FirstChild(e, IsScalar)
    IN IF e.op \notin Comparisons \/ c = 0 THEN <<>>
       ELSE IF EvaluateScalar(e.args[c]) = NULL THEN <<Const(NULL)>> ELSE <<>>

\* The arithmetic MoveConstantsRule can undo: an operand is a constant.
Movable(e) == e.op \in {"+", "-", "*"} /\ FirstChild(e, IsConstant) # 0

\* Mutant of MoveConstantsRule: the comparison is not flipped when the factor is negative.
MoveConstantsUnflipped(e) ==
    LET c == FirstChild(e, IsConstant)
        outer == e.args[c].val
        sum == OtherChild(e, c)
        i == FirstChild(sum, IsConstant)
        inner == sum.args[i].val
        x == OtherChild(sum, i)
        Moved(op, value) == <<Expr(op, IF c = 1 THEN <<Const(value), x>> ELSE <<x, Const(value)>>)>>
        flip == FlipComparisionExpression(e.op)
    IN IF e.op \notin Comparisons \/ c = 0 THEN <<>>
       ELSE IF ~Movable(sum) THEN <<>>
       ELSE CASE sum.op = "+" -> Moved(e.op, Calculate("-", outer, inner))
              [] sum.op = "-" /\ i = 2 -> Moved(e.op, Calculate("+", outer, inner))
              [] sum.op = "-" /\ i = 1 -> Moved(flip, Calculate("-", inner, outer))
              [] OTHER -> IF inner = NULL \/ inner = <<0>> \/ outer = NULL THEN <<>>
                          ELSE IF Quotient(outer[1], inner[1]) * inner[1] # outer[1] THEN <<>>
                          ELSE Moved(e.op, Calculate("/", outer, inner))

MoveConstantsRule(e) ==
    LET c == FirstChild(e, IsConstant)
        outer == e.args[c].val
        sum == OtherChild(e, c)
        i == FirstChild(sum, IsConstant)
        inner == sum.args[i].val
        x == OtherChild(sum, i)
        Moved(op, value) == <<Expr(op, IF c = 1 THEN <<Const(value), x>> ELSE <<x, Const(value)>>)>>
        flip == FlipComparisionExpression(e.op)
    IN IF e.op \notin Comparisons \/ c = 0 THEN <<>>
       ELSE IF ~Movable(sum) THEN <<>>
       ELSE CASE sum.op = "+" -> Moved(e.op, Calculate("-", outer, inner))
              [] sum.op = "-" /\ i = 2 -> Moved(e.op, Calculate("+", outer, inner))
              [] sum.op = "-" /\ i = 1 -> Moved(flip, Calculate("-", inner, outer))
              [] OTHER -> IF inner = NULL \/ inner = <<0>> \/ outer = NULL THEN <<>>
                          ELSE IF Quotient(outer[1], inner[1]) * inner[1] # outer[1] THEN <<>>
                          ELSE Moved(IF inner[1] < 0 THEN flip ELSE e.op, Calculate("/", outer, inner))

----------------------------------------------------------------------------
(* The rewriter.                                                           *)

\* The first rule, in the order the optimizer adds them, that replaces the expression.
FirstResult(results) ==
    LET first == SelectInSeq(results, LAMBDA r : r # <<>>) IN IF first = 0 THEN <<>> ELSE results[first]

Replacement(e) ==
    FirstResult(<<ConstantFoldingRule(e), DistributivityRule(e), ArithmeticSimplificationRule(e),
                  CaseSimplificationRule(e), ConjunctionSimplificationRule(e),
                  ComparisonSimplificationRule(e)>>)

RECURSIVE ApplyRules(_)
\* A replaced expression is tried again; one whose constants were moved is left for the next
\* round; otherwise the children are tried.
WithChildren(e, children) ==
    [expr |-> [e EXCEPT !.args = [i \in DOMAIN children |-> children[i].expr]],
     changed |-> \E i \in DOMAIN children : children[i].changed]

ApplyMoved(e, moved) ==
    IF moved # <<>> THEN [expr |-> moved[1], changed |-> TRUE]
    ELSE WithChildren(e, [i \in DOMAIN e.args |-> ApplyRules(e.args[i])])

ApplyReplaced(e, new) ==
    IF new # <<>> THEN [expr |-> ApplyRules(new[1]).expr, changed |-> TRUE]
    ELSE ApplyMoved(e, MoveConstantsRule(e))

ApplyRules(e) == ApplyReplaced(e, Replacement(e))

\* Until nothing changes.
RECURSIVE Rewritten(_)
RewrittenOnce(r) == IF r.changed THEN Rewritten(r.expr) ELSE r.expr
Rewritten(e) == RewrittenOnce(ApplyRules(e))

SplitFilter(op, exprs) == IF op = "FILTER" THEN SplitPredicates(exprs) ELSE exprs

\* The condition of an ANY_JOIN is not among the expressions of the operator.
RewrittenExprs(op, exprs) ==
    IF op = "ANY_JOIN" THEN exprs ELSE SplitFilter(op, [i \in DOMAIN exprs |-> Rewritten(exprs[i])])

RECURSIVE Apply(_)
Apply(p) ==
    [p EXCEPT !.children = [i \in DOMAIN p.children |-> Apply(p.children[i])],
              !.exprs = RewrittenExprs(p.op, @)]
=============================================================================
