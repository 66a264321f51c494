----------------------------- MODULE Optimizer -----------------------------
(***************************************************************************)
(* From a bound query to the plan that is executed: the logical plan       *)
(* generator, then the four passes of the optimizer, one after the other.  *)
(* A query of Queries is a tree with its next free table index.            *)
(***************************************************************************)
EXTENDS Pushdown, JoinOrder

CONSTANTS Queries,
          MinInList             \* the number of arguments from which an IN becomes a join (6)

VARIABLES query,                \* the query, as it was bound
          phase,                \* the pass that was made last
          plan,                 \* the plan as it is now
          next,                 \* Binder: the next table index
          faults                \* the assertions the join order optimizer ran into

vars == <<query, phase, plan, next, faults>>

----------------------------------------------------------------------------
(* The rewriting of long IN lists into MARK joins.                         *)

InToJoin(e) == /\ e.op = "IN" /\ ~IsScalar(e.args[1]) /\ Len(e.args) >= MinInList
               /\ \A i \in 2..Len(e.args) : IsScalar(e.args[i])

WithVisited(s, e, args) == [args EXCEPT !.exprs = Append(s.exprs, [e EXCEPT !.args = args.exprs])]

RECURSIVE VisitReplace(_, _)
\* s: the expressions visited so far, the child of their operator, the next table index.
VisitReplace(s, e) ==
    LET values == [i \in 1..(Len(e.args) - 1) |-> Const(EvaluateScalar(e.args[i + 1]))]
        scan == [Node("CHUNK_GET", <<>>) EXCEPT !.index = s.next, !.exprs = values,
                                                !.tables = <<<<s.next, 1>>>>]
        marker == Col(<<s.next + 1, 0>>)
    IN IF InToJoin(e)
       THEN [exprs |-> Append(s.exprs, marker), next |-> s.next + 2,
             root |-> Join("MARK", <<Condition("=", e.args[1], marker, FALSE)>>, s.root,
                           SubqueryNode(scan, s.next + 1))]
       ELSE WithVisited(s, e, FoldLeft(VisitReplace, [s EXCEPT !.exprs = <<>>], e.args))

VisitedAll(p, exprs) == Result([p EXCEPT !.children = <<exprs.root>>, !.exprs = exprs.exprs], exprs.next)

VisitExpressions(p, groups) ==
    VisitedAll([p EXCEPT !.groups = groups.exprs],
               FoldLeft(VisitReplace, [groups EXCEPT !.exprs = <<>>], p.exprs))

\* Only the expressions of an operator with one child are visited.
Visited(p, n) ==
    IF Len(p.children) # 1 THEN Result(p, n)
    ELSE VisitExpressions(p, FoldLeft(VisitReplace, [exprs |-> <<>>, root |-> p.children[1], next |-> n],
                                      p.groups))

RECURSIVE RewriteInClauses(_, _)
VisitChildren(t) ==
    Parent(t.plan, FoldLeft(LAMBDA s, c : Child(s, RewriteInClauses(c, s.next)),
                            [children |-> <<>>, next |-> t.next], t.plan.children))

RewriteInClauses(p, n) == VisitChildren(Visited(p, n))

----------------------------------------------------------------------------

RECURSIVE Throws(_)
Throws(p) == p.op = "THROW" \/ \E i \in DOMAIN p.children : Throws(p.children[i])

Init ==
    /\ query \in Queries
    /\ phase = "bound"
    /\ plan = query.plan
    /\ next = query.next
    /\ faults = {}

Continue(from, to, result) ==
    /\ phase = from
    /\ plan' = result.plan
    /\ next' = result.next
    /\ phase' = IF Throws(result.plan) THEN "failed" ELSE to
    /\ UNCHANGED <<query, faults>>

GeneratePlan == Continue("bound", "planned", CreatePlan(plan, next, TRUE))

RewriteExpressions == Continue("planned", "rewritten", Result(Apply(plan), next))

PushFiltersDown == Continue("rewritten", "pushed", Rewrite(plan, <<>>, next))

\* down: the order in which the neighbours of a set are enumerated, those of a hash set.
OrderJoins(down) ==
    /\ phase = "pushed"
    /\ \E result \in {JoinOrderOptimize(plan, down)} :
          /\ plan' = result.plan
          /\ faults' = result.faults
          /\ phase' = IF result.faults = {} THEN "ordered" ELSE "failed"
    /\ UNCHANGED <<query, next>>

InClauses == Continue("ordered", "optimized", RewriteInClauses(plan, next))

Next ==
    \/ GeneratePlan
    \/ RewriteExpressions
    \/ PushFiltersDown
    \/ \E down \in BOOLEAN : OrderJoins(down)
    \/ InClauses

Spec == Init /\ [][Next]_vars

----------------------------------------------------------------------------
(* Correctness.                                                            *)

\* What a plan can be executed as: every column refers to one of the operator's input, and no
\* subquery is left.
Resolved == PlanResolves(plan, <<>>) /\ (phase = "bound" \/ ~PlanHasSubquery(plan))

\* From the plan generator on, every pass leaves a plan whose expressions refer only to columns
\* their operator's input has, and in which every subquery has become a join
\* (LogicalPlanGenerator::PlanSubqueries, FlattenDependentJoins, FilterPushdown,
\* JoinOrderOptimizer, InClauseRewriter).
Executable == phase # "failed" => Resolved

\* After every pass the plan has the result of the query: the same rows, each as often, whatever
\* was moved through an outer join, an aggregate, a set operation or a subquery.
MeaningKept ==
    phase # "failed" /\ Resolved => SameRows(Rows(plan, Top), Rows(query.plan, Top))

\* Every join order search ends with a plan for all relations; no plan in it has been replaced,
\* and every filter becomes a condition whose sides are sides of the join it is given to
\* (the assertions of JoinOrderOptimizer and QueryGraph).
JoinOrderSound == faults = {}
=============================================================================
