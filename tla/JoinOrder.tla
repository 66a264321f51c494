----------------------------- MODULE JoinOrder -----------------------------
(***************************************************************************)
(* The join order optimizer.  The relations of a tree of inner joins and   *)
(* cross products are numbered from left to right; the comparisons between *)
(* them are the edges of a hypergraph; a dynamic program over connected    *)
(* sets of relations finds the plan, a greedy algorithm takes over when it *)
(* has looked at too many pairs.                                           *)
(*                                                                         *)
(* A plan found for a set of relations is owned by the table of plans and  *)
(* other plans point to it: nodes carry an identity, so that a pointer to  *)
(* a node that has been replaced since can be told.  Where the code would  *)
(* run into an assertion (or, without assertions, into undefined           *)
(* behaviour), the name of the assertion is recorded as a fault.           *)
(***************************************************************************)
EXTENDS LogicalPlan, FiniteSetsExt

CONSTANT MaxPairs               \* how many pairs the dynamic program may look at (2000)

\* In the code an empty set is not a subset.
IsSubset(super, sub) == sub # {} /\ sub \subseteq super

Sorted(set) == SelectSeq([i \in 1..Max(set) |-> i], LAMBDA i : i \in set)

----------------------------------------------------------------------------
(* The query graph: its edges in the order they were made.                 *)

Neighbors(edges, left) == SelectSeq(edges, LAMBDA e : e.left = left)

\* Without a filter: the edge of a cross product.
CreateEdge(edges, left, right, filters) ==
    LET at == SelectInSeq(edges, LAMBDA e : e.left = left /\ e.right = right)
    IN IF at = 0 THEN Append(edges, [left |-> left, right |-> right, filters |-> filters])
       ELSE [edges EXCEPT ![at].filters = @ \o filters]

\* The edges of the runs of the sorted list of a set's relations.
RunsOf(s) ==
    [k \in 1..(Len(s) * Len(s)) |->
       LET j == ((k - 1) \div Len(s)) + 1
           i == ((k - 1) % Len(s)) + 1
       IN IF j <= i THEN ToSet(SubSeq(s, j, i)) ELSE {}]

EnumerateNeighbors(edges, node) ==
    FoldLeft(LAMBDA all, run : all \o Neighbors(edges, run), <<>>, RunsOf(Sorted(node)))

Enumerated(set, down) ==
    IF set = {} THEN <<>> ELSE IF down THEN Reverse(Sorted(set)) ELSE Sorted(set)

\* The smallest relation of every neighbour that is not excluded.
GetNeighbors(edges, node, exclusion_set, down) ==
    Enumerated({Min(e.right) : e \in {f \in ToSet(EnumerateNeighbors(edges, node)) : f.right # {}}} \ exclusion_set,
               down)

FirstIn(s) == IF s = <<>> THEN <<>> ELSE <<s[1]>>

\* <<>>: the two sets are not connected.
GetConnection(edges, node, other) ==
    FirstIn(SelectSeq(EnumerateNeighbors(edges, node), LAMBDA e : IsSubset(other, e.right)))

----------------------------------------------------------------------------
(* Plans.  s is the state of the search: the plans, the edges, the pairs   *)
(* looked at, the next identity, whether the search goes on, the order in  *)
(* which a set of neighbours is enumerated, and the faults.                *)

Leaf(id, set, cardinality) ==
    [id |-> id, set |-> set, filters |-> <<>>, inputs |-> <<>>, cardinality |-> cardinality, cost |-> 0]

JoinNode(id, set, filters, inputs) ==
    LET larger == inputs[1].cardinality
        expected == IF filters = <<>> THEN larger * inputs[2].cardinality ELSE larger
    IN [id |-> id, set |-> set, filters |-> filters, inputs |-> inputs,
        cardinality |-> expected, cost |-> expected]

CreateJoinTree(id, set, filters, left, right) ==
    JoinNode(id, set, filters,
             IF left.cardinality < right.cardinality THEN <<right, left>> ELSE <<left, right>>)

KeepCheaper(s, set, new) ==
    IF set \notin DOMAIN s.plans \/ new.cost < s.plans[set].cost
    THEN [s EXCEPT !.plans = [t \in DOMAIN @ \cup {set} |-> IF t = set THEN new ELSE @[t]], !.next = @ + 1]
    ELSE s

EmitPair(s, left, right, info) ==
    KeepCheaper(s, left \cup right,
                CreateJoinTree(s.next, left \cup right, info.filters, s.plans[left], s.plans[right]))

TryEmitPair(s, left, right, info) ==
    LET t == [s EXCEPT !.pairs = @ + 1]
    IN IF t.pairs >= MaxPairs THEN [t EXCEPT !.go = FALSE] ELSE EmitPair(t, left, right, info)

\* The pair is emitted if the sets are connected.
EmitIf(s, left, right, connection) ==
    IF connection = <<>> THEN s ELSE TryEmitPair(s, left, right, connection[1])

EmitConnected(s, left, right) == EmitIf(s, left, right, GetConnection(s.edges, left, right))

RECURSIVE EnumerateCmpRecursive(_, _, _, _)
CmpNeighbors(s, left, right, exclusion_set, neighbors) ==
    LET Emit(t, n) == IF t.go /\ right \cup {n} \in DOMAIN t.plans
                      THEN EmitConnected(t, left, right \cup {n}) ELSE t
        Recurse(t, n) == IF t.go THEN EnumerateCmpRecursive(t, left, right \cup {n}, exclusion_set \cup {n})
                         ELSE t
    IN FoldLeft(Recurse, FoldLeft(Emit, s, neighbors), neighbors)

EnumerateCmpRecursive(s, left, right, exclusion_set) ==
    CmpNeighbors(s, left, right, exclusion_set, GetNeighbors(s.edges, right, exclusion_set, s.down))

EmitCSG(s, node) ==
    LET exclusion_set == 1..(Min(node) - 1) \cup node
        Enlarge(u, n) == IF u.go THEN EnumerateCmpRecursive(u, node, {n}, exclusion_set) ELSE u
        Step(t, n) == IF ~t.go THEN t ELSE Enlarge(EmitConnected(t, node, {n}), n)
    IN FoldLeft(Step, s, GetNeighbors(s.edges, node, exclusion_set, FALSE))

RECURSIVE EnumerateCSGRecursive(_, _, _)
CSGNeighbors(s, node, exclusion_set, neighbors) ==
    LET Emit(t, n) == IF t.go /\ node \cup {n} \in DOMAIN t.plans THEN EmitCSG(t, node \cup {n}) ELSE t
        Recurse(t, n) == IF t.go THEN EnumerateCSGRecursive(t, node \cup {n}, exclusion_set \cup {n}) ELSE t
    IN FoldLeft(Recurse, FoldLeft(Emit, s, neighbors), neighbors)

EnumerateCSGRecursive(s, node, exclusion_set) ==
    CSGNeighbors(s, node, exclusion_set, GetNeighbors(s.edges, node, exclusion_set, s.down))

SolveJoinOrderExactly(s, n) ==
    LET Enlarge(u, i) == IF u.go THEN EnumerateCSGRecursive(u, {i}, 1..(i - 1)) ELSE u
        Start(t, i) == IF ~t.go THEN t ELSE Enlarge(EmitCSG(t, {i}), i)
    IN FoldLeft(Start, s, [k \in 1..n |-> n - k + 1])

Cheaper(best, p, node) == IF best = <<>> \/ node.cost < best[2].cost THEN <<p, node>> ELSE best

Consider(found, p, set, t) == [s |-> t, best |-> Cheaper(found.best, p, t.plans[set])]

LookAt(found, p, left, right, connection) ==
    IF connection = <<>> THEN found
    ELSE Consider(found, p, left \cup right, EmitPair(found.s, left, right, connection[1]))

\* The plans of two of the sets, joined when they are connected, are looked at for the
\* cheapest; best is <<>> or the pair and the plan it makes.
GreedyPairs(s, T) ==
    LET n == Len(T)
        pairs == SelectSeq([k \in 1..(n * n) |-> <<((k - 1) \div n) + 1, ((k - 1) % n) + 1>>],
                           LAMBDA p : p[1] < p[2])
        Look(found, p) ==
            LookAt(found, p, T[p[1]], T[p[2]], GetConnection(found.s.edges, T[p[1]], T[p[2]]))
    IN FoldLeft(Look, [s |-> s, best |-> <<>>], pairs)

\* The sets a cross product is made of: a smaller one takes the first place, and what was
\* there is forgotten.
SmallestTwo(s, T) ==
    LET Smaller(held, i) == held = 0 \/ s.plans[T[held]].cardinality > s.plans[T[i]].cardinality
        Place(held, i) == IF Smaller(held[1], i) THEN <<i, held[2]>>
                          ELSE IF Smaller(held[2], i) THEN <<held[1], i>> ELSE held
    IN FoldLeft(Place, <<0, 0>>, [i \in DOMAIN T |-> i])

\* The sets once the pair has been joined.
Without(T, pair) ==
    LET rest == SelectSeq([k \in DOMAIN T |-> k], LAMBDA k : k \notin ToSet(pair))
    IN [k \in DOMAIN rest |-> T[rest[k]]] \o <<T[pair[1]] \cup T[pair[2]]>>

RECURSIVE SolveJoinOrderApproximately(_, _)
EmitCross(s, left, right) == EmitPair(s, left, right, GetConnection(s.edges, left, right)[1])

CrossSmallest(s, T, two) ==
    IF two[2] = 0 THEN [s EXCEPT !.faults = @ \cup {"smallest plans"}]
    ELSE SolveJoinOrderApproximately(
           EmitCross([s EXCEPT !.edges = CreateEdge(@, T[two[1]], T[two[2]], <<>>)], T[two[1]], T[two[2]]),
           Without(T, two))

JoinBest(looked, T) ==
    IF looked.best # <<>> THEN SolveJoinOrderApproximately(looked.s, Without(T, looked.best[1]))
    ELSE CrossSmallest(looked.s, T, SmallestTwo(looked.s, T))

SolveJoinOrderApproximately(s, T) == IF Len(T) = 1 THEN s ELSE JoinBest(GreedyPairs(s, T), T)

UnlessSolved(exact, n) ==
    IF exact.go THEN exact ELSE SolveJoinOrderApproximately(exact, [i \in 1..n |-> {i}])

SolveJoinOrder(s, n) == UnlessSolved(SolveJoinOrderExactly([s EXCEPT !.go = TRUE], n), n)

GenerateCrossProducts(edges, n) ==
    LET ordered == SelectSeq([k \in 1..(n * n) |-> <<((k - 1) \div n) + 1, ((k - 1) % n) + 1>>],
                             LAMBDA p : p[1] # p[2])
        Both(es, p) == CreateEdge(CreateEdge(es, {p[1]}, {p[2]}, <<>>), {p[2]}, {p[1]}, <<>>)
    IN FoldLeft(Both, edges, ordered)

\* A plan that points to a plan that has since been replaced by a cheaper one.
RECURSIVE Dangling(_, _)
Dangling(plans, node) ==
    \E i \in DOMAIN node.inputs : \/ plans[node.inputs[i].set].id # node.inputs[i].id
                                  \/ Dangling(plans, node.inputs[i])

\* What went wrong in a search that ended.
Faulty(s, total) ==
    s.faults
      \cup (IF total \in DOMAIN s.plans THEN {} ELSE {"final plan"})
      \cup (IF total \in DOMAIN s.plans /\ Dangling(s.plans, s.plans[total]) THEN {"freed plan"} ELSE {})
      \cup (IF \E e \in ToSet(s.edges) : {} \in {e.left, e.right} THEN {"empty side of an edge"} ELSE {})

----------------------------------------------------------------------------
(* From plans back to operators.  A filter of the tree is an expression,   *)
(* the relations it refers to, and those of its two sides if it is a       *)
(* comparison with columns on both; left counts the filters not yet used.  *)

PushFilter(p, e) ==
    IF p.op = "FILTER" THEN [p EXCEPT !.exprs = Append(@, e)] ELSE FilterNode(<<e>>, p)

\* A comparison as the condition of a join.
ConditionOf(e, invert) ==
    IF invert THEN Condition(FlipComparisionExpression(e.op), e.args[2], e.args[1], FALSE)
    ELSE Condition(e.op, e.args[1], e.args[2], FALSE)

Splits(f, l, r) == IsSubset(l, f.left) /\ IsSubset(r, f.right)

\* A filter that refers to a subset of the relations of an operator, and has not been used
\* below it, is applied there.
PushRemaining(filters, g, l, r) ==
    LET Push(h, i) ==
          LET f == filters[i]
              used == [h EXCEPT !.left = @ \ {i}]
              invert == ~Splits(f, l, r)
              below == IF h.op.op = "FILTER" THEN h.op.children[1] ELSE h.op
              joined == [below EXCEPT !.conds = Append(@, ConditionOf(f.expr, invert))]
          IN IF i \notin h.left \/ ~IsSubset(h.set, f.set) THEN h
             ELSE IF l = {} \/ f.left = {} \/ ~(Splits(f, l, r) \/ Splits(f, r, l))
                  THEN [used EXCEPT !.op = PushFilter(@, f.expr)]
             ELSE IF below.op # "COMPARISON_JOIN"
                  THEN [used EXCEPT !.faults = @ \cup {"comparison join"}]
             ELSE [used EXCEPT !.op = IF @.op = "FILTER" THEN [@ EXCEPT !.children = <<joined>>] ELSE joined]
    IN FoldLeft(Push, g, [i \in DOMAIN filters |-> i])

JoinGenerated(filters, node, l, r) ==
    LET conds == [k \in DOMAIN node.filters |->
                    LET f == filters[node.filters[k]]
                    IN ConditionOf(f.expr, ~IsSubset(l.set, f.left))]
        Wrong(i) == \/ i \notin r.left
                    \/ ~(Splits(filters[i], l.set, r.set) \/ Splits(filters[i], r.set, l.set))
        wrong == IF \E i \in ToSet(node.filters) : Wrong(i) THEN {"sides of the condition"} ELSE {}
        op == IF node.filters = <<>> THEN Cross(l.op, r.op) ELSE Join("INNER", conds, l.op, r.op)
    IN PushRemaining(filters, [set |-> node.set, op |-> op, left |-> r.left \ ToSet(node.filters),
                               faults |-> r.faults \cup wrong], l.set, r.set)

RECURSIVE GenerateJoins(_, _, _, _, _)
GenerateRight(relations, filters, node, l) ==
    JoinGenerated(filters, node, l, GenerateJoins(relations, filters, l.left, l.faults, node.inputs[2]))

GenerateJoins(relations, filters, left, faults, node) ==
    IF node.inputs = <<>>
    THEN PushRemaining(filters, [set |-> node.set, op |-> relations[Min(node.set)], left |-> left,
                                 faults |-> faults], {}, {})
    ELSE GenerateRight(relations, filters, node, GenerateJoins(relations, filters, left, faults, node.inputs[1]))
----------------------------------------------------------------------------
(* The operators around the joins.                                         *)

Passed(p) == Len(p.children) = 1 /\ p.op \notin {"SUBQUERY", "PROJECTION"}

\* The filters above the joins or above a relation are taken out of their operators.
RECURSIVE Emptied(_)
Emptied(p) ==
    IF ~Passed(p) THEN p
    ELSE [p EXCEPT !.exprs = IF p.op = "FILTER" THEN <<>> ELSE @, !.children = <<Emptied(@[1])>>]

\* What is put at the place of the topmost join or cross product.
RECURSIVE Placed(_, _)
Placed(p, tree) ==
    IF p.op \in {"CROSS_PRODUCT", "COMPARISON_JOIN"} THEN tree
    ELSE [p EXCEPT !.children = <<Placed(@[1], tree)>>]

\* The relations an expression refers to; a table that belongs to none counts as the first.
ExtractBindings(relations, e) ==
    {LET of == SelectInSeq(relations, LAMBDA r : t \in r.tables) IN IF of = 0 THEN 1 ELSE of
       : t \in ExpressionBindings(e)}

FilterInfo(relations, e) ==
    LET Side(i) == IF e.op \in Comparisons THEN ExtractBindings(relations, e.args[i]) ELSE {}
        both == Side(1) # {} /\ Side(2) # {}
    IN [expr |-> e, set |-> ExtractBindings(relations, e),
        left |-> IF both THEN Side(1) ELSE {}, right |-> IF both THEN Side(2) ELSE {}]

\* Mutant of AddEdges: the edges are made in one direction only.
AddEdgesOneWay(edges, f, i) ==
    IF f.left = f.right THEN edges
    ELSE IF f.left \cap f.right = {} THEN CreateEdge(edges, f.left, f.right, <<i>>)
    ELSE CreateEdge(CreateEdge(edges, f.left, f.right \ f.left, <<i>>), f.left \ f.right, f.right, <<i>>)

\* The edges the i-th filter adds to the graph.
AddEdges(edges, f, i) ==
    LET Both(es, l, r) == CreateEdge(CreateEdge(es, l, r, <<i>>), r, l, <<i>>)
    IN IF f.left = f.right THEN edges
       ELSE IF f.left \cap f.right = {} THEN Both(edges, f.left, f.right)
       ELSE Both(Both(edges, f.left, f.right \ f.left), f.left \ f.right, f.right)

\* The plan with the tree of joins in it, and the filters the tree did not use above that.
RewritePlan(p, filters, tree) ==
    LET Rest(op, i) == IF i \in tree.left THEN PushFilter(op, filters[i].expr) ELSE op
    IN [plan |-> Placed(Emptied(p), FoldLeft(Rest, tree.op, [i \in DOMAIN filters |-> i])),
        faults |-> tree.faults]

UnlessFaulty(p, relations, filters, plans, faults) ==
    IF faults # {} THEN [plan |-> p, faults |-> faults]
    ELSE RewritePlan(p, filters, GenerateJoins([i \in DOMAIN relations |-> Emptied(relations[i].op)], filters,
                                               DOMAIN filters, faults, plans[DOMAIN relations]))

Finished(p, relations, filters, solved) ==
    UnlessFaulty(p, relations, filters, solved.plans, Faulty(solved, DOMAIN relations))

WithCrossProducts(first, n) ==
    IF 1..n \in DOMAIN first.plans THEN first
    ELSE SolveJoinOrder([first EXCEPT !.edges = GenerateCrossProducts(@, n)], n)

SearchPlan(p, relations, filters, down) ==
    LET n == Len(relations)
        edges == FoldLeft(LAMBDA es, i : AddEdges(es, filters[i], i), <<>>, [i \in DOMAIN filters |-> i])
        leaves == [set \in {{i} : i \in 1..n} |->
                     Leaf(Min(set), set, EstimateCardinality(relations[Min(set)].op))]
    IN Finished(p, relations, filters,
                WithCrossProducts(SolveJoinOrder([plans |-> leaves, edges |-> edges, pairs |-> 0, next |-> n + 1,
                                                  go |-> TRUE, down |-> down, faults |-> {}], n), n))

\* The relations of a plan reordered: relations are operators with the tables they bind.
Reordered(p, relations, exprs, down) ==
    SearchPlan(p, relations, [i \in DOMAIN exprs |-> FilterInfo(relations, exprs[i])], down)

\* The relations and the filters found in a tree, and the tree itself: the operators that are
\* not reordered have been optimized separately on the way.
RECURSIVE ExtractJoinRelations(_, _), JoinOrderOptimize(_, _)
OneRelation(plan, tables, faults) ==
    [ok |-> TRUE, plan |-> plan, relations |-> <<[op |-> plan, tables |-> tables]>>,
     exprs |-> <<>>, faults |-> faults]

NoRelations(plan, faults) ==
    [ok |-> FALSE, plan |-> plan, relations |-> <<>>, exprs |-> <<>>, faults |-> faults]

\* The relations of the child of an operator that does not divide them.
ThroughOperator(p, x) ==
    LET q == [p EXCEPT !.children = <<x.plan>>]
    IN [x EXCEPT !.plan = q,
                 !.exprs = (IF p.op = "FILTER" THEN p.exprs ELSE <<>>) \o @,
                 !.relations = IF Len(@) = 1 /\ @[1].op = x.plan THEN <<[@[1] EXCEPT !.op = q]>> ELSE @]

BothSides(p, l, r) ==
    LET Compared(c) == Expr(c.cmp, <<c.left, c.right>>)
    IN [ok |-> l.ok /\ r.ok, plan |-> [p EXCEPT !.children = <<l.plan, r.plan>>],
        relations |-> l.relations \o r.relations,
        exprs |-> [i \in DOMAIN p.conds |-> Compared(p.conds[i])] \o l.exprs \o r.exprs,
        faults |-> l.faults \cup r.faults]

\* An operator whose children have been optimized separately: one relation, or none.
Separate(p, plan, faults) ==
    CASE Passed(p) -> NoRelations(plan, faults)
      [] p.op \in {"SUBQUERY", "PROJECTION"} -> OneRelation(plan, {p.index}, faults)
      [] OTHER -> OneRelation(plan, TableReferences(p), faults)

SeparateChildren(p, inner) ==
    Separate(p, [p EXCEPT !.children = [i \in DOMAIN @ |-> inner[i].plan]],
             UNION {inner[i].faults : i \in DOMAIN inner})

ExtractJoinRelations(p, down) ==
    CASE Passed(p) /\ p.op \notin {"AGGREGATE", "WINDOW"} ->
           ThroughOperator(p, ExtractJoinRelations(p.children[1], down))
      [] p.op = "CROSS_PRODUCT" \/ (p.op = "COMPARISON_JOIN" /\ p.join = "INNER") ->
           BothSides(p, ExtractJoinRelations(p.children[1], down), ExtractJoinRelations(p.children[2], down))
      [] p.op = "GET" -> OneRelation(p, {p.index}, {})
      [] \/ p.op \in SetOps \cup {"DELIM_JOIN", "ANY_JOIN", "SUBQUERY", "PROJECTION", "AGGREGATE", "WINDOW"}
         \/ p.op = "COMPARISON_JOIN" /\ p.join # "INNER" ->
           SeparateChildren(p, [i \in DOMAIN p.children |-> JoinOrderOptimize(p.children[i], down)])
      [] OTHER -> NoRelations(p, {})

ReorderExtracted(x, down) ==
    IF ~x.ok \/ Len(x.relations) <= 1 \/ x.faults # {} THEN [plan |-> x.plan, faults |-> x.faults]
    ELSE Reordered(x.plan, x.relations, x.exprs, down)

JoinOrderOptimize(p, down) == ReorderExtracted(ExtractJoinRelations(p, down), down)
=============================================================================
