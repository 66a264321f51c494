---------------------------- MODULE MCOptimizer ----------------------------
(***************************************************************************)
(* Families of small queries for Optimizer.  Every query projects some     *)
(* columns of a FROM and a WHERE; the tables hold NULLs, duplicates, and   *)
(* one of them nothing.                                                    *)
(***************************************************************************)
EXTENDS Optimizer

N == <<>>

MCTables ==
    [a |-> << <<<<1>>, <<2>>>>, <<N, <<1>>>>, <<<<2>>, N>> >>,
     b |-> << <<<<1>>, <<1>>>>, <<<<2>>, N>> >>,
     c |-> << <<N, <<2>>>>, <<<<1>>, <<1>>>>, <<<<1>>, <<2>>>> >>,
     g |-> [i \in 1..4 |-> <<<<i>>, <<i>>>>],
     e |-> << >>]

Query(p) == [plan |-> p, next |-> 30]

T(name, index) == Get(name, index, 2)
X(i) == Col(<<i, 0>>)
Y(i) == Col(<<i, 1>>)
K(n) == Const(<<n>>)
Cmp(op, l, r) == Expr(op, <<l, r>>)
And(l, r) == Expr("AND", <<l, r>>)
Or(l, r) == Expr("OR", <<l, r>>)
Not(e) == Expr("NOT", <<e>>)
IsNull(e) == Expr("IS NULL", <<e>>)
IsNotNull(e) == Expr("IS NOT NULL", <<e>>)

\* SELECT es FROM p WHERE w
Select(es, w, p) == Query(Projection(20, es, FilterNode(<<w>>, p)))

----------------------------------------------------------------------------
(* Filters of one table.                                                   *)

Terms == {X(1), Cmp("+", X(1), K(1)), Cmp("-", K(1), X(1)), Cmp("-", X(1), K(1)),
          Cmp("*", X(1), K(-1)), Cmp("*", K(2), X(1))}

Atoms == {Cmp(op, t, c) : op \in Comparisons, t \in Terms, c \in {K(0), K(1), K(2), Const(N)}}
           \cup {Cmp(op, c, t) : op \in {"<", ">="}, t \in Terms, c \in {K(1)}}

Small == {Cmp(op, X(1), K(1)) : op \in Comparisons}
           \cup {Cmp("<", X(1), K(2)), Cmp(">=", X(1), K(2)), Cmp("=", X(1), Y(1)), Cmp("=", Y(1), K(2)),
                 Cmp("<", Y(1), K(2)), Const(N), K(0), K(1)}

Folded == {Expr("CASE", <<Cmp("=", K(1), k), Cmp("=", X(1), K(1)), Cmp("=", X(1), K(2))>>) :
             k \in {K(1), K(2), Const(N)}}

FilterQueries ==
    {Select(<<X(1), Y(1)>>, w, T("a", 1)) : w \in Atoms \cup Folded}
      \cup {Select(<<X(1)>>, Expr(op, <<l, r>>), T("a", 1)) : op \in {"AND", "OR"}, l \in Small, r \in Small}

\* (s AND l) OR (r AND s): the shared operand is taken out.
SharedQueries ==
    LET Atom == {Cmp("=", X(1), K(1)), Cmp("<", Y(1), K(2)), Cmp("=", X(1), Y(1)), IsNull(X(1)), Const(N)}
    IN {Select(<<X(1)>>, Or(And(s, l), And(r, s)), T("a", 1)) :
          s \in Atom \ {Const(N)}, l \in Atom, r \in Atom}

----------------------------------------------------------------------------
(* Outer joins.                                                            *)

OnBoth == {Cmp("=", X(1), X(2)), Cmp("<", Y(1), X(2)), Cmp("<>", Y(2), Y(1)), Not(Cmp("=", X(1), Y(2)))}
OnRight == {Cmp("=", Y(2), K(1)), IsNull(Y(2))}
OnLeft == {Cmp("=", Y(1), K(2))}

Ons == OnBoth \cup OnRight \cup OnLeft
         \cup {And(l, r) : l \in OnBoth, r \in {Cmp("=", X(1), X(2))} \cup OnRight}
         \cup {Or(l, r) : l \in {Cmp("=", X(1), X(2))}, r \in OnRight \cup OnLeft}
         \cup {And(l, r) : l \in OnLeft, r \in OnRight}

Wheres == {Cmp("=", X(1), K(1)), Cmp(">", X(2), K(1)), IsNull(X(2)), IsNotNull(Y(2)), Cmp("=", X(1), Y(2)),
           Or(IsNull(X(2)), Cmp("=", X(1), K(2))), Or(Cmp("=", X(2), K(1)), Cmp("=", Y(2), K(1))),
           And(Cmp("=", X(1), K(1)), IsNull(Y(2))), And(Cmp("=", X(2), K(1)), Cmp("<", X(1), K(2))), K(1)}

JoinRef(type, on, l, r) == [Node("JOINREF", <<l, r>>) EXCEPT !.join = type, !.exprs = <<on>>]

OuterQueries ==
    {Select(<<X(1), Y(1), X(2), Y(2)>>, w, JoinRef("LEFT", on, T("a", 1), T(r, 2)))
       : w \in Wheres, on \in Ons, r \in {"b", "e"}}
      \cup {Select(<<X(1), Y(1), X(2), Y(2)>>, w, JoinRef("INNER", on, T("a", 1), T("b", 2)))
               : w \in Wheres, on \in Ons}

----------------------------------------------------------------------------
(* Subqueries in a WHERE and in a SELECT.                                  *)

Sub(op, p) == [Expr(op, <<>>) EXCEPT !.sub = <<p>>]
AnyOf(cmp, e, p) == [Expr("ANY", <<e>>) EXCEPT !.sub = <<p>>, !.cmp = cmp]

OX == Outer(<<1, 0>>)
OY == Outer(<<1, 1>>)

SubWheres == {K(1), Cmp("=", X(2), OX), Cmp("<", X(2), OY), And(Cmp("=", X(2), OX), Cmp("=", Y(2), K(1))),
              Or(Cmp("=", X(2), OX), Cmp("=", Y(2), OY)), Cmp("=", X(2), K(1)), IsNull(OX),
              And(Cmp("=", X(2), OX), Cmp("=", Y(2), OY))}

Inner(e, w, r) == Projection(10, <<e>>, FilterNode(<<w>>, T(r, 2)))

Aggregate(groups, aggs, child) ==
    [Node("AGGREGATE", <<child>>) EXCEPT !.index = 11, !.index2 = 12, !.groups = groups, !.exprs = aggs]

Agg(op, e) == Expr(op, <<e>>)

\* SELECT agg FROM r WHERE w
InnerAggregate(agg, e, w, r) ==
    Projection(10, <<e>>, Aggregate(<<>>, <<agg>>, FilterNode(<<w>>, T(r, 2))))

Scalars == {Sub("SCALAR", InnerAggregate(agg, e, w, r)) :
              agg \in {CountStar, Agg("SUM", Y(2)), Agg("COUNT", X(2)), Agg("SUM", OY)},
              e \in {Col(<<12, 0>>), Cmp("+", Col(<<12, 0>>), K(1)), Cmp("+", Col(<<12, 0>>), OX)},
              w \in SubWheres, r \in {"b", "e"}}

Truths == {Sub("EXISTS", Inner(X(2), w, r)) : w \in SubWheres, r \in {"b", "c", "e"}}
            \cup {AnyOf(cmp, X(1), Inner(e, w, r)) : cmp \in {"=", ">"}, e \in {X(2), Cmp("+", X(2), OY)},
                                                  w \in SubWheres, r \in {"c", "e"}}

SubqueryQueries ==
    {Select(<<X(1), Y(1)>>, w, T("a", 1)) : w \in UNION {{t, Not(t), Or(t, Cmp("=", X(1), K(2)))} : t \in Truths}}
      \cup {Select(<<X(1), t>>, K(1), T("a", 1)) : t \in Truths}

ScalarQueries ==
    {Select(<<X(1), Y(1)>>, Cmp(">=", t, X(1)), T("a", 1)) : t \in Scalars}
      \cup {Select(<<X(1), t>>, Cmp("=", X(1), K(2)), T("a", 1)) : t \in Scalars}

----------------------------------------------------------------------------
(* Aggregates, subqueries in FROM, set operations.                         *)

\* SELECT x, COUNT( * ), SUM(y) FROM t WHERE w GROUP BY x HAVING h
Havings == {Cmp("=", Col(<<11, 0>>), K(1)), Cmp(">", Col(<<12, 0>>), K(1)), IsNull(Col(<<11, 0>>)),
            And(Cmp(">", Col(<<12, 1>>), K(1)), Cmp("<", Col(<<11, 0>>), K(2))),
            Or(Cmp(">", Col(<<12, 0>>), K(1)), Cmp("=", Col(<<11, 0>>), K(2))),
            Cmp("=", Col(<<12, 0>>), Col(<<11, 0>>)), K(0)}

Grouped(group, w, t) ==
    Aggregate(<<group>>, <<CountStar, Agg("SUM", Y(1))>>, FilterNode(<<w>>, T(t, 1)))

AggregateQueries ==
    {Select(<<Col(<<11, 0>>), Col(<<12, 0>>), Col(<<12, 1>>)>>, h, Grouped(g, w, t))
       : h \in Havings, g \in {X(1), Cmp("+", X(1), Y(1))},
         w \in {K(1), Cmp("=", Y(1), K(2)), Cmp("<", X(1), K(2))}, t \in {"a", "c", "e"}}
    \cup
    {Select(<<Col(<<12, 0>>)>>, h, Aggregate(<<>>, <<CountStar, Agg("SUM", Y(1))>>, FilterNode(<<w>>, T(t, 1))))
       : h \in {Cmp(">", Col(<<12, 0>>), K(0)), Cmp("=", Col(<<12, 0>>), K(0)), K(0)},
         w \in {K(1), Cmp("=", Y(1), K(2)), K(0)}, t \in {"a", "e"}}

From(p) == SubqueryNode(p, 5)
FX == Col(<<5, 0>>)
FY == Col(<<5, 1>>)
FromWheres == {Cmp("=", FX, K(1)), Cmp("<", FY, K(2)), Cmp("=", FX, FY), IsNull(FX),
               And(Cmp("=", FX, K(1)), Cmp("=", FX, FY)), Or(Cmp("=", FX, K(2)), IsNull(FY)), K(0)}

SetOp(op, l, r) == [Node(op, <<l, r>>) EXCEPT !.index = 6, !.count = 2]

Branch(index, e, w, t, i) == Projection(index, <<X(i), e>>, FilterNode(<<w>>, T(t, i)))

FromQueries ==
    {Select(<<FX, FY>>, w, From(p)) : w \in FromWheres, p \in
       {Branch(7, e, v, t, 1) : e \in {Y(1), Cmp("+", X(1), K(1)), K(2)},
                                v \in {K(1), Cmp("=", Y(1), K(2))}, t \in {"a", "c"}}
       \cup {Node("DISTINCT", <<Branch(7, Y(1), K(1), "c", 1)>>)}
       \cup {[Node("LIMIT", <<Branch(7, Y(1), K(1), "a", 1)>>) EXCEPT !.count = n] : n \in 0..2}
       \cup {SetOp(op, Branch(7, e, K(1), l, 1), Branch(8, Y(2), v, r, 2)) :
               op \in SetOps, e \in {Y(1), K(1)}, l \in {"a", "c"}, r \in {"a", "b"},
               v \in {K(1), Cmp("=", X(2), K(1))}}
       \cup {Projection(7, <<Col(<<11, 0>>), Col(<<12, 0>>)>>, Grouped(X(1), K(1), "c"))}}

----------------------------------------------------------------------------
(* Joins of several relations.                                             *)

Crossed(names) ==
    FoldLeft(LAMBDA p, i : Cross(p, T(names[i], i)), T(names[1], 1), [k \in 1..(Len(names) - 1) |-> k + 1])

Sum(l, r) == Cmp("+", l, r)

Heads(n) == [k \in 1..n |-> X(k)]

Shapes3 == {And(l, r) :
              l \in {Cmp("=", X(1), X(2)), Cmp("=", X(1), X(3)), Cmp("<", X(2), X(3)), Cmp("=", X(1), K(1))},
              r \in {Cmp("=", Y(1), Y(2)), Cmp("=", Y(2), Y(3)), Cmp("=", Y(1), K(1)),
                     Cmp("=", Y(1), Sum(X(2), Y(3))), Cmp("<", Y(3), Sum(X(1), X(2))),
                     Or(IsNull(Y(1)), Cmp("=", Y(2), X(3)))}}

Shapes4 == {And(And(p, q), r) :
              p \in {Cmp("=", X(1), X(2)), Cmp("=", X(2), X(4))},
              q \in {Cmp("=", Y(2), Y(3)), Cmp("<", Y(1), Y(4))},
              r \in {Cmp("=", X(3), Y(4)), Cmp("=", X(3), Y(1)), Cmp("=", Y(1), Sum(X(3), Y(4))),
                     Cmp("<>", Sum(X(1), X(2)), Sum(X(3), X(4)))}}

Connected3 == {And(Cmp(op, X(1), X(2)), Cmp("=", l, Y(3))) : op \in {"=", "<"}, l \in {Y(1), Y(2)}}

OrderQueries ==
    {Select(Heads(3), w, Crossed(names)) : w \in Shapes3, names \in [1..3 -> {"a", "b"}]}
      \cup {Select(Heads(3), w, Crossed(names)) : w \in Connected3, names \in [1..3 -> {"b", "e"}]}
      \cup {Select(Heads(4), w, Crossed(names)) :
               w \in Shapes4, names \in {<<"a", "b", "b", "a">>, <<"b", "a", "b", "b">>}}

\* Joins of joins, and subqueries over joins.
JoinsOfJoins ==
    UNION {{Cross(JoinRef("LEFT", on, T("a", 1), T("b", 2)), T("c", 3)),
            Cross(T("c", 3), JoinRef("LEFT", on, T("a", 1), T("b", 2))),
            JoinRef("LEFT", on, Cross(T("a", 1), T("c", 3)), T("b", 2)),
            JoinRef("LEFT", on, T("a", 1), Cross(T("b", 2), T("c", 3))),
            JoinRef("INNER", on, JoinRef("LEFT", Cmp("=", Y(1), X(3)), T("a", 1), T("c", 3)), T("b", 2))} :
           on \in OnBoth}

MixedWheres == {Cmp("=", X(2), X(3)), Cmp("=", X(1), Y(3)), IsNull(X(2)),
                And(Cmp("=", X(1), X(3)), IsNotNull(Y(2)))}

ExistsInJoin ==
    {Sub("EXISTS", Projection(10, <<X(2)>>, FilterNode(<<v>>, p))) :
       v \in {Cmp("=", X(2), OX), And(Cmp("=", X(2), OX), Cmp("=", X(3), Y(2))),
              And(Cmp("=", X(2), OX), Cmp("=", Y(3), OY))},
       p \in {Cross(T("b", 2), T("c", 3)), JoinRef("LEFT", Cmp("=", X(2), X(3)), T("b", 2), T("c", 3))}}

\* The last query has a subquery in the ON of an outer join, and is refused.
MixedQueries ==
    {Select(Heads(3), w, p) : w \in MixedWheres, p \in JoinsOfJoins}
      \cup {Select(<<X(1)>>, w, T("a", 1)) : w \in UNION {{t, Not(t)} : t \in ExistsInJoin}}
      \cup {Select(<<X(1)>>, K(1), JoinRef("LEFT", Or(Cmp("=", X(1), X(2)), Sub("EXISTS", Projection(10, <<X(3)>>, T("b", 3)))),
                                           T("a", 1), T("b", 2)))}

Lists == {<<K(1), K(3)>>, <<K(1), K(3), K(1)>>, <<K(1), Const(N), K(5)>>, <<Sum(K(1), K(1)), K(4), K(5), K(6)>>,
          <<K(1), X(1), K(5)>>}

InQueries ==
    LET Ins == {Expr("IN", <<e>> \o list) : e \in {X(1), Sum(X(1), Y(1)), K(1)}, list \in Lists}
    IN {Select(<<X(1), Y(1)>>, w, T("a", 1)) :
          w \in UNION {{i, Not(i), Or(i, Cmp("=", Y(1), K(1))), And(i, Cmp("=", Y(1), K(2)))} : i \in Ins}}

MCQueries == FilterQueries \cup SharedQueries \cup OuterQueries \cup SubqueryQueries \cup ScalarQueries
               \cup AggregateQueries \cup FromQueries \cup OrderQueries \cup MixedQueries \cup InQueries

----------------------------------------------------------------------------
(* Queries whose plans go wrong, in place of MCQueries.  The first four    *)
(* violate JoinOrderSound, MarkerShown and OnSubquery Executable, the      *)
(* others MeaningKept.                                                     *)

\* A comparison with a column of one relation on both sides.
SharedSide ==
    {Select(<<X(1), X(2)>>, And(Cmp("=", Y(1), Y(2)), Cmp("=", X(1), Sum(Y(1), X(2)))), Crossed(<<"a", "b">>))}

\* A cross product with an empty table costs nothing.
EmptyRelation == {Select(Heads(3), Cmp("=", Y(2), Y(3)), Crossed(<<"a", "b", "e">>))}

\* A better plan replaces one that is part of others (MaxPairs = 2000).
FreedPlan ==
    {Select(Heads(5), And(And(Cmp("=", X(2), X(3)), Cmp("=", Y(3), X(5))), Cmp("=", Y(4), Y(5))),
            Crossed(<<"e", "g", "e", "a", "b">>))}

\* Too many pairs (MaxPairs = 2), and a relation that nothing connects and that is
\* larger than the rest.
LargeBeforeSmall ==
    {Select(Heads(4), And(Cmp("=", X(2), X(3)), Cmp("=", Y(3), X(4))), Crossed(<<"g", "b", "b", "b">>))}

\* A marker that is selected and filtered on.
MarkerShown ==
    {Select(<<FX>>, FX, From(Projection(7, <<AnyOf("=", X(1), Inner(X(2), K(1), "b"))>>, T("a", 1))))}

InnerCount == Projection(10, <<Col(<<12, 0>>)>>, Aggregate(<<>>, <<CountStar>>, T("b", 3)))

\* A condition of an outer join on its left side only, here with a subquery.
OnSubquery ==
    {Select(<<X(1), X(2)>>, K(1),
            JoinRef("LEFT", And(Cmp("=", X(1), X(2)), Cmp("=", X(1), Sub("SCALAR", InnerCount))),
                    T("a", 1), T("b", 2)))}

\* A condition of an outer join on its left side, beside another.
LeftSide ==
    {Select(<<X(1), X(2)>>, K(1),
            JoinRef("LEFT", And(Cmp("=", X(1), X(2)), Cmp("=", Y(1), K(1))), T("a", 1), T("b", 2)))}

\* x = x, which does not hold for NULL.
SelfEqual == {Select(<<X(1)>>, Cmp("=", X(1), X(1)), T("a", 1))}

\* s OR (s AND l).
Absorbed ==
    LET s == Cmp("=", X(1), K(2))
    IN {Select(<<X(1)>>, Or(s, And(s, Cmp("=", Y(1), K(1)))), T("a", 1))}

\* A sum that overflows.
Overflow == {Select(<<X(1)>>, Cmp(">", Sum(X(1), K(127)), K(0)), T("a", 1))}

\* A long IN on the columns of a subquery beside a table.
MarkedLimit ==
    {Select(<<FX, X(2), Y(2)>>, Expr("IN", <<FX, K(1), K(2), K(3)>>),
            Cross(From([Node("LIMIT", <<Branch(7, Y(1), K(1), "a", 1)>>) EXCEPT !.count = 2]), T("b", 2)))}

\* A comparison with NULL, and one with a value.
NullBound ==
    {Select(<<FX>>, And(Cmp(">", FX, FY), Cmp(">", FX, K(1))),
            From(Projection(7, <<X(1), Const(N)>>, T("a", 1))))}

\* LIMIT in a correlated subquery.
InnerLimit ==
    LET Limited == [Node("LIMIT", <<Inner(X(2), IsNotNull(OX), "b")>>) EXCEPT !.count = 1]
    IN {Select(<<X(1), Y(1)>>, AnyOf("=", X(1), Limited), T("a", 1))}

\* NOT of a comparison that cannot be split into sides.
Negated == {Select(<<X(1), X(2)>>, Not(Cmp("=", Sum(X(1), X(2)), Y(2))), Crossed(<<"a", "b">>))}

\* HAVING in a correlated subquery, and a NULL outside.
InnerHaving ==
    LET counted == Aggregate(<<>>, <<CountStar, Agg("SUM", Y(2))>>,
                             FilterNode(<<Or(IsNull(OX), Cmp("=", X(2), OX))>>, T("c", 2)))
        having == FilterNode(<<Cmp(">", Col(<<12, 1>>), K(0))>>, counted)
    IN {Select(<<X(1), Sub("SCALAR", Projection(10, <<Col(<<12, 0>>)>>, having))>>, K(1), T("a", 1))}

\* A correlated UNION.
InnerUnion ==
    {Select(<<X(1)>>, Sub("EXISTS", SetOp("UNION", Branch(7, Y(2), Cmp("=", X(2), OX), "b", 2),
                                                   Branch(8, Y(3), Cmp("=", X(3), K(1)), "c", 3))),
            T("a", 1))}
=============================================================================
