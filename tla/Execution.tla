----------------------------- MODULE Execution ------------------------------
(***************************************************************************)
(* A query is executed by asking its topmost operator for chunks until one *)
(* is empty.  Here one operator runs over children that return given       *)
(* chunks: none of them empty, and empty ones at the end.  A step is one   *)
(* pass of the loop in its _GetChunk.                                      *)
(***************************************************************************)
EXTENDS Joins, Aggregates, Windows, OrderIndex, Sql

CONSTANT Plans               \* sets of operators to run, with their inputs

VARIABLES
  plan,
  state,                     \* the PhysicalOperatorState
  entering,                  \* the next pass is the first of a call
  passes,                    \* how many passes there were
  result,                    \* the rows returned so far
  done                       \* an empty chunk was returned

JoinOps == {"HASH_JOIN", "NESTED_LOOP_JOIN", "PIECEWISE_MERGE_JOIN", "BLOCKWISE_NL_JOIN", "CROSS_PRODUCT"}

vars == <<plan, state, entering, passes, result, done>>

InitialState(p) ==
  CASE p.op = "HASH_JOIN" -> HashJoinInit
    [] p.op = "NESTED_LOOP_JOIN" -> NestedLoopJoinInit
    [] p.op = "PIECEWISE_MERGE_JOIN" -> PiecewiseMergeJoinInit
    [] p.op = "BLOCKWISE_NL_JOIN" -> BlockwiseInit
    [] p.op = "CROSS_PRODUCT" -> CrossProductInit
    [] p.op = "HASH_GROUP_BY" -> HashAggregateInit(p)
    [] p.op = "WINDOW" -> WindowInit
    [] p.op = "ORDER_BY" -> OrderInit
    [] p.op = "FILTER" -> FilterInit
    [] p.op = "LIMIT" -> LimitInit
    [] p.op = "UNION" -> UnionInit
    [] p.op = "INDEX_SCAN" -> IndexScanInit

Init ==
  /\ \E f \in DOMAIN Plans : plan \in Plans[f]
  /\ state = InitialState(plan)
  /\ entering = TRUE
  /\ passes = 0
  /\ result = <<>>
  /\ done = FALSE

\* One of the passes that the operator in the plan can make.  A call that returns
\* rows is followed by another; the caller stops at the first empty chunk.
Pass(op, passes_of_op) ==
  /\ plan.op = op /\ ~done
  /\ \E pass \in passes_of_op :
       /\ state' = pass.state
       /\ entering' = pass.returns
       /\ result' = result \o pass.chunk
       /\ done' = (pass.returns /\ pass.chunk = <<>>)
  /\ passes' = passes + 1
  /\ UNCHANGED plan

GetChunk ==
  \/ Pass("HASH_JOIN", {HashJoin(plan, state, entering)})
  \/ Pass("NESTED_LOOP_JOIN", {NestedLoopJoin(plan, state, entering)})
  \/ Pass("PIECEWISE_MERGE_JOIN", PiecewiseMergeJoin(plan, state, entering))
  \/ Pass("BLOCKWISE_NL_JOIN", {BlockwiseNLJoin(plan, state, entering)})
  \/ Pass("CROSS_PRODUCT", {CrossProduct(plan, state, entering)})
  \/ Pass("HASH_GROUP_BY", {HashAggregate(plan, state)})
  \/ Pass("WINDOW", {Window(plan, state)})
  \/ Pass("ORDER_BY", {Order(plan, state)})
  \/ Pass("FILTER", {Filter(plan, state)})
  \/ Pass("LIMIT", {Limit(plan, state)})
  \/ Pass("UNION", {Union(plan, state)})
  \/ Pass("INDEX_SCAN", {IndexScan(plan, state)})

Spec == Init /\ [][GetChunk]_vars

-----------------------------------------------------------------------------
(* Properties.                                                              *)

\* Every join returns exactly the rows that SQL gives for its type and
\* conditions, each as often as it should, however its input is cut into chunks,
\* hashes collide, hash tables are resized and results are returned in pieces
\* (physical_hash_join.cpp, physical_nested_loop_join.cpp,
\* physical_piecewise_merge_join.cpp, physical_blockwise_nl_join.cpp,
\* physical_cross_product.cpp).
JoinsRight == done /\ plan.op \in JoinOps => JoinRight(plan, result)

\* Every other operator returns the rows of its definition: GROUP BY one row for
\* each group, NULL being a group of its own, however groups arrive and collide
\* and tables are resized; a window function for every row what its partition, its
\* peers and its frame give; ORDER BY the rows of its child in order; a filter
\* those whose conjunction is true and neither false nor NULL; LIMIT those between
\* the offset and the limit; UNION ALL those of both children; and a filter that
\* became a scan of an index the rows for which all its conditions hold
\* (aggregate_hashtable.cpp, physical_window.cpp, window_segment_tree.cpp,
\* physical_order.cpp, physical_filter.cpp, physical_limit.cpp,
\* physical_union.cpp, plan_filter.cpp, order_index.cpp).  It holds of the inputs
\* in MCPlans; the inputs of the code for which it does not are families of their
\* own, at the end of MCExecution.
RowsRight ==
  done => CASE plan.op = "HASH_GROUP_BY" ->
                 ToSet(result) = GroupsOf(plan) /\ Len(result) = Cardinality(GroupsOf(plan))
            [] plan.op = "WINDOW" -> WindowRows(plan, result)
            [] plan.op = "ORDER_BY" -> Sorted(plan, result)
            [] plan.op \in {"FILTER", "LIMIT", "UNION"} -> result = RowsOf(plan)
            [] plan.op = "INDEX_SCAN" -> SameRows(result, RowsOf(plan))
            [] OTHER -> TRUE

\* No operator loops over chunks that give it nothing: a pass returns rows, ends
\* the query, or is done with a left chunk, a right one or a pair of them, so the
\* query ends after as many passes as there are of those.
QueryEnds == passes <= Len(result) + (Len(plan.left) + 1) * (Len(plan.right) + 1)
=============================================================================
