-------------------------- MODULE MCDataTableLocks --------------------------
(* Instances of the chunk locks for TLC.                                    *)
EXTENDS DataTableLocks, TLC

CONSTANTS p1, p2, p3

\* Without UNIQUE constraints any mix of operations, with them those that never
\* wait in a circle.
MCWorkload ==
  [u \in BOOLEAN |-> IF u THEN {"scan", "delete", "append"}
                     ELSE {"scan", "fetch", "build", "delete", "update", "append"}]

\* A table with UNIQUE constraints, and every operation.
MCKeyWorkload == [u \in {TRUE} |-> {"scan", "fetch", "build", "delete", "update", "append"}]

\* Threads are interchangeable; used where no liveness property is checked.
MCSymmetry == Permutations(Thread)
=============================================================================
