--------------------------- MODULE MCUniqueIndex ----------------------------
(* Instances of the table with a unique index for TLC.                      *)
EXTENDS UniqueIndex

CONSTANTS t1, t2, t3

MCSymmetry == Permutations(Txn)
=============================================================================
