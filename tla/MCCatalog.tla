----------------------------- MODULE MCCatalog ------------------------------
(* Instances of the catalog for TLC.                                        *)
EXTENDS Catalog

CONSTANTS t1, t2, t3, main, tbl, fun

\* Transactions are interchangeable.
MCSymmetry == Permutations(Txn)
=============================================================================
