------------------------------- MODULE MCMvcc -------------------------------
(* Instances of the versioned table for TLC.                                *)
EXTENDS MvccInvariant, TLC

CONSTANTS t1, t2, t3, a, b

\* Transactions are interchangeable, and so are the plain values.
MCSymmetry == Permutations(Txn) \cup Permutations({a, b})
=============================================================================
