------------------------ MODULE MCTransactionManager ------------------------
(* Instances of the transaction manager for TLC: two plain transactions     *)
(* whose commit may throw, one of an appender and one of a checkpoint.      *)
EXTENDS TransactionManager

CONSTANTS t1, t2, ap, cp
=============================================================================
