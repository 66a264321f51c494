------------------------------ MODULE MCStorage ------------------------------
(* Instances of the storage for TLC.                                        *)
EXTENDS Storage, TLC

CONSTANTS t1, t2, t3, table, key, index

Create == [kind |-> "create", makes |-> table]
Insert == [kind |-> "insert", makes |-> None]
InsertKey == [kind |-> "insert", makes |-> key]
CreateIndex == [kind |-> "index", makes |-> index]
Failed == [kind |-> "failed", makes |-> None]

\* A transaction that creates a table and fills it, one that inserts a key, and
\* one whose commit throws after it has written its entries, the same key.
MCGroup ==
  (t1 :> <<Create, Insert>>) @@ (t2 :> <<InsertKey>>) @@ (t3 :> <<InsertKey, CreateIndex>>)

\* The table is created by a commit that throws, and then again.
MCGroupRetried ==
  (t1 :> <<Create, Insert>>) @@ (t2 :> <<InsertKey>>) @@ (t3 :> <<Create, CreateIndex>>)

\* An explicit transaction that commits although one of its statements failed.
MCGroupFailed ==
  (t1 :> <<Create, Insert>>) @@ (t2 :> <<Insert, Failed>>) @@ (t3 :> <<Insert>>)
=============================================================================
