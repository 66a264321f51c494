--------------------------- MODULE ClientContext ----------------------------
(***************************************************************************)
(* Connections, made and destroyed: queries of several statements, auto    *)
(* commit, explicit transactions, streamed results, and a database that is *)
(* closed while connections are open and their threads are running.        *)
(*                                                                         *)
(* A connection has one client thread; another thread closes the database. *)
(* They meet in context_lock, in connections_lock, and in the reads of     *)
(* is_invalidated and is_open without a lock.  The flag interrupted only   *)
(* makes a running query throw, which a query may do at any time here.     *)
(***************************************************************************)
EXTENDS Naturals, FiniteSets

CONSTANTS
  Conn,
  Verifying,            \* the connections with query verification enabled
  MaxStatements         \* bound on the statements of one query

ASSUME ClientAssumption ==
  /\ Verifying \subseteq Conn
  /\ MaxStatements \in Nat \ {0}

VARIABLES
  ctx,                  \* the context of each connection
  pc,                   \* where each client thread is
  left,                 \* the statements of its query that are still to run
  context_lock,         \* "free", or who holds the lock of each context
  connections,          \* of the ConnectionManager
  connections_lock,     \* it is taken
  db,                   \* "open", "closing" or "closed": destroyed
  closing,              \* the context being invalidated, and how far that is
  late                  \* history: the parts used after they were destroyed

clientVars == <<ctx, pc, left>>
dbVars == <<connections, connections_lock, db, closing>>
vars == <<clientVars, context_lock, dbVars, late>>

\* `current` and `active_query` stand for the pointer to the transaction and
\* its query number; `result` is the stream result the client has, open_result
\* the pointer to it.  TransactionContext::is_invalidated is not initialized:
\* until transaction_invalidated is TRUE it may be read as either value.
\* `odd` is history: what happened that leaves a context in a strange state.
\* The context of a connection not yet made is what its constructor will leave.
NewContext ==
  [auto_commit |-> TRUE, current |-> FALSE, active_query |-> FALSE,
   open_result |-> FALSE, result |-> "none", success |-> TRUE,
   is_invalidated |-> FALSE, transaction_invalidated |-> FALSE, odd |-> {}]

ClientInit ==
  /\ ctx = [c \in Conn |-> NewContext]
  /\ pc = [c \in Conn |-> "none"]
  /\ left = [c \in Conn |-> 0]
  /\ context_lock = [c \in Conn |-> "free"]
  /\ connections = {}
  /\ connections_lock = FALSE
  /\ db = "open"
  /\ closing = <<>>
  /\ late = {}

-----------------------------------------------------------------------------
(* Functions of the context: each is the set of the contexts it may leave.  *)

\* TransactionContext::Commit; a commit that throws keeps the transaction.
Commit(x) ==
  {[x EXCEPT !.current = FALSE, !.active_query = FALSE],
   [x EXCEPT !.odd = IF x.auto_commit THEN @ \cup {"commit_failed"} ELSE @]}

RollbackContext(x) == [x EXCEPT !.current = FALSE, !.active_query = FALSE]

\* Mutant of FinalizeQuery: a failed statement does not end its transaction.
FinalizeSuccessful(x, success) ==
  LET y == [x EXCEPT !.active_query = FALSE]
  IN  IF x.current /\ x.auto_commit /\ success THEN Commit(y) ELSE {y}

FinalizeQuery(x, success) ==
  LET y == [x EXCEPT !.active_query = FALSE]
  IN  IF ~x.current \/ ~x.auto_commit THEN {y}
        ELSE IF success THEN Commit(y)
        ELSE {RollbackContext(y)}

\* Mutant of CleanupInternal: open_result is not reset.
CleanupKeepsPointer(x) ==
  IF ~x.open_result THEN {x}
    ELSE {[y EXCEPT !.success = @ /\ ~(y.current /\ y.auto_commit), !.result = "closed"] :
            y \in FinalizeQuery(x, x.success)}

\* An error of the commit is reported in the result.
CleanupInternal(x) ==
  IF ~x.open_result THEN {x}
    ELSE {[y EXCEPT !.success = @ /\ ~(y.current /\ y.auto_commit), !.result = "closed",
                    !.open_result = FALSE] :
            y \in FinalizeQuery(x, x.success)}

\* Mutant of Cleanup: an explicit transaction is left alone.
CleanupResultOnly(x) ==
  IF x.is_invalidated THEN {x} ELSE CleanupInternal([x EXCEPT !.active_query = FALSE])

\* Cleanup rolls an explicit transaction back, and auto_commit stays off.
Cleanup(x) ==
  IF x.is_invalidated THEN {x}
    ELSE LET y == [x EXCEPT !.active_query = FALSE]
         IN  IF x.current /\ ~x.auto_commit
               THEN CleanupInternal([RollbackContext(y) EXCEPT !.odd = @ \cup {"closed_in_transaction"}])
               ELSE CleanupInternal(y)

-----------------------------------------------------------------------------
(* The client thread.                                                       *)

\* The transaction manager and its transactions are used after they are gone.
Touch(c, x, y) ==
  late' = IF db = "closed" /\ <<x.current, x.active_query>> # <<y.current, y.active_query>>
            THEN late \cup {<<"transaction_manager", c>>} ELSE late

\* The client thread has changed its context.
Become(c, y) ==
  /\ ctx' = [ctx EXCEPT ![c] = y]
  /\ Touch(c, ctx[c], y)

Go(c, where) == pc' = [pc EXCEPT ![c] = where]

Locks(c) == context_lock[c] = "free" /\ context_lock' = [context_lock EXCEPT ![c] = "client"]
Unlocks(c) == context_lock' = [context_lock EXCEPT ![c] = "free"]

\* Query returns.
Return(c) ==
  /\ Go(c, "idle") /\ Unlocks(c)
  /\ left' = [left EXCEPT ![c] = 0]

\* Mutant of Query: a context that is no longer valid is not refused.
QueryUnchecked(c, n) ==
  /\ pc[c] = "idle"
  /\ \E y \in CleanupInternal(ctx[c]) : Become(c, y)
  /\ IF n = 0
       THEN context_lock[c] = "free" /\ UNCHANGED <<context_lock, pc, left>>
       ELSE /\ Locks(c) /\ Go(c, "statement")
            /\ left' = [left EXCEPT ![c] = n]
  /\ UNCHANGED dbVars

\* Query up to the loop over the n statements; none if the parser throws.
Query(c, n) ==
  /\ pc[c] = "idle"
  /\ IF ctx[c].is_invalidated
       THEN /\ context_lock[c] = "free"
            /\ UNCHANGED <<ctx, pc, left, context_lock, late>>
       ELSE /\ \E y \in CleanupInternal(ctx[c]) : Become(c, y)
            /\ IF n = 0
                 THEN context_lock[c] = "free" /\ UNCHANGED <<context_lock, pc, left>>
                 ELSE /\ Locks(c) /\ Go(c, "statement")
                      /\ left' = [left EXCEPT ![c] = n]
  /\ UNCHANGED dbVars

\* The head of the loop: BeginTransaction throws out of Query if there is a
\* transaction, ActiveTransaction needs one.
BeginStatement(c) ==
  LET x == ctx[c]
  IN  /\ pc[c] = "statement"
      /\ IF x.auto_commit = x.current
           THEN /\ IF x.current THEN Return(c)
                     ELSE Go(c, "crashed") /\ UNCHANGED <<left, context_lock>>
                /\ UNCHANGED <<ctx, late>>
           ELSE /\ Become(c, [x EXCEPT !.current = TRUE, !.active_query = TRUE])
                /\ Go(c, "execute")
                /\ UNCHANGED <<left, context_lock>>
      /\ UNCHANGED dbVars

\* VerifyQuery fails: Query returns without FinalizeQuery.
FailVerification(c) ==
  /\ pc[c] = "execute" /\ c \in Verifying
  /\ Become(c, [ctx[c] EXCEPT !.odd = @ \cup {"verification_failed"}])
  /\ Return(c)
  /\ UNCHANGED dbVars

\* A statement failed: the query ends.
Fail(c, x) ==
  /\ \E y \in FinalizeQuery(x, FALSE) : Become(c, y)
  /\ Return(c)
  /\ UNCHANGED dbVars

\* A statement is done: the error FinalizeQuery may return is dropped.
Succeed(c, x) ==
  /\ \E y \in FinalizeQuery(x, TRUE) : Become(c, y)
  /\ IF left[c] = 1 THEN Return(c)
       ELSE /\ left' = [left EXCEPT ![c] = @ - 1]
            /\ Go(c, "statement")
            /\ UNCHANGED context_lock
  /\ UNCHANGED dbVars

\* A query or a change of data runs to its end, or throws; an interrupted one
\* throws when it asks for its next chunk.
Execute(c) ==
  /\ pc[c] = "execute"
  /\ Succeed(c, ctx[c]) \/ Fail(c, ctx[c])

\* A SELECT at the end of the query is streamed, if the client allows it: it has
\* been planned, not run.
ExecuteStream(c) ==
  /\ pc[c] = "execute" /\ left[c] = 1
  /\ Become(c, [ctx[c] EXCEPT !.open_result = TRUE, !.result = "open", !.success = TRUE])
  /\ Return(c)
  /\ UNCHANGED dbVars

\* Transaction statements, which run in the planner.
ExecuteBegin(c) ==
  /\ pc[c] = "execute"
  /\ IF ctx[c].auto_commit THEN Succeed(c, [ctx[c] EXCEPT !.auto_commit = FALSE])
                           ELSE Fail(c, ctx[c])

ExecuteCommit(c) ==
  /\ pc[c] = "execute"
  /\ IF ctx[c].auto_commit THEN Fail(c, ctx[c])
       ELSE \E y \in Commit(ctx[c]) :
              IF y.current THEN Fail(c, y) ELSE Succeed(c, [y EXCEPT !.auto_commit = TRUE])

ExecuteRollback(c) ==
  /\ pc[c] = "execute"
  /\ IF ctx[c].auto_commit THEN Fail(c, ctx[c])
       ELSE Succeed(c, [RollbackContext(ctx[c]) EXCEPT !.auto_commit = TRUE])

\* StreamQueryResult::Fetch: a chunk comes, the plan throws, or the result is at
\* its end and closes itself; a context no longer valid ends it as well.
Fetch(c) ==
  /\ pc[c] = "idle" /\ ctx[c].result = "open" /\ ctx[c].success
  /\ context_lock[c] = "free"
  /\ \/ Go(c, "close") /\ UNCHANGED <<ctx, late>>
     \/ UNCHANGED <<ctx, pc, late>>
     \/ /\ ~ctx[c].is_invalidated
        /\ \E y \in CleanupInternal([ctx[c] EXCEPT !.success = FALSE]) : Become(c, y)
        /\ UNCHANGED pc
  /\ UNCHANGED <<left, context_lock, dbVars>>

\* StreamQueryResult::Close, also called by its destructor, looks at is_open
\* without a lock before it cleans up.
Close(c) ==
  /\ pc[c] \in {"idle", "close"} /\ ctx[c].result # "none"
  /\ IF ctx[c].result = "open"
       THEN context_lock[c] = "free" /\ \E y \in Cleanup(ctx[c]) : Become(c, y)
       ELSE pc[c] = "close" /\ UNCHANGED <<ctx, late>>
  /\ Go(c, "idle")
  /\ UNCHANGED <<left, context_lock, dbVars>>

\* The client destroys a result; an open one has been closed before.
DestroyResult(c) ==
  /\ pc[c] = "idle" /\ ctx[c].result = "closed"
  /\ ctx' = [ctx EXCEPT ![c].result = "none", ![c].success = TRUE]
  /\ UNCHANGED <<pc, left, context_lock, dbVars, late>>

-----------------------------------------------------------------------------
(* Connection::Connection.  It may have been called before another thread   *)
(* closes the database, and get connections_lock when that is done.         *)

AddConnection(c) ==
  /\ pc[c] = "none" /\ ~connections_lock
  /\ connections' = connections \cup {c}
  /\ IF db # "closed" THEN UNCHANGED <<ctx, late>>
       ELSE /\ ctx' = [ctx EXCEPT ![c].odd = @ \cup {"connected_late"}]
            /\ late' = late \cup {<<"connection_manager", c>>}
  /\ Go(c, "idle")
  /\ UNCHANGED <<left, context_lock, connections_lock, db, closing>>

-----------------------------------------------------------------------------
(* ~Connection, with its results destroyed or left behind.                  *)

BeginDestroy(c) ==
  /\ pc[c] = "idle"
  /\ Go(c, IF ctx[c].is_invalidated THEN "members" ELSE "cleanup")
  /\ UNCHANGED <<ctx, left, context_lock, dbVars, late>>

\* Mutant of DestroyCleanup: the lock is kept until the connection is removed.
DestroyCleanupLocked(c) ==
  /\ pc[c] = "cleanup" /\ Locks(c)
  /\ \E y \in Cleanup(ctx[c]) : Become(c, y)
  /\ Go(c, "remove")
  /\ UNCHANGED <<left, dbVars>>

DestroyCleanup(c) ==
  /\ pc[c] = "cleanup" /\ context_lock[c] = "free"
  /\ \E y \in Cleanup(ctx[c]) : Become(c, y)
  /\ Go(c, "remove")
  /\ UNCHANGED <<left, context_lock, dbVars>>

RemoveConnection(c) ==
  /\ pc[c] = "remove" /\ ~connections_lock
  /\ connections' = connections \ {c}
  /\ late' = IF db = "closed" THEN late \cup {<<"connection_manager", c>>} ELSE late
  /\ Go(c, "members")
  /\ UNCHANGED <<ctx, left, context_lock, connections_lock, db, closing>>

\* ~TransactionContext rolls back what is left, unless its flag says that the
\* database is gone.
DestroyMembers(c) ==
  /\ pc[c] = "members"
  /\ \/ UNCHANGED <<ctx, late>>
     \/ ~ctx[c].transaction_invalidated /\ Become(c, RollbackContext(ctx[c]))
  /\ Go(c, "gone")
  /\ UNCHANGED <<left, context_lock, dbVars>>

-----------------------------------------------------------------------------
(* ~DuckDB: the ConnectionManager is destroyed first, then the transaction  *)
(* manager.                                                                 *)

BeginClosing ==
  /\ db = "open" /\ ~connections_lock
  /\ db' = "closing" /\ connections_lock' = TRUE
  /\ UNCHANGED <<clientVars, context_lock, connections, closing, late>>

\* Invalidate: interrupt, then wait for the lock.
InvalidateInterrupt(c) ==
  /\ db = "closing" /\ closing = <<>> /\ c \in connections
  /\ closing' = <<c, "wait">>
  /\ UNCHANGED <<clientVars, context_lock, connections, connections_lock, db, late>>

InvalidateContext(c) ==
  /\ closing = <<c, "wait">> /\ context_lock[c] = "free"
  /\ context_lock' = [context_lock EXCEPT ![c] = "closer"]
  /\ ctx' = [ctx EXCEPT ![c].is_invalidated = TRUE]
  /\ late' = IF pc[c] = "gone" THEN late \cup {<<"context", c>>} ELSE late
  /\ closing' = <<c, "result">>
  /\ UNCHANGED <<pc, left, connections, connections_lock, db>>

\* The rest of Invalidate; the iterator of the loop moves on.
InvalidateResult(c) ==
  /\ closing = <<c, "result">>
  /\ ctx' = [ctx EXCEPT ![c].transaction_invalidated = TRUE,
                        ![c].result = IF ctx[c].open_result THEN "closed" ELSE @]
  /\ late' = IF pc[c] = "gone" THEN late \cup {<<"context", c>>} ELSE late
  /\ context_lock' = [context_lock EXCEPT ![c] = "free"]
  /\ connections' = connections \ {c}
  /\ closing' = <<>>
  /\ UNCHANGED <<pc, left, connections_lock, db>>

EndClosing ==
  /\ db = "closing" /\ closing = <<>> /\ connections = {}
  /\ db' = "closed" /\ connections_lock' = FALSE
  /\ UNCHANGED <<clientVars, context_lock, connections, closing, late>>

-----------------------------------------------------------------------------

\* The steps of a client thread inside a call.
Inside(c) ==
  \/ BeginStatement(c) \/ FailVerification(c)
  \/ Execute(c) \/ ExecuteStream(c)
  \/ ExecuteBegin(c) \/ ExecuteCommit(c) \/ ExecuteRollback(c)
  \/ (pc[c] = "close" /\ Close(c))
  \/ DestroyCleanup(c) \/ RemoveConnection(c) \/ DestroyMembers(c)

Call(c) ==
  \/ AddConnection(c)
  \/ \E n \in 0..MaxStatements : Query(c, n)
  \/ Fetch(c) \/ (pc[c] = "idle" /\ Close(c)) \/ DestroyResult(c) \/ BeginDestroy(c)

Closer ==
  \/ EndClosing
  \/ \E c \in Conn : InvalidateInterrupt(c) \/ InvalidateContext(c) \/ InvalidateResult(c)

ClientNext == (\E c \in Conn : Inside(c) \/ Call(c)) \/ BeginClosing \/ Closer

\* A thread inside a call keeps running; nobody has to call.
ClientSpec ==
  ClientInit /\ [][ClientNext]_vars /\ WF_vars(Closer) /\ \A c \in Conn : WF_vars(Inside(c))

-----------------------------------------------------------------------------
(* Properties.                                                              *)

Alive(c) == pc[c] # "gone"

\* Every variable holds values of its type.
ClientTypeOK ==
  /\ ctx \in [Conn -> [auto_commit : BOOLEAN, current : BOOLEAN, active_query : BOOLEAN,
                       open_result : BOOLEAN, result : {"none", "open", "closed"},
                       success : BOOLEAN, is_invalidated : BOOLEAN, transaction_invalidated : BOOLEAN,
                       odd : SUBSET {"commit_failed", "verification_failed", "closed_in_transaction",
                                     "connected_late"}]]
  /\ pc \in [Conn -> {"none", "idle", "statement", "execute", "close", "cleanup", "remove", "members",
                      "gone", "crashed"}]
  /\ left \in [Conn -> 0..MaxStatements]
  /\ context_lock \in [Conn -> {"free", "client", "closer"}]
  /\ connections \subseteq Conn
  /\ connections_lock \in BOOLEAN
  /\ db \in {"open", "closing", "closed"}
  /\ late \subseteq {"transaction_manager", "connection_manager", "context"} \X Conn

\* Between two calls of the client the context is what the next statement
\* expects: with auto commit there is a transaction only for an open result,
\* without it there is one, and a query number is announced only for an open
\* result, so that an idle client does not keep old versions alive.  The
\* exceptions are a commit or verification that failed, a result closed inside an
\* explicit transaction, and a connection made while the database was closed.
\* Whatever happened, the client does not hold the lock of its context
\* (ClientContext::Query, Fetch and Cleanup).
BetweenCalls ==
  \A c \in Conn : LET x == ctx[c] IN
    pc[c] = "idle" =>
      /\ context_lock[c] # "client"
      /\ ~x.is_invalidated /\ x.odd = {} =>
           /\ x.current <=> (x.open_result \/ ~x.auto_commit)
           /\ x.active_query <=> x.open_result

\* ActiveTransaction() asserts that there is a transaction
\* (transaction_context.hpp:28): the next statement of a client finds one, or
\* starts one.
TransactionThere == \A c \in Conn : pc[c] # "crashed"

\* open_result is null or points to a result that the client still has and that
\* is open and free of errors, whoever closes, destroys, fetches or invalidates
\* (ClientContext::open_result).
OpenResultLive ==
  \A c \in Conn : ctx[c].open_result /\ ~ctx[c].is_invalidated /\ Alive(c) =>
    ctx[c].result = "open" /\ ctx[c].success

\* No client thread uses the transaction manager after the database is gone,
\* at whatever point closing it meets the client; the exceptions are a transaction
\* kept by a commit or verification that failed, and a connection whose constructor
\* waited for the closing thread and was listed when it was too late
\* (ClientContext::Invalidate, ConnectionManager::AddConnection).
ManagerUsedAlive ==
  \A c \in Conn : <<"transaction_manager", c>> \in late =>
    ctx[c].odd \cap {"commit_failed", "verification_failed", "connected_late"} # {}

\* A connection that is gone and that the database did not invalidate first is not
\* in the list of the manager, which would invalidate it later, and leaves no
\* transaction, no query number and no open result behind; after one of the
\* exceptions of BetweenCalls it may leave these (~Connection, ~TransactionContext).
NothingLeftBehind ==
  \A c \in Conn : LET x == ctx[c] IN
    ~Alive(c) /\ ~x.is_invalidated =>
      /\ c \notin connections
      /\ x.odd = {} => ~x.current /\ ~x.active_query /\ ~x.open_result

\* Closing the database comes to its end: the closing thread and the clients
\* never wait for each other in a circle.  A client that sends queries without
\* end may keep the lock from the closing thread, and the assertion in
\* ActiveTransaction ends the program (ConnectionManager::~ConnectionManager).
ClosingEnds ==
  \/ []<>(\E c \in Conn : pc[c] = "statement")
  \/ db = "closing" ~> (db = "closed" \/ \E c \in Conn : pc[c] = "crashed")
=============================================================================
