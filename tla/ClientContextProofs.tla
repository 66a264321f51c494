------------------------ MODULE ClientContextProofs -------------------------
(***************************************************************************)
(* Proofs about the connections, for any number of them, any length of     *)
(* queries and any moment at which the database is closed.                 *)
(*                                                                         *)
(* The inductive invariant says what a context is like at each place of    *)
(* its client thread (Positions), who holds which lock (LockInv), and how  *)
(* far the closing thread is with each context (CloseInv).                 *)
(***************************************************************************)
EXTENDS ClientContext, TLAPS

Odd == {"commit_failed", "verification_failed", "closed_in_transaction", "connected_late"}

Context ==
  [auto_commit : BOOLEAN, current : BOOLEAN, active_query : BOOLEAN,
   open_result : BOOLEAN, result : {"none", "open", "closed"},
   success : BOOLEAN, is_invalidated : BOOLEAN, transaction_invalidated : BOOLEAN,
   odd : SUBSET Odd]

\* A commit or a verification has failed and its transaction was kept, or the
\* connection was made too late.
Kept(x) == x.odd \cap {"commit_failed", "verification_failed", "connected_late"} # {}

\* A context between two statements.
Resting(x) ==
  /\ x.open_result => x.result = "open" /\ x.success
  /\ x.odd = {} => /\ x.current <=> (x.open_result \/ ~x.auto_commit)
                   /\ x.active_query <=> x.open_result
  /\ x.current /\ x.auto_commit /\ ~x.open_result => Kept(x)

\* A context that has been cleaned up for the last time.
Cleaned(x) == ~x.open_result /\ ~x.active_query /\ (x.current => Kept(x))

\* A valid context at each place of its client thread.
Position(x, place) ==
  ~x.is_invalidated =>
    /\ place \in {"none", "idle", "close", "cleanup", "statement"} => Resting(x)
    /\ place \in {"statement", "execute", "crashed"} => ~x.open_result
    /\ place = "execute" => x.current /\ x.active_query
    /\ place \in {"remove", "members", "gone"} => Cleaned(x)

Positions == \A c \in Conn : Position(ctx[c], pc[c])

\* The client thread holds the lock of its context inside Query, the closing
\* thread between the two halves of Invalidate.
LockInv ==
  \A c \in Conn :
    /\ context_lock[c] = "client" <=> pc[c] \in {"statement", "execute", "crashed"}
    /\ context_lock[c] = "closer" <=> closing = <<c, "result">>
    /\ context_lock[c] = "client" => ~ctx[c].is_invalidated
    /\ pc[c] \in {"statement", "execute"} => left[c] > 0

\* A context that the manager does not list is not made yet, has been invalidated,
\* or has taken itself out of the list; one that is listed when the database is
\* closed was made too late.
CloseInv ==
  /\ closing \in {<<>>} \cup (Conn \X {"wait", "result"})
  /\ closing # <<>> => db = "closing"
  /\ connections_lock <=> db = "closing"
  /\ db = "closed" => \A c \in connections : Kept(ctx[c])
  /\ \A c \in Conn :
       LET x == ctx[c]
       IN  /\ closing = <<c, "wait">> => c \in connections
           /\ closing = <<c, "result">> => c \in connections /\ x.is_invalidated
           /\ x.is_invalidated /\ closing # <<c, "result">> =>
                x.transaction_invalidated /\ c \notin connections
           /\ c \notin connections =>
                \/ x.is_invalidated
                \/ pc[c] \in {"none", "members", "gone"}
           /\ pc[c] = "none" => c \notin connections /\ ~x.is_invalidated
           /\ pc[c] \in {"members", "gone"} /\ ~x.is_invalidated => c \notin connections

ClientInv == ClientTypeOK /\ Positions /\ LockInv /\ CloseInv /\ ManagerUsedAlive

-----------------------------------------------------------------------------
(* What the functions of the context do to it.                              *)

\* FinalizeQuery takes back the query number; it ends the transaction of a
\* statement with auto commit, or records that the commit has failed, and leaves
\* an explicit transaction and everything else of the context alone.
LEMMA FinalizeFacts ==
  ASSUME NEW x \in Context, NEW success \in BOOLEAN, NEW y \in FinalizeQuery(x, success)
  PROVE  /\ y \in Context
         /\ y.auto_commit = x.auto_commit /\ y.open_result = x.open_result
         /\ y.result = x.result /\ y.success = x.success
         /\ y.is_invalidated = x.is_invalidated
         /\ y.transaction_invalidated = x.transaction_invalidated
         /\ x.odd \subseteq y.odd
         /\ ~y.active_query
         /\ y.current => x.current
         /\ x.current /\ ~x.auto_commit => y.current
         /\ y.current /\ x.auto_commit => "commit_failed" \in y.odd
<1>1. CASE ~x.current \/ ~x.auto_commit
  BY <1>1, Zenon DEF FinalizeQuery, Context
<1>2. CASE x.current /\ x.auto_commit /\ success
  <2>. DEFINE z == [x EXCEPT !.active_query = FALSE]
              w == [z EXCEPT !.odd = IF z.auto_commit THEN @ \cup {"commit_failed"} ELSE @]
  <2>1. y = [z EXCEPT !.current = FALSE, !.active_query = FALSE] \/ y = w
    BY <1>2, Zenon DEF FinalizeQuery, Commit
  <2>2. z \in Context /\ z.auto_commit /\ z.odd = x.odd
    BY <1>2, Zenon DEF Context
  <2>3. w = [z EXCEPT !.odd = z.odd \cup {"commit_failed"}]
    BY <2>2, Zenon
  <2>4. z.odd \cup {"commit_failed"} \in SUBSET Odd
    BY <2>2, Zenon DEF Context, Odd
  <2>5. CASE y = w
    <3>1. y \in Context
      BY <2>2, <2>3, <2>4, <2>5, Zenon DEF Context
    <3>2. "commit_failed" \in y.odd /\ x.odd \subseteq y.odd
      BY <2>2, <2>3, <2>4, <2>5, Zenon DEF Context
    <3>3. /\ y.auto_commit = z.auto_commit /\ y.open_result = z.open_result
          /\ y.result = z.result /\ y.success = z.success
          /\ y.is_invalidated = z.is_invalidated /\ y.current = z.current
          /\ y.transaction_invalidated = z.transaction_invalidated
          /\ y.active_query = z.active_query
      BY <2>2, <2>3, <2>5, Zenon DEF Context
    <3>4. /\ z.auto_commit = x.auto_commit /\ z.open_result = x.open_result
          /\ z.result = x.result /\ z.success = x.success
          /\ z.is_invalidated = x.is_invalidated /\ z.current = x.current
          /\ z.transaction_invalidated = x.transaction_invalidated
          /\ ~z.active_query
      BY Zenon DEF Context
    <3>. HIDE DEF w, z
    <3>. QED  BY <1>2, <3>1, <3>2, <3>3, <3>4, Zenon
  <2>. QED  BY <1>2, <2>1, <2>2, <2>5, Zenon DEF Context
<1>3. CASE x.current /\ x.auto_commit /\ ~success
  BY <1>3, Zenon DEF FinalizeQuery, RollbackContext, Context
<1>. QED  BY <1>1, <1>2, <1>3, Zenon DEF Context

\* CleanupInternal closes an open result like the end of a statement, and does
\* nothing without one.
LEMMA CleanupInternalFacts ==
  ASSUME NEW x \in Context, NEW y \in CleanupInternal(x)
  PROVE  /\ y \in Context
         /\ y.auto_commit = x.auto_commit /\ ~y.open_result
         /\ y.is_invalidated = x.is_invalidated
         /\ y.transaction_invalidated = x.transaction_invalidated
         /\ x.odd \subseteq y.odd
         /\ ~x.open_result => y = x
         /\ y.active_query => x.active_query
         /\ y.current => x.current
         /\ x.open_result => /\ ~y.active_query
                             /\ x.current /\ ~x.auto_commit => y.current
                             /\ y.current /\ x.auto_commit => "commit_failed" \in y.odd
<1>1. CASE ~x.open_result
  BY <1>1, Zenon DEF CleanupInternal, Context
<1>2. CASE x.open_result
  <2>1. PICK z \in FinalizeQuery(x, x.success) :
          y = [z EXCEPT !.success = @ /\ ~(z.current /\ z.auto_commit), !.result = "closed",
                        !.open_result = FALSE]
    BY <1>2, Zenon DEF CleanupInternal
  <2>2. x.success \in BOOLEAN
    BY Zenon DEF Context
  <2>3. PICK s \in BOOLEAN : s = (z.success /\ ~(z.current /\ z.auto_commit))
    BY Zenon
  <2>4. y = [z EXCEPT !.success = s, !.result = "closed", !.open_result = FALSE]
    BY <2>1, <2>3, Zenon
  <2>5. /\ z \in Context
        /\ z.auto_commit = x.auto_commit /\ z.is_invalidated = x.is_invalidated
        /\ z.transaction_invalidated = x.transaction_invalidated
        /\ x.odd \subseteq z.odd
        /\ ~z.active_query
        /\ z.current => x.current
        /\ x.current /\ ~x.auto_commit => z.current
        /\ z.current /\ x.auto_commit => "commit_failed" \in z.odd
    BY <2>2, FinalizeFacts, Zenon
  <2>. QED  BY <1>2, <2>4, <2>5, Zenon DEF Context
<1>. QED  BY <1>1, <1>2, Zenon DEF Context

\* Cleanup leaves no result, no query number and no explicit transaction behind,
\* and does nothing to a context that is no longer valid.
LEMMA CleanupFacts ==
  ASSUME NEW x \in Context, NEW y \in Cleanup(x)
  PROVE  /\ y \in Context
         /\ y.is_invalidated = x.is_invalidated
         /\ y.transaction_invalidated = x.transaction_invalidated
         /\ x.odd \subseteq y.odd
         /\ x.is_invalidated => y = x
         /\ ~x.is_invalidated =>
              /\ y.auto_commit = x.auto_commit /\ ~y.open_result /\ ~y.active_query
              /\ x.current /\ ~x.auto_commit => ~y.current /\ y.odd # {}
              /\ y.current => x.current /\ x.auto_commit
              /\ x.current /\ x.auto_commit /\ y.current /\ x.open_result => "commit_failed" \in y.odd
<1>1. CASE x.is_invalidated
  BY <1>1, Zenon DEF Cleanup
<1>2. CASE ~x.is_invalidated /\ x.current /\ ~x.auto_commit
  <2>. DEFINE z == [x EXCEPT !.active_query = FALSE, !.current = FALSE,
                             !.odd = @ \cup {"closed_in_transaction"}]
  <2>1. y \in CleanupInternal(z)
    <3>1. [RollbackContext([x EXCEPT !.active_query = FALSE])
             EXCEPT !.odd = @ \cup {"closed_in_transaction"}] = z
      BY Zenon DEF RollbackContext, Context
    <3>. QED  BY <1>2, <3>1, Zenon DEF Cleanup
  <2>2. z \in Context
    BY Zenon DEF Context, Odd
  <2>3. /\ z.is_invalidated = x.is_invalidated /\ z.auto_commit = x.auto_commit
        /\ z.transaction_invalidated = x.transaction_invalidated
        /\ ~z.current /\ ~z.active_query /\ x.odd \subseteq z.odd /\ z.odd # {}
    BY Zenon DEF Context
  <2>. HIDE DEF z
  <2>4. /\ y \in Context /\ y.is_invalidated = z.is_invalidated
        /\ y.transaction_invalidated = z.transaction_invalidated
        /\ y.auto_commit = z.auto_commit /\ ~y.open_result /\ z.odd \subseteq y.odd
        /\ y.active_query => z.active_query
        /\ y.current => z.current
    BY <2>1, <2>2, CleanupInternalFacts
  <2>. QED  BY <1>2, <2>3, <2>4, Zenon
<1>3. CASE ~x.is_invalidated /\ ~(x.current /\ ~x.auto_commit)
  <2>. DEFINE z == [x EXCEPT !.active_query = FALSE]
  <2>1. y \in CleanupInternal(z) /\ z \in Context
    BY <1>3, Zenon DEF Cleanup, Context
  <2>. QED  BY <1>3, <2>1, CleanupInternalFacts DEF Context
<1>. QED  BY <1>1, <1>2, <1>3, Zenon

-----------------------------------------------------------------------------
(* Steps of a client thread.                                                *)

Places == {"none", "idle", "statement", "execute", "close", "cleanup", "remove", "members", "gone", "crashed"}

\* A step of the client thread of c keeps the invariant if it leaves the context
\* as its new place demands, follows the rules of the lock, and changes the
\* transaction of a closed database only after a failed commit or verification.
LEMMA ClientStep ==
  ASSUME ClientInv, NEW c \in Conn, NEW y \in Context, NEW place \in Places,
         NEW n \in 0..MaxStatements, NEW lock,
         ctx' = [ctx EXCEPT ![c] = y], pc' = [pc EXCEPT ![c] = place],
         left' = [left EXCEPT ![c] = n],
         context_lock' = [context_lock EXCEPT ![c] = lock],
         UNCHANGED dbVars,
         Touch(c, ctx[c], y),
         y.is_invalidated = ctx[c].is_invalidated,
         y.transaction_invalidated = ctx[c].transaction_invalidated,
         ctx[c].odd \subseteq y.odd,
         Position(y, place),
         lock = IF place \in {"statement", "execute", "crashed"} THEN "client"
                  ELSE IF context_lock[c] = "closer" THEN "closer" ELSE "free",
         lock = "client" => context_lock[c] # "closer" /\ ~y.is_invalidated,
         place \in {"statement", "execute"} => n > 0,
         pc[c] # "none" /\ place # "none",
         pc[c] \in {"members", "gone"} => place \in {"members", "gone"},
         place \in {"members", "gone"} /\ ~y.is_invalidated => pc[c] \in {"members", "gone"},
         db = "closed" /\ <<ctx[c].current, ctx[c].active_query>> # <<y.current, y.active_query>>
           => Kept(y) \/ Kept(ctx[c])
  PROVE  ClientInv'
<1>. USE DEF ClientInv
<1>0. Kept(ctx[c]) => Kept(y)
  BY Zenon DEF Kept
<1>1. ClientTypeOK'
  <2>1. ctx' \in [Conn -> Context]
    BY Zenon DEF ClientTypeOK, Context, Odd
  <2>2. late' \subseteq {"transaction_manager", "connection_manager", "context"} \X Conn
    BY DEF ClientTypeOK, Touch
  <2>3. lock \in {"free", "client", "closer"}
    BY Zenon
  <2>. QED  BY <2>1, <2>2, <2>3, Zenon DEF ClientTypeOK, Context, Odd, Places, dbVars
<1>2. /\ ctx'[c] = y /\ pc'[c] = place /\ left'[c] = n /\ context_lock'[c] = lock
      /\ \A d \in Conn \ {c} : /\ ctx'[d] = ctx[d] /\ pc'[d] = pc[d]
                               /\ left'[d] = left[d] /\ context_lock'[d] = context_lock[d]
  BY Zenon DEF ClientTypeOK
<1>3. Positions'
  BY <1>2, Zenon DEF Positions
<1>4. closing' = closing /\ db' = db /\ connections' = connections /\ connections_lock' = connections_lock
  BY Zenon DEF dbVars
<1>5. LockInv'
  <2>. SUFFICES ASSUME NEW d \in Conn
                PROVE  /\ context_lock'[d] = "client" <=> pc'[d] \in {"statement", "execute", "crashed"}
                       /\ context_lock'[d] = "closer" <=> closing' = <<d, "result">>
                       /\ context_lock'[d] = "client" => ~ctx'[d].is_invalidated
                       /\ pc'[d] \in {"statement", "execute"} => left'[d] > 0
    BY Zenon DEF LockInv
  <2>1. CASE d = c
    BY <1>2, <1>4, <2>1 DEF LockInv
  <2>2. CASE d # c
    BY <1>2, <1>4, <2>2, Zenon DEF LockInv
  <2>. QED  BY <2>1, <2>2, Zenon
<1>6. CloseInv'
  <2>. SUFFICES ASSUME NEW d \in Conn
                PROVE  /\ closing' = <<d, "wait">> => d \in connections'
                       /\ closing' = <<d, "result">> => d \in connections' /\ ctx'[d].is_invalidated
                       /\ ctx'[d].is_invalidated /\ closing' # <<d, "result">> =>
                            ctx'[d].transaction_invalidated /\ d \notin connections'
                       /\ d \notin connections' =>
                            ctx'[d].is_invalidated \/ pc'[d] \in {"none", "members", "gone"}
                       /\ pc'[d] = "none" => d \notin connections' /\ ~ctx'[d].is_invalidated
                       /\ pc'[d] \in {"members", "gone"} /\ ~ctx'[d].is_invalidated
                            => d \notin connections'
    <3>1. ASSUME db = "closed", NEW e \in connections PROVE Kept(ctx'[e])
      <4>1. Kept(ctx[e]) /\ e \in Conn
        BY <3>1, Zenon DEF CloseInv, ClientTypeOK
      <4>. QED  BY <1>0, <1>2, <4>1, Zenon
    <3>. QED  BY <1>4, <3>1, Zenon DEF CloseInv
  <2>1. CASE d = c
    BY <1>2, <1>4, <2>1 DEF CloseInv
  <2>2. CASE d # c
    BY <1>2, <1>4, <2>2, Zenon DEF CloseInv
  <2>. QED  BY <2>1, <2>2, Zenon
<1>7. ManagerUsedAlive'
  <2>. SUFFICES ASSUME NEW d \in Conn, <<"transaction_manager", d>> \in late'
                PROVE  Kept(ctx'[d])
    BY Zenon DEF ManagerUsedAlive, Kept
  <2>1. CASE <<"transaction_manager", d>> \in late
    <3>1. Kept(ctx[d])
      BY <2>1, Zenon DEF ManagerUsedAlive, Kept
    <3>2. ctx[d].odd \subseteq ctx'[d].odd
      BY <1>2, Zenon
    <3>. QED  BY <3>1, <3>2, Zenon DEF Kept
  <2>2. CASE <<"transaction_manager", d>> \notin late
    BY <1>0, <1>2, <2>2, Zenon DEF Touch
  <2>. QED  BY <2>1, <2>2, Zenon
<1>. QED  BY <1>1, <1>3, <1>5, <1>6, <1>7, Zenon

\* What the invariant says of one context.
LEMMA OneContext ==
  ASSUME ClientInv, NEW c \in Conn
  PROVE  /\ ctx[c] \in Context /\ pc[c] \in Places /\ left[c] \in 0..MaxStatements
         /\ ctx = [ctx EXCEPT ![c] = ctx[c]] /\ pc = [pc EXCEPT ![c] = pc[c]]
         /\ left = [left EXCEPT ![c] = left[c]]
         /\ context_lock = [context_lock EXCEPT ![c] = context_lock[c]]
         /\ context_lock[c] \in {"free", "client", "closer"}
         /\ Position(ctx[c], pc[c])
         /\ context_lock[c] = "client" <=> pc[c] \in {"statement", "execute", "crashed"}
         /\ context_lock[c] = "client" => ~ctx[c].is_invalidated
         /\ context_lock[c] = "free" /\ ctx[c].is_invalidated => ctx[c].transaction_invalidated
         /\ db = "closed" => /\ context_lock[c] # "closer"
                             /\ \/ ctx[c].is_invalidated \/ Kept(ctx[c])
                                \/ pc[c] \in {"none", "members", "gone"}
                             /\ ctx[c].is_invalidated => ctx[c].transaction_invalidated
         /\ pc[c] \in {"statement", "execute"} => left[c] > 0
<1>1. /\ ctx[c] \in Context /\ pc[c] \in Places /\ left[c] \in 0..MaxStatements
      /\ ctx = [ctx EXCEPT ![c] = ctx[c]] /\ pc = [pc EXCEPT ![c] = pc[c]]
      /\ left = [left EXCEPT ![c] = left[c]]
      /\ context_lock = [context_lock EXCEPT ![c] = context_lock[c]]
      /\ context_lock[c] \in {"free", "client", "closer"}
  BY Zenon DEF ClientInv, ClientTypeOK, Context, Odd, Places
<1>2. Position(ctx[c], pc[c])
  BY Zenon DEF ClientInv, Positions
<1>3. /\ context_lock[c] = "client" <=> pc[c] \in {"statement", "execute", "crashed"}
      /\ context_lock[c] = "client" => ~ctx[c].is_invalidated
      /\ pc[c] \in {"statement", "execute"} => left[c] > 0
      /\ context_lock[c] = "closer" <=> closing = <<c, "result">>
  BY Zenon DEF ClientInv, LockInv
<1>4. /\ ctx[c].is_invalidated /\ closing # <<c, "result">> => ctx[c].transaction_invalidated
      /\ db = "closed" => closing = <<>> /\ (c \in connections => Kept(ctx[c]))
      /\ c \notin connections => ctx[c].is_invalidated \/ pc[c] \in {"none", "members", "gone"}
  BY Zenon DEF ClientInv, CloseInv
<1>5. db = "closed" => context_lock[c] # "closer"
  BY <1>3, <1>4
<1>6. context_lock[c] = "free" \/ db = "closed" => closing # <<c, "result">>
  BY <1>3, <1>5, Zenon
<1>. QED  BY <1>1, <1>2, <1>3, <1>4, <1>5, <1>6, Zenon

\* Query, up to its loop: an open result is closed first.
LEMMA QueryKeeps ==
  ASSUME ClientInv, NEW c \in Conn, NEW n \in 0..MaxStatements, Query(c, n)
  PROVE  ClientInv' \/ UNCHANGED vars
<1>1. CASE ctx[c].is_invalidated
  BY <1>1, Zenon DEF Query, vars, clientVars
<1>2. CASE ~ctx[c].is_invalidated
  <2>1. PICK y \in CleanupInternal(ctx[c]) : Become(c, y)
    BY <1>2, Zenon DEF Query
  <2>2. ctx[c] \in Context /\ pc[c] = "idle" /\ Resting(ctx[c]) /\ context_lock[c] = "free"
    BY <1>2, OneContext, Zenon DEF Query, Position, Locks
  <2>3. /\ y \in Context
        /\ y.auto_commit = ctx[c].auto_commit /\ ~y.open_result
        /\ y.is_invalidated = ctx[c].is_invalidated
        /\ y.transaction_invalidated = ctx[c].transaction_invalidated
        /\ ctx[c].odd \subseteq y.odd
        /\ ~ctx[c].open_result => y = ctx[c]
        /\ y.active_query => ctx[c].active_query
        /\ y.current => ctx[c].current
        /\ ctx[c].open_result =>
             /\ ~y.active_query
             /\ ctx[c].current /\ ~ctx[c].auto_commit => y.current
             /\ y.current /\ ctx[c].auto_commit => "commit_failed" \in y.odd
    BY <2>1, <2>2, CleanupInternalFacts, Zenon
  <2>4. Resting(y)
    BY <2>2, <2>3, Zenon DEF Resting, Kept
  <2>5. db = "closed" => Kept(ctx[c])
    BY <1>2, <2>2, OneContext, Zenon
  <2>6. ctx' = [ctx EXCEPT ![c] = y] /\ Touch(c, ctx[c], y) /\ UNCHANGED dbVars
    BY <2>1, Zenon DEF Become, Query
  <2>7. CASE n = 0
    <3>1. /\ pc' = [pc EXCEPT ![c] = "idle"] /\ left' = [left EXCEPT ![c] = left[c]]
          /\ context_lock' = [context_lock EXCEPT ![c] = "free"] /\ left[c] \in 0..MaxStatements
      BY <1>2, <2>2, <2>7, OneContext, Zenon DEF Query
    <3>. QED  BY <1>2, <2>2, <2>3, <2>4, <2>5, <2>6, <3>1, ClientStep, Zenon DEF Places, Position
  <2>8. CASE n # 0
    <3>1. /\ pc' = [pc EXCEPT ![c] = "statement"] /\ left' = [left EXCEPT ![c] = n]
          /\ context_lock' = [context_lock EXCEPT ![c] = "client"] /\ n > 0
      BY <1>2, <2>8 DEF Query, Locks, Go
    <3>. QED  BY <1>2, <2>2, <2>3, <2>4, <2>5, <2>6, <3>1, ClientStep, Zenon DEF Places, Position
  <2>. QED  BY <2>7, <2>8, Zenon
<1>. QED  BY <1>1, <1>2, Zenon

\* The end of a query: the lock is given back.
LEMMA ReturnKeeps ==
  ASSUME ClientInv, NEW c \in Conn, pc[c] \in {"statement", "execute"},
         NEW y \in Context, Become(c, y), Return(c), UNCHANGED dbVars,
         y.is_invalidated = ctx[c].is_invalidated,
         y.transaction_invalidated = ctx[c].transaction_invalidated,
         ctx[c].odd \subseteq y.odd,
         Resting(y)
  PROVE  ClientInv'
<1>1. /\ ctx[c] \in Context /\ context_lock[c] = "client" /\ ~ctx[c].is_invalidated
      /\ db = "closed" => Kept(ctx[c])
  BY OneContext, Zenon
<1>2. /\ ctx' = [ctx EXCEPT ![c] = y] /\ Touch(c, ctx[c], y)
      /\ pc' = [pc EXCEPT ![c] = "idle"] /\ left' = [left EXCEPT ![c] = 0]
      /\ context_lock' = [context_lock EXCEPT ![c] = "free"]
  BY Zenon DEF Become, Return, Go, Unlocks
<1>3. 0 \in 0..MaxStatements
  BY ClientAssumption
<1>. QED  BY <1>1, <1>2, <1>3, ClientStep, Zenon DEF Places, Position

\* The head of the loop over the statements.
LEMMA BeginStatementKeeps ==
  ASSUME ClientInv, NEW c \in Conn, BeginStatement(c)
  PROVE  ClientInv'
<1>1. /\ ctx[c] \in Context /\ pc[c] = "statement" /\ ~ctx[c].is_invalidated
      /\ Resting(ctx[c]) /\ ~ctx[c].open_result
      /\ context_lock[c] = "client" /\ (db = "closed" => Kept(ctx[c])) /\ left[c] \in 0..MaxStatements /\ left[c] > 0
      /\ left = [left EXCEPT ![c] = left[c]]
      /\ context_lock = [context_lock EXCEPT ![c] = context_lock[c]]
      /\ ctx = [ctx EXCEPT ![c] = ctx[c]]
  BY OneContext, Zenon DEF BeginStatement, Position
<1>2. UNCHANGED dbVars
  BY Zenon DEF BeginStatement
<1>3. CASE ctx[c].auto_commit = ctx[c].current /\ ctx[c].current
  <2>1. Become(c, ctx[c]) /\ Return(c)
    BY <1>1, <1>3, Zenon DEF BeginStatement, Become, Touch
  <2>. QED  BY <1>1, <1>2, <2>1, ReturnKeeps, Zenon
<1>4. CASE ctx[c].auto_commit = ctx[c].current /\ ~ctx[c].current
  <2>1. /\ ctx' = [ctx EXCEPT ![c] = ctx[c]] /\ pc' = [pc EXCEPT ![c] = "crashed"]
        /\ left' = [left EXCEPT ![c] = left[c]]
        /\ context_lock' = [context_lock EXCEPT ![c] = "client"]
        /\ Touch(c, ctx[c], ctx[c])
    BY <1>1, <1>4, Zenon DEF BeginStatement, Go, Touch
  <2>. QED  BY <1>1, <1>2, <2>1, ClientStep, Zenon DEF Places, Position
<1>5. CASE ctx[c].auto_commit # ctx[c].current
  <2>. DEFINE y == [ctx[c] EXCEPT !.current = TRUE, !.active_query = TRUE]
  <2>1. /\ ctx' = [ctx EXCEPT ![c] = y] /\ pc' = [pc EXCEPT ![c] = "execute"]
        /\ left' = [left EXCEPT ![c] = left[c]]
        /\ context_lock' = [context_lock EXCEPT ![c] = "client"]
        /\ Touch(c, ctx[c], y)
    BY <1>1, <1>5, Zenon DEF BeginStatement, Go, Become
  <2>2. /\ y \in Context /\ ~y.open_result /\ y.current /\ y.active_query
        /\ y.is_invalidated = ctx[c].is_invalidated
        /\ y.transaction_invalidated = ctx[c].transaction_invalidated
        /\ y.odd = ctx[c].odd
    BY <1>1, Zenon DEF Context
  <2>. HIDE DEF y
  <2>. QED  BY <1>1, <1>2, <2>1, <2>2, ClientStep, Zenon DEF Places, Position
<1>. QED  BY <1>3, <1>4, <1>5, Zenon

\* What a statement makes of the context before FinalizeQuery.
Executed(c, x) ==
  /\ x \in Context
  /\ x.is_invalidated = ctx[c].is_invalidated
  /\ x.transaction_invalidated = ctx[c].transaction_invalidated
  /\ ctx[c].odd \subseteq x.odd
  /\ ~x.open_result /\ (x.current \/ x.auto_commit)

\* After FinalizeQuery the context is what the next statement expects.
LEMMA FinalizedRests ==
  ASSUME NEW c \in Conn, NEW x, Executed(c, x), NEW success \in BOOLEAN,
         NEW y \in FinalizeQuery(x, success)
  PROVE  /\ y \in Context /\ Resting(y) /\ ~y.open_result
         /\ y.is_invalidated = ctx[c].is_invalidated
         /\ y.transaction_invalidated = ctx[c].transaction_invalidated
         /\ ctx[c].odd \subseteq y.odd
<1>1. /\ y \in Context
      /\ y.auto_commit = x.auto_commit /\ y.open_result = x.open_result
      /\ y.is_invalidated = x.is_invalidated
      /\ y.transaction_invalidated = x.transaction_invalidated
      /\ x.odd \subseteq y.odd
      /\ ~y.active_query
      /\ y.current => x.current
      /\ x.current /\ ~x.auto_commit => y.current
      /\ y.current /\ x.auto_commit => "commit_failed" \in y.odd
  BY FinalizeFacts DEF Executed
<1>2. Resting(y)
  BY <1>1, Zenon DEF Executed, Resting, Kept
<1>. QED  BY <1>1, <1>2, Zenon DEF Executed

\* A statement that failed ends the query.
LEMMA FailKeeps ==
  ASSUME ClientInv, NEW c \in Conn, pc[c] = "execute", NEW x, Executed(c, x), Fail(c, x)
  PROVE  ClientInv'
<1>1. PICK y \in FinalizeQuery(x, FALSE) : Become(c, y)
  BY Zenon DEF Fail
<1>2. /\ y \in Context /\ Resting(y)
      /\ y.is_invalidated = ctx[c].is_invalidated
      /\ y.transaction_invalidated = ctx[c].transaction_invalidated
      /\ ctx[c].odd \subseteq y.odd
  BY FinalizedRests, Zenon
<1>. QED  BY <1>1, <1>2, ReturnKeeps, Zenon DEF Fail

\* A statement that is done is followed by the next one or ends the query.
LEMMA SucceedKeeps ==
  ASSUME ClientInv, NEW c \in Conn, pc[c] = "execute", NEW x, Executed(c, x), Succeed(c, x)
  PROVE  ClientInv'
<1>1. PICK y \in FinalizeQuery(x, TRUE) : Become(c, y)
  BY Zenon DEF Succeed
<1>2. /\ y \in Context /\ Resting(y) /\ ~y.open_result
      /\ y.is_invalidated = ctx[c].is_invalidated
      /\ y.transaction_invalidated = ctx[c].transaction_invalidated
      /\ ctx[c].odd \subseteq y.odd
  BY FinalizedRests, Zenon
<1>3. CASE left[c] = 1
  BY <1>1, <1>2, <1>3, ReturnKeeps, Zenon DEF Succeed
<1>4. CASE left[c] # 1
  <2>1. /\ ctx[c] \in Context /\ ~ctx[c].is_invalidated /\ context_lock[c] = "client"
        /\ (db = "closed" => Kept(ctx[c])) /\ left[c] \in 0..MaxStatements /\ left[c] > 0
        /\ context_lock = [context_lock EXCEPT ![c] = context_lock[c]]
    BY OneContext, Zenon
  <2>2. /\ left' = [left EXCEPT ![c] = left[c] - 1] /\ pc' = [pc EXCEPT ![c] = "statement"]
        /\ context_lock' = [context_lock EXCEPT ![c] = "client"] /\ UNCHANGED dbVars
        /\ ctx' = [ctx EXCEPT ![c] = y] /\ Touch(c, ctx[c], y)
    BY <1>1, <1>4, <2>1, Zenon DEF Succeed, Go, Become
  <2>3. left[c] - 1 \in 0..MaxStatements /\ left[c] - 1 > 0
    BY <1>4, <2>1, ClientAssumption
  <2>. QED  BY <1>2, <2>1, <2>2, <2>3, ClientStep, Zenon DEF Places, Position
<1>. QED  BY <1>3, <1>4, Zenon

\* The statements: a query or change of data, a stream, BEGIN, COMMIT, ROLLBACK,
\* and a verification that fails.
LEMMA ExecuteKeeps ==
  ASSUME ClientInv, NEW c \in Conn,
         \/ FailVerification(c) \/ Execute(c) \/ ExecuteStream(c)
         \/ ExecuteBegin(c) \/ ExecuteCommit(c) \/ ExecuteRollback(c)
  PROVE  ClientInv'
<1>. DEFINE x == ctx[c]
<1>1. /\ pc[c] = "execute" /\ x \in Context /\ x.current /\ x.active_query /\ ~x.open_result
      /\ ~x.is_invalidated
  BY OneContext, Zenon DEF Position, FailVerification, Execute, ExecuteStream, ExecuteBegin,
                    ExecuteCommit, ExecuteRollback
<1>2. Executed(c, x)
  BY <1>1, Zenon DEF Executed
<1>3. CASE FailVerification(c)
  <2>. DEFINE y == [x EXCEPT !.odd = @ \cup {"verification_failed"}]
  <2>1. /\ y \in Context /\ ~y.open_result /\ y.is_invalidated = x.is_invalidated
        /\ y.transaction_invalidated = x.transaction_invalidated
        /\ x.odd \subseteq y.odd /\ "verification_failed" \in y.odd
    BY <1>1, Zenon DEF Context, Odd
  <2>2. Become(c, y) /\ Return(c) /\ UNCHANGED dbVars
    BY <1>3, Zenon DEF FailVerification
  <2>. HIDE DEF y
  <2>3. Resting(y)
    BY <2>1, Zenon DEF Resting, Kept
  <2>. QED  BY <1>1, <2>1, <2>2, <2>3, ReturnKeeps, Zenon
<1>4. CASE Execute(c)
  BY <1>1, <1>2, <1>4, FailKeeps, SucceedKeeps, Zenon DEF Execute
<1>5. CASE ExecuteStream(c)
  <2>. DEFINE y == [x EXCEPT !.open_result = TRUE, !.result = "open", !.success = TRUE]
  <2>1. /\ y \in Context /\ y.is_invalidated = x.is_invalidated
        /\ y.transaction_invalidated = x.transaction_invalidated
        /\ x.odd = y.odd /\ y.open_result /\ y.result = "open" /\ y.success
        /\ y.current /\ y.active_query
    BY <1>1, Zenon DEF Context
  <2>2. Become(c, y) /\ Return(c) /\ UNCHANGED dbVars
    BY <1>5, Zenon DEF ExecuteStream
  <2>. HIDE DEF y
  <2>3. Resting(y)
    BY <2>1, Zenon DEF Resting
  <2>. QED  BY <1>1, <2>1, <2>2, <2>3, ReturnKeeps, Zenon
<1>6. CASE ExecuteBegin(c)
  <2>1. Executed(c, [x EXCEPT !.auto_commit = FALSE])
    BY <1>1, Zenon DEF Executed, Context
  <2>. QED  BY <1>1, <1>2, <1>6, <2>1, FailKeeps, SucceedKeeps, Zenon DEF ExecuteBegin
<1>7. CASE ExecuteCommit(c)
  <2>1. CASE x.auto_commit
    BY <1>1, <1>2, <1>7, <2>1, FailKeeps, Zenon DEF ExecuteCommit
  <2>2. CASE ~x.auto_commit
    <3>1. PICK y \in Commit(x) :
            IF y.current THEN Fail(c, y) ELSE Succeed(c, [y EXCEPT !.auto_commit = TRUE])
      BY <1>7, <2>2, Zenon DEF ExecuteCommit
    <3>2. y = [x EXCEPT !.current = FALSE, !.active_query = FALSE] \/ y = x
      BY <1>1, <2>2, <3>1 DEF Commit, Context
    <3>3. CASE y = x
      BY <1>1, <1>2, <3>1, <3>3, FailKeeps, Zenon
    <3>4. CASE y = [x EXCEPT !.current = FALSE, !.active_query = FALSE]
      <4>1. ~y.current /\ Executed(c, [y EXCEPT !.auto_commit = TRUE])
        BY <1>1, <3>4, Zenon DEF Executed, Context
      <4>. QED  BY <1>1, <3>1, <4>1, SucceedKeeps, Zenon
    <3>. QED  BY <3>2, <3>3, <3>4, Zenon
  <2>. QED  BY <2>1, <2>2, Zenon
<1>8. CASE ExecuteRollback(c)
  <2>1. Executed(c, [RollbackContext(x) EXCEPT !.auto_commit = TRUE])
    BY <1>1, Zenon DEF Executed, RollbackContext, Context
  <2>. QED  BY <1>1, <1>2, <1>8, <2>1, FailKeeps, SucceedKeeps, Zenon DEF ExecuteRollback
<1>. QED  BY <1>3, <1>4, <1>5, <1>6, <1>7, <1>8, Zenon

\* A step of an idle or closing client that leaves the locks alone.
LEMMA UnlockedKeeps ==
  ASSUME ClientInv, NEW c \in Conn, pc[c] \in {"idle", "close", "cleanup", "members"},
         NEW y \in Context, ctx' = [ctx EXCEPT ![c] = y], Touch(c, ctx[c], y),
         NEW place \in {"idle", "close", "cleanup", "remove", "members", "gone"},
         pc' = [pc EXCEPT ![c] = place],
         UNCHANGED <<left, context_lock, dbVars>>,
         y.is_invalidated = ctx[c].is_invalidated,
         y.transaction_invalidated = ctx[c].transaction_invalidated,
         ctx[c].odd \subseteq y.odd,
         Position(y, place),
         pc[c] = "members" => place \in {"members", "gone"},
         place \in {"members", "gone"} /\ ~y.is_invalidated => pc[c] = "members",
         db = "closed" /\ <<ctx[c].current, ctx[c].active_query>> # <<y.current, y.active_query>>
           => Kept(y) \/ Kept(ctx[c])
  PROVE  ClientInv'
<1>1. /\ left[c] \in 0..MaxStatements
      /\ left = [left EXCEPT ![c] = left[c]]
      /\ context_lock = [context_lock EXCEPT ![c] = context_lock[c]]
      /\ context_lock[c] \in {"free", "closer"}
  BY OneContext, Zenon
<1>2. /\ left' = [left EXCEPT ![c] = left[c]]
      /\ context_lock' = [context_lock EXCEPT ![c] = context_lock[c]]
  BY <1>1, Zenon
<1>3. /\ place \notin {"statement", "execute", "crashed"} /\ place \in Places
      /\ pc[c] # "none" /\ place # "none"
      /\ pc[c] \in {"members", "gone"} => place \in {"members", "gone"}
      /\ place \in {"members", "gone"} /\ ~y.is_invalidated => pc[c] \in {"members", "gone"}
  BY Zenon DEF Places
<1>. QED  BY <1>1, <1>2, <1>3, ClientStep, Zenon

\* Calls of the client on a result, and the destructor of the connection up to
\* the removal from the list.
LEMMA ResultKeeps ==
  ASSUME ClientInv, NEW c \in Conn,
         \/ Fetch(c) \/ Close(c) \/ DestroyResult(c) \/ BeginDestroy(c) \/ DestroyCleanup(c)
         \/ DestroyMembers(c)
  PROVE  ClientInv'
<1>. DEFINE x == ctx[c]
<1>1. /\ x \in Context /\ ctx = [ctx EXCEPT ![c] = x] /\ pc = [pc EXCEPT ![c] = pc[c]]
      /\ Position(x, pc[c])
      /\ context_lock[c] = "free" /\ x.is_invalidated => x.transaction_invalidated
      /\ db = "closed" => /\ x.is_invalidated \/ Kept(x) \/ pc[c] \in {"none", "members", "gone"}
                          /\ x.is_invalidated => x.transaction_invalidated
  BY OneContext, Zenon
<1>2. Touch(c, x, x) <=> late' = late
  BY Zenon DEF Touch
<1>3. CASE Fetch(c)
  <2>1. /\ pc[c] = "idle" /\ UNCHANGED <<left, context_lock, dbVars>> /\ context_lock[c] = "free"
    BY <1>3, Zenon DEF Fetch
  <2>2. CASE Go(c, "close") /\ UNCHANGED <<ctx, late>>
    <3>1. Position(x, "close")
      BY <1>1, <2>1, Zenon DEF Position
    <3>. QED  BY <1>1, <1>2, <2>1, <2>2, <3>1, UnlockedKeeps, Zenon DEF Go
  <2>3. CASE UNCHANGED <<ctx, pc, late>>
    BY <1>1, <1>2, <2>1, <2>3, UnlockedKeeps
  <2>4. CASE ~x.is_invalidated /\ UNCHANGED pc
             /\ \E y \in CleanupInternal([x EXCEPT !.success = FALSE]) : Become(c, y)
    <3>. DEFINE z == [x EXCEPT !.success = FALSE]
    <3>1. /\ z \in Context /\ z.auto_commit = x.auto_commit /\ z.open_result = x.open_result
          /\ z.is_invalidated = x.is_invalidated
          /\ z.transaction_invalidated = x.transaction_invalidated /\ z.odd = x.odd
          /\ z.current = x.current /\ z.active_query = x.active_query
      BY <1>1, Zenon DEF Context
    <3>2. PICK y \in CleanupInternal(z) : Become(c, y)
      BY <2>4, Zenon
    <3>. HIDE DEF z
    <3>3. /\ y \in Context
          /\ y.auto_commit = z.auto_commit /\ ~y.open_result
          /\ y.is_invalidated = z.is_invalidated
          /\ y.transaction_invalidated = z.transaction_invalidated
          /\ z.odd \subseteq y.odd
          /\ ~z.open_result => y = z
          /\ y.active_query => z.active_query
          /\ y.current => z.current
          /\ z.open_result =>
               /\ ~y.active_query
               /\ z.current /\ ~z.auto_commit => y.current
               /\ y.current /\ z.auto_commit => "commit_failed" \in y.odd
      BY <3>1, <3>2, CleanupInternalFacts, Zenon
    <3>4. Resting(x)
      BY <1>1, <2>1, <2>4, Zenon DEF Position
    <3>5. Resting(y)
      BY <3>1, <3>3, <3>4, Zenon DEF Resting, Kept
    <3>6. Position(y, "idle")
      BY <3>5, Zenon DEF Position
    <3>7. ctx' = [ctx EXCEPT ![c] = y] /\ Touch(c, x, y) /\ pc' = [pc EXCEPT ![c] = "idle"]
          /\ (db = "closed" => Kept(x))
      BY <1>1, <2>1, <2>4, <3>2, Zenon DEF Become
    <3>. QED  BY <2>1, <3>1, <3>3, <3>6, <3>7, UnlockedKeeps, Zenon
  <2>. QED  BY <1>3, <2>2, <2>3, <2>4, Zenon DEF Fetch
<1>4. CASE Close(c)
  <2>1. /\ pc[c] \in {"idle", "close"} /\ UNCHANGED <<left, context_lock, dbVars>>
        /\ pc' = [pc EXCEPT ![c] = "idle"]
    BY <1>4, Zenon DEF Close, Go
  <2>2. Position(x, "idle")
    BY <1>1, <2>1, Zenon DEF Position
  <2>3. CASE x.result = "open"
    <3>1. PICK y \in Cleanup(x) : Become(c, y)
      BY <1>4, <2>3, Zenon DEF Close
    <3>2. /\ y \in Context
          /\ y.is_invalidated = x.is_invalidated
          /\ y.transaction_invalidated = x.transaction_invalidated
          /\ x.odd \subseteq y.odd
          /\ x.is_invalidated => y = x
          /\ ~x.is_invalidated =>
               /\ y.auto_commit = x.auto_commit /\ ~y.open_result /\ ~y.active_query
               /\ x.current /\ ~x.auto_commit => ~y.current /\ y.odd # {}
               /\ y.current => x.current /\ x.auto_commit
               /\ x.current /\ x.auto_commit /\ y.current /\ x.open_result => "commit_failed" \in y.odd
      BY <1>1, <3>1, CleanupFacts, Zenon
    <3>3. ~x.is_invalidated => Resting(y)
      BY <2>2, <3>2, Zenon DEF Position, Resting, Kept
    <3>4. Position(y, "idle")
      BY <3>2, <3>3, Zenon DEF Position
    <3>5. db = "closed" => y = x \/ Kept(x)
      BY <1>1, <2>1, <3>2, Zenon
    <3>6. ctx' = [ctx EXCEPT ![c] = y] /\ Touch(c, x, y)
      BY <3>1, Zenon DEF Become
    <3>. QED  BY <2>1, <3>2, <3>4, <3>5, <3>6, UnlockedKeeps, Zenon
  <2>4. CASE x.result # "open"
    BY <1>1, <1>2, <1>4, <2>1, <2>2, <2>4, UnlockedKeeps, Zenon DEF Close
  <2>. QED  BY <2>3, <2>4, Zenon
<1>5. CASE DestroyResult(c)
  <2>. DEFINE y == [x EXCEPT !.result = "none", !.success = TRUE]
  <2>1. /\ pc[c] = "idle" /\ UNCHANGED <<left, context_lock, dbVars>> /\ late' = late
        /\ pc' = [pc EXCEPT ![c] = "idle"] /\ ctx' = [ctx EXCEPT ![c] = y] /\ x.result = "closed"
    BY <1>1, <1>5, Zenon DEF DestroyResult, Context
  <2>2. /\ y \in Context /\ y.is_invalidated = x.is_invalidated
        /\ y.transaction_invalidated = x.transaction_invalidated /\ y.odd = x.odd
        /\ y.current = x.current /\ y.active_query = x.active_query
        /\ y.auto_commit = x.auto_commit /\ y.open_result = x.open_result
    BY <1>1, Zenon DEF Context
  <2>. HIDE DEF y
  <2>3. Position(y, "idle")
    BY <1>1, <2>1, <2>2, Zenon DEF Position, Resting, Kept
  <2>4. Touch(c, x, y)
    BY <2>1, <2>2, Zenon DEF Touch
  <2>. QED  BY <2>1, <2>2, <2>3, <2>4, UnlockedKeeps, Zenon
<1>6. CASE BeginDestroy(c)
  <2>1. /\ pc[c] = "idle" /\ UNCHANGED <<left, context_lock, dbVars>> /\ late' = late
        /\ ctx' = [ctx EXCEPT ![c] = x]
    BY <1>1, <1>6, Zenon DEF BeginDestroy
  <2>2. CASE x.is_invalidated
    <3>1. pc' = [pc EXCEPT ![c] = "members"] /\ Position(x, "members")
      BY <1>6, <2>2, Zenon DEF BeginDestroy, Go, Position
    <3>. QED  BY <1>1, <1>2, <2>1, <2>2, <3>1, UnlockedKeeps, Zenon
  <2>3. CASE ~x.is_invalidated
    <3>1. pc' = [pc EXCEPT ![c] = "cleanup"] /\ Position(x, "cleanup")
      BY <1>1, <1>6, <2>1, <2>3, Zenon DEF BeginDestroy, Go, Position
    <3>. QED  BY <1>1, <1>2, <2>1, <3>1, UnlockedKeeps, Zenon
  <2>. QED  BY <2>2, <2>3, Zenon
<1>7. CASE DestroyCleanup(c)
  <2>1. /\ pc[c] = "cleanup" /\ UNCHANGED <<left, context_lock, dbVars>>
        /\ pc' = [pc EXCEPT ![c] = "remove"]
    BY <1>7, Zenon DEF DestroyCleanup, Go
  <2>2. PICK y \in Cleanup(x) : Become(c, y)
    BY <1>7, Zenon DEF DestroyCleanup
  <2>3. /\ y \in Context
        /\ y.is_invalidated = x.is_invalidated
        /\ y.transaction_invalidated = x.transaction_invalidated
        /\ x.odd \subseteq y.odd
        /\ x.is_invalidated => y = x
        /\ ~x.is_invalidated =>
             /\ y.auto_commit = x.auto_commit /\ ~y.open_result /\ ~y.active_query
             /\ y.current => x.current /\ x.auto_commit
             /\ x.current /\ x.auto_commit /\ y.current /\ x.open_result => "commit_failed" \in y.odd
    BY <1>1, <2>2, CleanupFacts
  <2>4. Position(y, "remove")
    BY <1>1, <2>1, <2>3, Zenon DEF Position, Resting, Cleaned, Kept
  <2>5. db = "closed" => y = x \/ Kept(x)
    BY <1>1, <2>1, <2>3, Zenon
  <2>6. ctx' = [ctx EXCEPT ![c] = y] /\ Touch(c, x, y)
    BY <2>2, Zenon DEF Become
  <2>. QED  BY <2>1, <2>3, <2>4, <2>5, <2>6, UnlockedKeeps, Zenon
<1>8. CASE DestroyMembers(c)
  <2>1. /\ pc[c] = "members" /\ UNCHANGED <<left, context_lock, dbVars>>
        /\ pc' = [pc EXCEPT ![c] = "gone"]
    BY <1>8, Zenon DEF DestroyMembers, Go
  <2>2. CASE UNCHANGED <<ctx, late>>
    <3>1. Position(x, "gone")
      BY <1>1, <2>1, Zenon DEF Position
    <3>. QED  BY <1>1, <1>2, <2>1, <2>2, <3>1, UnlockedKeeps, Zenon
  <2>3. CASE ~x.transaction_invalidated /\ Become(c, RollbackContext(x))
    <3>. DEFINE y == RollbackContext(x)
    <3>1. /\ y \in Context /\ y.is_invalidated = x.is_invalidated
          /\ y.transaction_invalidated = x.transaction_invalidated /\ y.odd = x.odd
          /\ ~y.current /\ ~y.active_query /\ y.open_result = x.open_result
      BY <1>1, Zenon DEF RollbackContext, Context
    <3>2. ctx' = [ctx EXCEPT ![c] = y] /\ Touch(c, x, y)
      BY <2>3, Zenon DEF Become
    <3>. HIDE DEF y
    <3>3. Position(y, "gone")
      BY <1>1, <2>1, <3>1, Zenon DEF Position, Cleaned
    <3>4. ~x.is_invalidated => ~x.active_query /\ (x.current => Kept(x))
      BY <1>1, <2>1, Zenon DEF Position, Cleaned
    <3>5. db = "closed" /\ <<x.current, x.active_query>> # <<y.current, y.active_query>> => Kept(y)
      BY <1>1, <2>3, <3>1, <3>4, Zenon DEF Kept, Context
    <3>. QED  BY <2>1, <3>1, <3>2, <3>3, <3>5, UnlockedKeeps, Zenon
  <2>. QED  BY <1>8, <2>2, <2>3, Zenon DEF DestroyMembers
<1>. QED  BY <1>3, <1>4, <1>5, <1>6, <1>7, <1>8, Zenon

\* A new connection is listed, perhaps too late.
LEMMA AddKeeps ==
  ASSUME ClientInv, NEW c \in Conn, AddConnection(c)
  PROVE  ClientInv'
<1>. USE DEF ClientInv
<1>1. /\ pc[c] = "none" /\ ~connections_lock /\ connections' = connections \cup {c}
      /\ pc' = [pc EXCEPT ![c] = "idle"]
      /\ UNCHANGED <<left, context_lock, connections_lock, db, closing>>
      /\ late' \subseteq late \cup {<<"connection_manager", c>>}
  BY Zenon DEF AddConnection, Go
<1>2. pc'[c] = "idle" /\ \A d \in Conn \ {c} : pc'[d] = pc[d]
  BY <1>1, Zenon DEF ClientTypeOK
<1>3. ctx[c] \in Context /\ ctx \in [Conn -> Context]
  BY Zenon DEF ClientTypeOK, Context, Odd
<1>4. /\ ctx' \in [Conn -> Context]
      /\ \A d \in Conn \ {c} : ctx'[d] = ctx[d]
      /\ ctx'[c].is_invalidated = ctx[c].is_invalidated
      /\ ctx[c].odd \subseteq ctx'[c].odd
      /\ Resting(ctx[c]) => Resting(ctx'[c])
      /\ db = "closed" => Kept(ctx'[c])
  <2>1. CASE db # "closed"
    BY <1>3, <2>1, Zenon DEF AddConnection
  <2>2. CASE db = "closed"
    <3>. DEFINE y == [ctx[c] EXCEPT !.odd = @ \cup {"connected_late"}]
    <3>1. ctx' = [ctx EXCEPT ![c] = y]
      BY <2>2, Zenon DEF AddConnection
    <3>2. /\ y \in Context /\ "connected_late" \in y.odd /\ ctx[c].odd \subseteq y.odd
          /\ y.is_invalidated = ctx[c].is_invalidated /\ y.open_result = ctx[c].open_result
          /\ y.result = ctx[c].result /\ y.success = ctx[c].success
      BY <1>3, Zenon DEF Context, Odd
    <3>3. ctx'[c] = y /\ \A d \in Conn \ {c} : ctx'[d] = ctx[d]
      BY <1>3, <3>1, Zenon
    <3>4. ctx' \in [Conn -> Context]
      BY <1>3, <3>1, <3>2, Zenon
    <3>. HIDE DEF y
    <3>5. Kept(y)
      BY <3>2, Zenon DEF Kept
    <3>6. Resting(ctx[c]) => Resting(y)
      BY <3>2, <3>5, Zenon DEF Resting
    <3>. QED  BY <3>2, <3>3, <3>4, <3>5, <3>6, Zenon
  <2>. QED  BY <2>1, <2>2, Zenon
<1>5. ClientTypeOK'
  <2>1. pc' \in [Conn -> Places]
    BY <1>1, Zenon DEF ClientTypeOK, Places
  <2>2. late' \subseteq {"transaction_manager", "connection_manager", "context"} \X Conn
    <3>1. <<"connection_manager", c>>
            \in {"transaction_manager", "connection_manager", "context"} \X Conn
      OBVIOUS
    <3>2. late \subseteq {"transaction_manager", "connection_manager", "context"} \X Conn
      BY Zenon DEF ClientTypeOK
    <3>. QED  BY <1>1, <3>1, <3>2, Zenon
  <2>3. connections' \subseteq Conn
    BY <1>1, Zenon DEF ClientTypeOK
  <2>. QED  BY <1>1, <1>4, <2>1, <2>2, <2>3, Zenon DEF ClientTypeOK, Context, Odd, Places
<1>6. Positions'
  <2>1. Position(ctx'[c], "idle")
    BY <1>1, <1>4, Zenon DEF Positions, Position
  <2>. QED  BY <1>2, <1>4, <2>1, Zenon DEF Positions
<1>7. LockInv'
  BY <1>1, <1>2, <1>4, Zenon DEF LockInv
<1>8. closing = <<>> /\ ~ctx[c].is_invalidated
  BY <1>1, Zenon DEF CloseInv
<1>9. CloseInv'
  <2>1. db' = "closed" => \A d \in connections' : Kept(ctx'[d])
    BY <1>1, <1>4, Zenon DEF CloseInv, ClientTypeOK
  <2>. QED  BY <1>1, <1>2, <1>4, <1>8, <2>1, Zenon DEF CloseInv
<1>10. ManagerUsedAlive'
  <2>. SUFFICES ASSUME NEW d \in Conn, <<"transaction_manager", d>> \in late'
                PROVE  Kept(ctx'[d])
    BY Zenon DEF ManagerUsedAlive, Kept
  <2>1. Kept(ctx[d])
    BY <1>1, Zenon DEF ManagerUsedAlive, Kept
  <2>2. ctx[d].odd \subseteq ctx'[d].odd
    BY <1>4, Zenon
  <2>. QED  BY <2>1, <2>2, Zenon DEF Kept
<1>. QED  BY <1>5, <1>6, <1>7, <1>9, <1>10, Zenon

\* The connection takes itself out of the list.
LEMMA RemoveKeeps ==
  ASSUME ClientInv, NEW c \in Conn, RemoveConnection(c)
  PROVE  ClientInv'
<1>. USE DEF ClientInv
<1>1. /\ pc[c] = "remove" /\ ~connections_lock /\ connections' = connections \ {c}
      /\ pc' = [pc EXCEPT ![c] = "members"]
      /\ UNCHANGED <<ctx, left, context_lock, connections_lock, db, closing>>
      /\ late' \subseteq late \cup {<<"connection_manager", c>>}
  BY Zenon DEF RemoveConnection, Go
<1>2. pc'[c] = "members" /\ \A d \in Conn \ {c} : pc'[d] = pc[d]
  BY <1>1, Zenon DEF ClientTypeOK
<1>3. ClientTypeOK'
  BY <1>1 DEF ClientTypeOK
<1>4. Positions'
  <2>1. Position(ctx[c], "members")
    BY <1>1, Zenon DEF Positions, Position
  <2>. QED  BY <1>1, <1>2, <2>1, Zenon DEF Positions
<1>5. LockInv'
  BY <1>1, <1>2, Zenon DEF LockInv
<1>6. closing = <<>>
  BY <1>1, Zenon DEF CloseInv
<1>7. CloseInv'
  BY <1>1, <1>2, <1>6, Zenon DEF CloseInv
<1>8. ManagerUsedAlive'
  BY <1>1, Zenon DEF ManagerUsedAlive
<1>. QED  BY <1>3, <1>4, <1>5, <1>7, <1>8, Zenon

-----------------------------------------------------------------------------
(* Steps of the closing thread.                                             *)

\* The closing thread takes connections_lock, chooses a context, and ends.
LEMMA CloserKeeps ==
  ASSUME ClientInv,
         BeginClosing \/ EndClosing \/ \E c \in Conn : InvalidateInterrupt(c)
  PROVE  ClientInv'
<1>. USE DEF ClientInv
<1>1. /\ UNCHANGED <<ctx, pc, left, context_lock, connections, late>>
  BY Zenon DEF BeginClosing, EndClosing, InvalidateInterrupt, clientVars
<1>2. Positions' /\ ManagerUsedAlive'
  BY <1>1, Zenon DEF Positions, ManagerUsedAlive
<1>3. CASE BeginClosing
  BY <1>1, <1>2, <1>3 DEF BeginClosing, ClientTypeOK, LockInv, CloseInv
<1>4. CASE EndClosing
  BY <1>1, <1>2, <1>4, Zenon DEF EndClosing, ClientTypeOK, LockInv, CloseInv
<1>5. CASE \E c \in Conn : InvalidateInterrupt(c)
  <2>1. PICK c \in Conn : InvalidateInterrupt(c)
    BY <1>5, Zenon
  <2>2. closing = <<>> /\ closing' = <<c, "wait">> /\ db = "closing" /\ c \in connections
        /\ UNCHANGED <<connections_lock, db>>
    BY <2>1, Zenon DEF InvalidateInterrupt
  <2>3. \A d \in Conn : closing' # <<d, "result">> /\ closing # <<d, "result">>
    BY <2>2, Zenon
  <2>4. \A d \in Conn : closing' = <<d, "wait">> => d = c
    BY <2>2, Zenon
  <2>. QED  BY <1>1, <1>2, <2>2, <2>3, <2>4 DEF ClientTypeOK, LockInv, CloseInv
<1>. QED  BY <1>3, <1>4, <1>5, Zenon

\* Invalidate takes the lock of a context and marks it.
LEMMA InvalidateContextKeeps ==
  ASSUME ClientInv, NEW c \in Conn, InvalidateContext(c)
  PROVE  ClientInv'
<1>. USE DEF ClientInv
<1>. DEFINE y == [ctx[c] EXCEPT !.is_invalidated = TRUE]
<1>1. /\ closing = <<c, "wait">> /\ closing' = <<c, "result">> /\ context_lock[c] = "free"
      /\ context_lock' = [context_lock EXCEPT ![c] = "closer"]
      /\ ctx' = [ctx EXCEPT ![c] = y]
      /\ UNCHANGED <<pc, left, connections, connections_lock, db>>
      /\ late' \subseteq late \cup {<<"context", c>>}
  BY Zenon DEF InvalidateContext
<1>2. ctx[c] \in Context /\ ctx \in [Conn -> Context]
  BY Zenon DEF ClientTypeOK, Context, Odd
<1>3. y \in Context /\ y.is_invalidated /\ y.odd = ctx[c].odd
  BY <1>2, Zenon DEF Context
<1>. HIDE DEF y
<1>4. /\ ctx'[c] = y /\ context_lock'[c] = "closer"
      /\ \A d \in Conn \ {c} : ctx'[d] = ctx[d] /\ context_lock'[d] = context_lock[d]
  BY <1>1, <1>2, Zenon DEF ClientTypeOK
<1>5. ClientTypeOK'
  <2>1. ctx' \in [Conn -> Context]
    BY <1>1, <1>2, <1>3, Zenon
  <2>. QED  BY <1>1, <2>1 DEF ClientTypeOK, Context, Odd
<1>6. Positions'
  BY <1>1, <1>3, <1>4 DEF Positions, Position
<1>7. \A d \in Conn : closing' = <<d, "result">> <=> d = c
  BY <1>1, Zenon
<1>8. \A d \in Conn : closing # <<d, "result">> /\ closing' # <<d, "wait">>
  BY <1>1, Zenon
<1>9. LockInv'
  BY <1>1, <1>3, <1>4, <1>7, <1>8 DEF LockInv
<1>10. CloseInv'
  <2>1. closing' \in {<<>>} \cup (Conn \X {"wait", "result"}) /\ db = "closing" /\ c \in connections
    BY <1>1, Zenon DEF CloseInv
  <2>. QED  BY <1>1, <1>3, <1>4, <1>7, <1>8, <2>1 DEF CloseInv
<1>11. ManagerUsedAlive'
  BY <1>1, <1>3, <1>4 DEF ManagerUsedAlive
<1>. QED  BY <1>5, <1>6, <1>9, <1>10, <1>11, Zenon

\* The rest of Invalidate.
LEMMA InvalidateResultKeeps ==
  ASSUME ClientInv, NEW c \in Conn, InvalidateResult(c)
  PROVE  ClientInv'
<1>. USE DEF ClientInv
<1>. DEFINE y == [ctx[c] EXCEPT !.transaction_invalidated = TRUE,
                                !.result = IF ctx[c].open_result THEN "closed" ELSE @]
<1>1. /\ closing = <<c, "result">> /\ closing' = <<>>
      /\ context_lock' = [context_lock EXCEPT ![c] = "free"]
      /\ ctx' = [ctx EXCEPT ![c] = y]
      /\ connections' = connections \ {c}
      /\ UNCHANGED <<pc, left, connections_lock, db>>
      /\ late' \subseteq late \cup {<<"context", c>>}
  BY Zenon DEF InvalidateResult
<1>2. ctx[c] \in Context /\ ctx \in [Conn -> Context]
  BY Zenon DEF ClientTypeOK, Context, Odd
<1>3. /\ y \in Context /\ y.is_invalidated = ctx[c].is_invalidated /\ y.odd = ctx[c].odd
      /\ y.transaction_invalidated
  BY <1>2, Zenon DEF Context
<1>. HIDE DEF y
<1>4. /\ ctx'[c] = y /\ context_lock'[c] = "free"
      /\ \A d \in Conn \ {c} : ctx'[d] = ctx[d] /\ context_lock'[d] = context_lock[d]
  BY <1>1, <1>2, Zenon DEF ClientTypeOK
<1>5. ClientTypeOK'
  <2>1. ctx' \in [Conn -> Context]
    BY <1>1, <1>2, <1>3, Zenon
  <2>. QED  BY <1>1, <2>1 DEF ClientTypeOK, Context, Odd
<1>6. ctx[c].is_invalidated /\ context_lock[c] = "closer"
  BY <1>1, Zenon DEF LockInv, CloseInv
<1>7. Positions'
  BY <1>1, <1>3, <1>4, <1>6, Zenon DEF Positions, Position
<1>8. \A d \in Conn : closing' # <<d, "result">> /\ closing' # <<d, "wait">>
  BY <1>1, Zenon
<1>9. \A d \in Conn \ {c} : closing # <<d, "result">>
  BY <1>1, Zenon
<1>10. LockInv'
  BY <1>1, <1>4, <1>6, <1>8, <1>9 DEF LockInv
<1>11. CloseInv'
  BY <1>1, <1>3, <1>4, <1>6, <1>8, <1>9, Zenon DEF CloseInv
<1>12. ManagerUsedAlive'
  BY <1>1, <1>3, <1>4 DEF ManagerUsedAlive
<1>. QED  BY <1>5, <1>7, <1>10, <1>11, <1>12, Zenon

-----------------------------------------------------------------------------

\* ClientInv holds at the start and after every step.
THEOREM ClientInvariant == ClientSpec => []ClientInv
<1>1. ClientInit => ClientInv
  <2>. SUFFICES ASSUME ClientInit PROVE ClientInv
    BY Zenon
  <2>1. \A c \in Conn : ctx[c] = NewContext
    BY Zenon DEF ClientInit
  <2>2. ASSUME NEW c \in Conn
        PROVE  /\ ctx[c] \in Context /\ ~ctx[c].is_invalidated /\ Resting(ctx[c])
    <3>1. ctx[c] = NewContext
      BY <2>1, Zenon
    <3>2. NewContext \in Context
      BY Zenon DEF NewContext, Context, Odd
    <3>3. /\ ~NewContext.is_invalidated /\ ~NewContext.open_result
          /\ ~NewContext.current /\ ~NewContext.active_query
          /\ NewContext.auto_commit
      BY Zenon DEF NewContext
    <3>. QED  BY <3>1, <3>2, <3>3, Zenon DEF Resting
  <2>3. ctx \in [Conn -> Context]
    BY <2>2, Zenon DEF ClientInit
  <2>4. ClientTypeOK
    <3>1. 0 \in 0..MaxStatements
      BY ClientAssumption
    <3>2. /\ pc \in [Conn -> Places] /\ left \in [Conn -> 0..MaxStatements]
          /\ context_lock \in [Conn -> {"free", "client", "closer"}]
      BY <3>1, Zenon DEF ClientInit, Places
    <3>3. /\ connections \subseteq Conn /\ connections_lock \in BOOLEAN
          /\ db \in {"open", "closing", "closed"}
          /\ late \subseteq {"transaction_manager", "connection_manager", "context"} \X Conn
      BY Zenon DEF ClientInit
    <3>. QED  BY <2>3, <3>2, <3>3, Zenon DEF ClientTypeOK, Context, Odd, Places
  <2>5. Positions
    BY <2>2, Zenon DEF ClientInit, Positions, Position
  <2>6. \A c \in Conn : closing # <<c, "result">> /\ closing # <<c, "wait">>
    BY Zenon DEF ClientInit
  <2>. QED  BY <2>2, <2>4, <2>5, <2>6, Zenon
            DEF ClientInit, ClientInv, LockInv, CloseInv, ManagerUsedAlive
<1>2. ClientInv /\ [ClientNext]_vars => ClientInv'
  <2>. SUFFICES ASSUME ClientInv, [ClientNext]_vars PROVE ClientInv'
    BY Zenon
  <2>1. CASE UNCHANGED vars
    BY <2>1, Zenon DEF ClientInv, ClientTypeOK, Positions, LockInv, CloseInv, ManagerUsedAlive,
                vars, clientVars, dbVars
  <2>2. ASSUME NEW c \in Conn, Inside(c) PROVE ClientInv'
    BY <2>2, BeginStatementKeeps, ExecuteKeeps, ResultKeeps, RemoveKeeps, Zenon DEF Inside
  <2>3. ASSUME NEW c \in Conn, Call(c) PROVE ClientInv'
    BY <2>1, <2>3, QueryKeeps, AddKeeps, ResultKeeps, Zenon DEF Call
  <2>4. CASE BeginClosing \/ Closer
    BY <2>4, CloserKeeps, InvalidateContextKeeps, InvalidateResultKeeps, Zenon DEF Closer
  <2>. QED  BY <2>1, <2>2, <2>3, <2>4, Zenon DEF ClientNext
<1>. QED  BY <1>1, <1>2, PTL DEF ClientSpec

\* Every variable of the connections keeps its type.
THEOREM ClientTypeCorrect == ClientSpec => []ClientTypeOK
<1>1. ClientInv => ClientTypeOK
  BY Zenon DEF ClientInv
<1>. QED  BY <1>1, ClientInvariant, PTL

\* Between two calls of any client it does not hold the lock of its context, and the
\* context is what the next statement expects, but for the exceptions the property
\* names (ClientContext::Query, Fetch and Cleanup).
THEOREM ContextsRest == ClientSpec => []BetweenCalls
<1>1. ClientInv => BetweenCalls
  BY Zenon DEF ClientInv, Positions, Position, Resting, LockInv, BetweenCalls
<1>. QED  BY <1>1, ClientInvariant, PTL

\* open_result points to a result that is there and open, whatever the client and
\* the closing thread do (ClientContext::open_result).
THEOREM ResultsStayLive == ClientSpec => []OpenResultLive
<1>1. ClientInv => OpenResultLive
  <2>. SUFFICES ASSUME ClientInv, NEW c \in Conn, ctx[c].open_result, ~ctx[c].is_invalidated,
                       pc[c] # "gone"
                PROVE  ctx[c].result = "open" /\ ctx[c].success
    BY Zenon DEF OpenResultLive, Alive
  <2>1. pc[c] \in Places /\ Position(ctx[c], pc[c])
    BY OneContext, Zenon
  <2>2. pc[c] \in {"none", "idle", "close", "cleanup"}
    BY <2>1, Zenon DEF Places, Position, Cleaned
  <2>. QED  BY <2>1, <2>2, Zenon DEF Position, Resting
<1>. QED  BY <1>1, ClientInvariant, PTL

\* No client uses the transaction manager of a database that is gone, but for a
\* transaction that a failed commit or verification has left open and a connection
\* that was made while the database was closed
\* (ClientContext::Invalidate, ~TransactionContext, AddConnection).
THEOREM ManagerOutlivesUses == ClientSpec => []ManagerUsedAlive
<1>1. ClientInv => ManagerUsedAlive
  BY Zenon DEF ClientInv
<1>. QED  BY <1>1, ClientInvariant, PTL

\* A connection that is gone, and that was not invalidated before, is not listed any
\* more; it leaves no transaction, query number or open result behind, but for the
\* exceptions that the property names (~Connection).
THEOREM ConnectionsCleanUp == ClientSpec => []NothingLeftBehind
<1>1. ClientInv => NothingLeftBehind
  BY Zenon DEF ClientInv, Positions, Position, Cleaned, Kept, CloseInv, NothingLeftBehind, Alive
<1>. QED  BY <1>1, ClientInvariant, PTL
=============================================================================
