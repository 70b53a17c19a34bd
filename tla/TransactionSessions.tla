------------------------ MODULE TransactionSessions ------------------------
(***************************************************************************)
(* Manual transaction sessions (crates/dbx-core/src/query.rs 3081-3664).   *)
(*                                                                         *)
(* A session is a database connection taken out of its pool with an open   *)
(* transaction on it.  AppState.transaction_sessions maps the session id   *)
(* to the connection (behind a mutex of its own), a busy flag and the time *)
(* of the last activity.  Five parties end the transaction: commit and     *)
(* rollback calls, a statement that fails, a call that finds the session   *)
(* expired, and the idle watcher.  Each first takes the session out of the *)
(* map under the write lock and only then locks the connection; none of    *)
(* them holds the map lock across database I/O.                            *)
(*                                                                         *)
(* A caller walks through                                                  *)
(*   idle -> fetch -> wait -> run -> finish -> idle          (a statement) *)
(*                          run -> fail -> [abort ->] idle   (it fails)    *)
(*   idle -> commit -> idle,  idle -> rollback -> idle,                    *)
(*   idle -> expire -> idle          (the session was found expired)       *)
(* and one action is one critical section of the map or of a connection.   *)
(* A statement is any SQL text that does not itself end the transaction.   *)
(***************************************************************************)
EXTENDS Naturals

CONSTANTS
  Callers,      \* tasks that run the transaction commands
  MaxSessions,  \* bound on begin_transaction_session calls
  MaxStale,     \* bound on the sleeping watchers older than the last activity
  Nil           \* nobody

ASSUME TransactionSessionsAssumption ==
  /\ MaxSessions \in Nat
  /\ MaxStale \in Nat \ {0}
  /\ Nil \notin Callers

Ids == 1..MaxSessions
NoId == 0

VARIABLES
  begun,    \* number of sessions begun; their ids are fresh uuids
  table,    \* transaction_sessions: "absent", or the busy flag of the entry
  kind,     \* TxnConnection: which server the connection belongs to
  txn,      \* the transaction on the session's connection, as the server has it
  lock,     \* holder of the connection mutex
  age,      \* last_activity.elapsed(): 0 below, 1 at, 2 above TXN_IDLE_TIMEOUT
  fresh,    \* is a watcher asleep that was spawned after the last activity?
  stale,    \* number of watchers asleep that were spawned before it
  rolling,  \* has a watcher removed the session and not rolled it back yet?
  cleared,  \* did shutdown take the session out of the map?
  pc,       \* control of a caller
  target    \* the session a caller works on

sessionVars == <<begun, table, kind, txn, lock, age, cleared>>
watchVars   == <<fresh, stale, rolling>>
callerVars  == <<pc, target>>
vars == <<sessionVars, watchVars, callerVars>>

Live == {"open", "failed"}           \* the server still holds the transaction
Ended == {"committed", "rolled_back"}
ExecPc == {"fetch", "wait", "run", "fail", "abort", "finish"}
ResolvePc == {"expire", "abort", "commit", "rollback"}
CallerPc == {"idle"} \cup ExecPc \cup ResolvePc

(***************************************************************************)
(* Type correctness of the map, the connections and the callers.           *)
(***************************************************************************)
TypeOK ==
  /\ begun \in 0..MaxSessions
  /\ table \in [Ids -> {"absent", "ready", "busy"}]
  /\ kind \in [Ids -> {"postgres", "mysql"}]
  /\ txn \in [Ids -> {"none", "leaked"} \cup Live \cup Ended]
  /\ lock \in [Ids -> Callers \cup {Nil}]
  /\ age \in [Ids -> 0..2]
  /\ fresh \in [Ids -> BOOLEAN]
  /\ stale \in [Ids -> 0..MaxStale]
  /\ rolling \in [Ids -> BOOLEAN]
  /\ cleared \in [Ids -> BOOLEAN]
  /\ pc \in [Callers -> CallerPc]
  /\ target \in [Callers -> Ids \cup {NoId}]

Init ==
  /\ begun = 0
  /\ table = [s \in Ids |-> "absent"]
  /\ kind = [s \in Ids |-> "postgres"]
  /\ txn = [s \in Ids |-> "none"]
  /\ lock = [s \in Ids |-> Nil]
  /\ age = [s \in Ids |-> 0]
  /\ fresh = [s \in Ids |-> FALSE]
  /\ stale = [s \in Ids |-> 0]
  /\ rolling = [s \in Ids |-> FALSE]
  /\ cleared = [s \in Ids |-> FALSE]
  /\ pc = [a \in Callers |-> "idle"]
  /\ target = [a \in Callers |-> NoId]

-----------------------------------------------------------------------------
(* Where a caller goes.                                                    *)

Goto(a, p) == /\ pc' = [pc EXCEPT ![a] = p]
              /\ UNCHANGED target
Start(a, p, s) == /\ pc[a] = "idle"
                  /\ pc' = [pc EXCEPT ![a] = p]
                  /\ target' = [target EXCEPT ![a] = s]
Return(a) == /\ pc' = [pc EXCEPT ![a] = "idle"]
             /\ target' = [target EXCEPT ![a] = NoId]

Present(s) == table[s] # "absent"
Remove(s) == table' = [table EXCEPT ![s] = "absent"]

\* rollback_manual_txn_connection: ROLLBACK, its error ignored or returned.  It
\* fails when the connection is lost, and then the server rolls back itself.
RollbackConnection(s) ==
  txn' = [txn EXCEPT ![s] = IF @ \in Live THEN "rolled_back" ELSE @]

-----------------------------------------------------------------------------
(* Starting a session.                                                     *)

\* begin_transaction_session: BEGIN on a connection of the pool, insert the
\* session, spawn its watcher.  A failure before or in BEGIN changes nothing.
Begin(s, k) ==
  /\ s = begun + 1
  /\ begun' = s
  /\ kind' = [kind EXCEPT ![s] = k]
  /\ txn' = [txn EXCEPT ![s] = "open"]
  /\ table' = [table EXCEPT ![s] = "ready"]
  /\ fresh' = [fresh EXCEPT ![s] = TRUE]
  /\ UNCHANGED <<lock, age, cleared, stale, rolling, callerVars>>

\* begin_transaction_session on Postgres: SET search_path fails after BEGIN, and
\* the connection goes back to its pool with the transaction still open.
BeginLeaks(s) ==
  /\ s = begun + 1
  /\ begun' = s
  /\ txn' = [txn EXCEPT ![s] = "leaked"]
  /\ UNCHANGED <<table, kind, lock, age, cleared, watchVars, callerVars>>

-----------------------------------------------------------------------------
(* execute_in_manual_transaction and stream_rows_in_manual_transaction.    *)

\* The claim: set busy and touch.  A missing or busy session is an error.  The
\* watcher asleep until now is from here on older than the last activity.
Claim(a, s) ==
  /\ table[s] = "ready"
  /\ age[s] < 2
  /\ stale[s] < MaxStale
  /\ table' = [table EXCEPT ![s] = "busy"]
  /\ age' = [age EXCEPT ![s] = 0]
  /\ stale' = [stale EXCEPT ![s] = IF fresh[s] THEN @ + 1 ELSE @]
  /\ fresh' = [fresh EXCEPT ![s] = FALSE]
  /\ Start(a, "fetch", s)
  /\ UNCHANGED <<begun, kind, txn, lock, cleared, rolling>>

\* The claim finds the session idle for more than the timeout: take it out.
ClaimExpired(a, s) ==
  /\ table[s] = "ready"
  /\ age[s] = 2
  /\ Remove(s)
  /\ Start(a, "expire", s)
  /\ UNCHANGED <<begun, kind, txn, lock, age, cleared, watchVars>>

\* ... then lock the connection and roll back.
Expire(a) ==
  /\ pc[a] = "expire"
  /\ lock[target[a]] = Nil
  /\ RollbackConnection(target[a])
  /\ Return(a)
  /\ UNCHANGED <<begun, table, kind, lock, age, cleared, watchVars>>

\* The map is read a second time for the connection: a session removed since the
\* claim is an error.
Fetch(a) ==
  /\ pc[a] = "fetch"
  /\ IF Present(target[a]) THEN Goto(a, "wait") ELSE Return(a)
  /\ UNCHANGED <<sessionVars, watchVars>>

\* connection.lock().await
LockConnection(a) ==
  /\ pc[a] = "wait"
  /\ lock[target[a]] = Nil
  /\ lock' = [lock EXCEPT ![target[a]] = a]
  /\ Goto(a, "run")
  /\ UNCHANGED <<begun, table, kind, txn, age, cleared, watchVars>>

\* A statement fails.  Postgres then refuses everything but the end of the
\* transaction; MySQL keeps it open with what the earlier statements did.
StatementFails(a) ==
  /\ pc[a] = "run"
  /\ txn' = [txn EXCEPT ![target[a]] =
               IF @ = "open" /\ kind[target[a]] = "postgres" THEN "failed" ELSE @]
  /\ Goto(a, "fail")
  /\ UNCHANGED <<begun, table, kind, lock, age, cleared, watchVars>>

\* A mistaken error path that rolls back whether or not it removed the session.
AlwaysAbort(a) ==
  /\ pc[a] = "fail"
  /\ Remove(target[a])
  /\ Goto(a, "abort")
  /\ UNCHANGED <<begun, kind, txn, lock, age, cleared, watchVars>>

\* should_rollback: the error path removes the session; when another path already
\* did, it leaves the transaction to that path.  The caller is told that the
\* transaction was rolled back either way.
RemoveFailed(a) ==
  /\ pc[a] = "fail"
  /\ Remove(target[a])
  /\ IF Present(target[a])
       THEN Goto(a, "abort") /\ UNCHANGED lock
       ELSE Return(a) /\ lock' = [lock EXCEPT ![target[a]] = Nil]
  /\ UNCHANGED <<begun, kind, txn, age, cleared, watchVars>>

\* ... ROLLBACK on the connection it still holds, then the guard is dropped.
Abort(a) ==
  /\ pc[a] = "abort"
  /\ RollbackConnection(target[a])
  /\ lock' = [lock EXCEPT ![target[a]] = Nil]
  /\ Return(a)
  /\ UNCHANGED <<begun, table, kind, age, cleared, watchVars>>

\* The statements succeeded: drop(conn).  In a failed transaction none does.
StatementsDone(a) ==
  /\ pc[a] = "run"
  /\ txn[target[a]] # "failed"
  /\ lock' = [lock EXCEPT ![target[a]] = Nil]
  /\ Goto(a, "finish")
  /\ UNCHANGED <<begun, table, kind, txn, age, cleared, watchVars>>

\* A mistaken end of a call that counts on the watcher of the begin call.
FinishUnwatched(a) ==
  /\ pc[a] = "finish"
  /\ table' = [table EXCEPT ![target[a]] = IF @ = "absent" THEN @ ELSE "ready"]
  /\ age' = [age EXCEPT ![target[a]] = IF Present(target[a]) THEN 0 ELSE @]
  /\ Return(a)
  /\ UNCHANGED <<begun, kind, txn, lock, cleared, watchVars>>

\* Clear busy, touch, and watch the session again if it is still there.
Finish(a) ==
  /\ pc[a] = "finish"
  /\ IF Present(target[a])
       THEN /\ table' = [table EXCEPT ![target[a]] = "ready"]
            /\ age' = [age EXCEPT ![target[a]] = 0]
            /\ fresh' = [fresh EXCEPT ![target[a]] = TRUE]
       ELSE UNCHANGED <<table, age, fresh>>
  /\ Return(a)
  /\ UNCHANGED <<begun, kind, txn, lock, cleared, stale, rolling>>

-----------------------------------------------------------------------------
(* commit_manual_transaction and rollback_manual_transaction.              *)

\* sessions.remove, whatever the busy flag says.
CommitCall(a, s) ==
  /\ Present(s)
  /\ Remove(s)
  /\ Start(a, "commit", s)
  /\ UNCHANGED <<begun, kind, txn, lock, age, cleared, watchVars>>

\* COMMIT once the connection is free.  The server turns the COMMIT of a failed
\* transaction into a rollback; a COMMIT that fails leaves either outcome.
Commit(a) ==
  /\ pc[a] = "commit"
  /\ lock[target[a]] = Nil
  /\ \E outcome \in Ended :
       /\ txn[target[a]] = "failed" => outcome = "rolled_back"
       /\ txn' = [txn EXCEPT ![target[a]] = IF @ \in Live THEN outcome ELSE @]
  /\ Return(a)
  /\ UNCHANGED <<begun, table, kind, lock, age, cleared, watchVars>>

RollbackCall(a, s) ==
  /\ Present(s)
  /\ Remove(s)
  /\ Start(a, "rollback", s)
  /\ UNCHANGED <<begun, kind, txn, lock, age, cleared, watchVars>>

Rollback(a) ==
  /\ pc[a] = "rollback"
  /\ lock[target[a]] = Nil
  /\ RollbackConnection(target[a])
  /\ Return(a)
  /\ UNCHANGED <<begun, table, kind, lock, age, cleared, watchVars>>

-----------------------------------------------------------------------------
(* The idle watchers, shutdown and time.                                   *)

\* A mistaken watcher that does not look at the busy flag.
ExpiresBusy(s) == Present(s) /\ age[s] >= 1

\* The test of a watcher that wakes up.
Expires(s) == table[s] = "ready" /\ age[s] >= 1

\* spawn_txn_idle_watcher: after the timeout, one look at the map.  A watcher
\* whose session has seen no activity since wakes at the age of the timeout.
WatcherWakes(s) ==
  /\ \/ /\ fresh[s]
        /\ age[s] >= 1
        /\ fresh' = [fresh EXCEPT ![s] = FALSE]
        /\ UNCHANGED stale
     \/ /\ stale[s] > 0
        /\ stale' = [stale EXCEPT ![s] = @ - 1]
        /\ UNCHANGED fresh
  /\ IF Expires(s)
       THEN /\ Remove(s)
            /\ rolling' = [rolling EXCEPT ![s] = TRUE]
       ELSE UNCHANGED <<table, rolling>>
  /\ UNCHANGED <<begun, kind, txn, lock, age, cleared, callerVars>>

\* ... then the watcher that removed the session rolls it back.
WatcherRollsBack(s) ==
  /\ rolling[s]
  /\ lock[s] = Nil
  /\ RollbackConnection(s)
  /\ rolling' = [rolling EXCEPT ![s] = FALSE]
  /\ UNCHANGED <<begun, table, kind, lock, age, cleared, fresh, stale, callerVars>>

\* AppState::shutdown: transaction_sessions.clear().
Shutdown ==
  /\ \E s \in Ids : Present(s)
  /\ cleared' = [s \in Ids |-> cleared[s] \/ Present(s)]
  /\ table' = [s \in Ids |-> "absent"]
  /\ UNCHANGED <<begun, kind, txn, lock, age, watchVars, callerVars>>

\* The last holder of a cleared session's connection drops it; its pool is gone,
\* so it is closed and the server rolls back.
ConnectionDropped(s) ==
  /\ cleared[s]
  /\ txn[s] \in Live
  /\ \A a \in Callers : target[a] # s
  /\ RollbackConnection(s)
  /\ UNCHANGED <<begun, table, kind, lock, age, cleared, watchVars, callerVars>>

\* Time passes for a session.
Tick(s) ==
  /\ Present(s)
  /\ age[s] < 2
  /\ age' = [age EXCEPT ![s] = @ + 1]
  /\ UNCHANGED <<begun, table, kind, txn, lock, cleared, watchVars, callerVars>>

\* Every session has been used and ended (a stuttering step, so that deadlock
\* checking finds every other state in which nobody can move).
Quiet ==
  /\ begun = MaxSessions
  /\ \A s \in Ids : ~Present(s) /\ txn[s] \notin Live
  /\ \A a \in Callers : pc[a] = "idle"
  /\ UNCHANGED vars

-----------------------------------------------------------------------------
CallerStep(a) ==
  \/ Expire(a)
  \/ Fetch(a)
  \/ LockConnection(a)
  \/ StatementFails(a)
  \/ RemoveFailed(a)
  \/ Abort(a)
  \/ StatementsDone(a)
  \/ Finish(a)
  \/ Commit(a)
  \/ Rollback(a)

CallerCalls(a, s) ==
  \/ Claim(a, s)
  \/ ClaimExpired(a, s)
  \/ CommitCall(a, s)
  \/ RollbackCall(a, s)

SessionStep(s) ==
  \/ WatcherWakes(s)
  \/ WatcherRollsBack(s)
  \/ ConnectionDropped(s)
  \/ Tick(s)

Next ==
  \/ \E s \in Ids, k \in {"postgres", "mysql"} : Begin(s, k)
  \/ \E s \in Ids : BeginLeaks(s)
  \/ \E a \in Callers, s \in Ids : CallerCalls(a, s)
  \/ \E a \in Callers : CallerStep(a)
  \/ \E s \in Ids : SessionStep(s)
  \/ Shutdown
  \/ Quiet

(***************************************************************************)
(* Fairness.  The runtime polls every task that can run and every timer;   *)
(* a statement sent to the server is answered (the code sets no timeout of *)
(* its own here); tokio's mutex is fair, so a task that waits for a        *)
(* connection gets it (only one statement is ever ahead of it, so weak     *)
(* fairness is enough).  Nobody is obliged to call anything.               *)
(***************************************************************************)
Fairness ==
  /\ \A a \in Callers : WF_vars(CallerStep(a))
  /\ \A s \in Ids : /\ WF_vars(WatcherWakes(s))
                    /\ WF_vars(WatcherRollsBack(s))
                    /\ WF_vars(ConnectionDropped(s))
                    /\ WF_vars(Tick(s))

Spec == Init /\ [][Next]_vars
FairSpec == Spec /\ Fairness

-----------------------------------------------------------------------------
\* Who will end the transaction of s: its entry in the map (any path may still
\* take it from there), a caller on its way to COMMIT or ROLLBACK, a watcher.
Resolvers(s) == {a \in Callers : target[a] = s /\ pc[a] \in ResolvePc}
Owners(s) ==
  {<<"caller", a>> : a \in Resolvers(s)}
    \cup (IF Present(s) THEN {<<"map", Nil>>} ELSE {})
    \cup (IF rolling[s] THEN {<<"watcher", Nil>>} ELSE {})

\* As long as the server holds the transaction of a session exactly one party
\* is going to end it, and none is once it has ended: no transaction is left
\* open on a connection that goes back to its pool, and no COMMIT or ROLLBACK
\* reaches a connection a second time, when commit, rollback, the error path,
\* the lazy expiry and the watcher race for one session (query.rs 3222-3664).
OneOwner ==
  \A s \in Ids :
    IF txn[s] \in Live /\ ~cleared[s]
      THEN \E o \in Owners(s) : Owners(s) = {o}
      ELSE Owners(s) = {}

\* The expiry, by a watcher or by a call that finds the session too old, never
\* ends a session in the middle of a statement, however long the statement and
\* however late an old watcher wakes (query.rs 3264-3280, 3493-3518).
ExpirySparesStatements ==
  \A s \in Ids :
    rolling[s] \/ (\E a \in Resolvers(s) : pc[a] = "expire")
      => \A a \in Callers : target[a] = s => pc[a] \notin ExecPc

\* A session nobody uses is not forgotten: an open transaction eventually ends
\* or the session runs another statement; in particular the watcher respawned at
\* the end of each statement suffices, and a session taken out of the map while
\* a statement runs is still ended after it (query.rs 3328-3330, 3483-3518).
NoSessionForgotten ==
  \A s \in Ids : txn[s] \in Live ~> (txn[s] \in Ended \/ table[s] = "busy")

=============================================================================
