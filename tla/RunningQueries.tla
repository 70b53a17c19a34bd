--------------------------- MODULE RunningQueries ---------------------------
(***************************************************************************)
(* The table of running queries (crates/dbx-core/src/query_cancel.rs).     *)
(*                                                                         *)
(* RunningQueries keeps two maps, each under a mutex of its own, keyed by  *)
(* the execution id the client chose: `inner`, the registered task with    *)
(* its cancellation token and pool key, and `interrupts`, a closure that   *)
(* kills the statement inside the database.  One action is one critical    *)
(* section (or one call made between two of them), so every interleaving   *)
(* of the query tasks and of the cancelling requests is a behaviour.       *)
(*                                                                         *)
(* A registration r (RegisteredQuery) walks through                        *)
(*   idle -> insert -> [cancelPrevious -> firePrevious ->] running         *)
(*        -> [dropInterrupt ->] done                                       *)
(* with running -> recording -> running each time it gets a pool,          *)
(* and a canceller (a cancel request, close of a connection, shutdown)     *)
(*   idle -> next -> takeInterrupt -> fire -> cancelToken -> next -> idle. *)
(***************************************************************************)
EXTENDS Naturals, FiniteSets

CONSTANTS
  ExecIds,          \* execution ids chosen by the client
  Conns,            \* RunningTaskMetadata, reduced to the value a scope is matched on
  Pools,            \* pool keys
  Cancellers,       \* tasks that call cancel and cancel_*
  MaxRegistrations, \* bound on register_task calls
  Nil               \* Option::None where the value is not a registration id

ASSUME RunningQueriesAssumption ==
  /\ MaxRegistrations \in Nat
  /\ Nil \notin ExecIds
  /\ Nil \notin Conns
  /\ Nil \notin Pools

Regs == 1..MaxRegistrations
None == 0             \* no registration

VARIABLES
  nextId,      \* next_registration_id
  inner,       \* execution id -> the registration id of its RunningTask, or None
  interrupts,  \* execution id -> the registration whose statement the closure kills, or None
  execOf,      \* RegisteredQuery.execution_id
  connOf,      \* RunningTask.metadata
  poolKey,     \* RunningTask.pool_key, dropped with the task
  usingPool,   \* the pool the query task itself runs on
  token,       \* is the CancellationToken of the registration cancelled?
  fired,       \* was the interrupt closure of the registration called?
  previous,    \* local of register_task: the task that insert replaced
  pc,          \* control of the registering and executing task
  cpc,         \* control of a canceller
  todo,        \* local of cancel_matching: execution_ids still to cancel
  seen,        \* the registrations the predicate matched (no counterpart in the code)
  scope,       \* the metadata values the predicate accepts (cancel: all)
  cur,         \* argument of cancel
  heldToken,   \* local of cancel: token
  heldInterrupt \* local of cancel: interrupt

tableVars == <<nextId, inner, interrupts>>
regVars   == <<execOf, connOf, poolKey, usingPool, token, fired, previous, pc>>
cancelVars == <<cpc, todo, seen, scope, cur, heldToken, heldInterrupt>>
vars == <<tableVars, regVars, cancelVars>>

WorkerPc == {"idle", "insert", "cancelPrevious", "firePrevious", "running", "recording", "dropInterrupt", "done"}
CancelPc == {"idle", "next", "takeInterrupt", "fire", "cancelToken"}

(***************************************************************************)
(* Type correctness of the two maps, of the registrations and of the       *)
(* cancellers' locals.                                                     *)
(***************************************************************************)
TypeOK ==
  /\ nextId \in 0..MaxRegistrations
  /\ inner \in [ExecIds -> Regs \cup {None}]
  /\ interrupts \in [ExecIds -> Regs \cup {None}]
  /\ execOf \in [Regs -> ExecIds \cup {Nil}]
  /\ connOf \in [Regs -> Conns \cup {Nil}]
  /\ poolKey \in [Regs -> Pools \cup {Nil}]
  /\ usingPool \in [Regs -> Pools \cup {Nil}]
  /\ token \in [Regs -> BOOLEAN]
  /\ fired \in [Regs -> BOOLEAN]
  /\ previous \in [Regs -> Regs \cup {None}]
  /\ pc \in [Regs -> WorkerPc]
  /\ cpc \in [Cancellers -> CancelPc]
  /\ todo \in [Cancellers -> SUBSET ExecIds]
  /\ seen \in [Cancellers -> SUBSET Regs]
  /\ scope \in [Cancellers -> SUBSET Conns]
  /\ cur \in [Cancellers -> ExecIds \cup {Nil}]
  /\ heldToken \in [Cancellers -> Regs \cup {None}]
  /\ heldInterrupt \in [Cancellers -> Regs \cup {None}]

Init ==
  /\ nextId = 0
  /\ inner = [e \in ExecIds |-> None]
  /\ interrupts = [e \in ExecIds |-> None]
  /\ execOf = [r \in Regs |-> Nil]
  /\ connOf = [r \in Regs |-> Nil]
  /\ poolKey = [r \in Regs |-> Nil]
  /\ usingPool = [r \in Regs |-> Nil]
  /\ token = [r \in Regs |-> FALSE]
  /\ fired = [r \in Regs |-> FALSE]
  /\ previous = [r \in Regs |-> None]
  /\ pc = [r \in Regs |-> "idle"]
  /\ cpc = [c \in Cancellers |-> "idle"]
  /\ todo = [c \in Cancellers |-> {}]
  /\ seen = [c \in Cancellers |-> {}]
  /\ scope = [c \in Cancellers |-> {}]
  /\ cur = [c \in Cancellers |-> Nil]
  /\ heldToken = [c \in Cancellers |-> None]
  /\ heldInterrupt = [c \in Cancellers |-> None]

-----------------------------------------------------------------------------
(* The task that registers and executes a query.                           *)

\* register_task: fetch_add on next_registration_id.  The number is drawn
\* before the map is locked, so registrations may enter the map out of order.
DrawId(r, e, c) ==
  /\ r = nextId + 1
  /\ nextId' = r
  /\ execOf' = [execOf EXCEPT ![r] = e]
  /\ connOf' = [connOf EXCEPT ![r] = c]
  /\ pc' = [pc EXCEPT ![r] = "insert"]
  /\ UNCHANGED <<inner, interrupts, poolKey, usingPool, token, fired, previous, cancelVars>>

\* register_task: insert into `inner`, remembering the replaced task (of which
\* only the token is used from here on).
Insert(r) ==
  /\ pc[r] = "insert"
  /\ previous' = [previous EXCEPT ![r] = inner[execOf[r]]]
  /\ inner' = [inner EXCEPT ![execOf[r]] = r]
  /\ poolKey' = [q \in Regs |-> IF q = inner[execOf[r]] THEN Nil ELSE poolKey[q]]
  /\ pc' = [pc EXCEPT ![r] = IF inner[execOf[r]] = None THEN "running" ELSE "cancelPrevious"]
  /\ UNCHANGED <<nextId, interrupts, execOf, connOf, usingPool, token, fired, cancelVars>>

\* A mistaken register_task that cancels its own token.
CancelOwnToken(r) ==
  /\ pc[r] = "cancelPrevious"
  /\ token' = [token EXCEPT ![r] = TRUE]
  /\ pc' = [pc EXCEPT ![r] = "firePrevious"]
  /\ UNCHANGED <<tableVars, execOf, connOf, poolKey, usingPool, fired, previous, cancelVars>>

\* register_task: previous.token.cancel().
CancelPrevious(r) ==
  /\ pc[r] = "cancelPrevious"
  /\ token' = [token EXCEPT ![previous[r]] = TRUE]
  /\ pc' = [pc EXCEPT ![r] = "firePrevious"]
  /\ UNCHANGED <<tableVars, execOf, connOf, poolKey, usingPool, fired, previous, cancelVars>>

\* register_task: remove the interrupt and call it, under the interrupts lock.
FirePrevious(r) ==
  /\ pc[r] = "firePrevious"
  /\ LET i == interrupts[execOf[r]] IN
       fired' = [q \in Regs |-> fired[q] \/ q = i]
  /\ interrupts' = [interrupts EXCEPT ![execOf[r]] = None]
  /\ pc' = [pc EXCEPT ![r] = "running"]
  /\ UNCHANGED <<nextId, inner, execOf, connOf, poolKey, usingPool, token, previous, cancelVars>>

\* The query task gets a pool (get_or_create_pool_for_session, or the
\* reconnect after a stale one).  It awaits it, and records the pool only
\* afterwards: until then is_pool_active does not know of it.
TakePool(r, p) ==
  /\ pc[r] = "running"
  /\ usingPool' = [usingPool EXCEPT ![r] = p]
  /\ pc' = [pc EXCEPT ![r] = "recording"]
  /\ UNCHANGED <<tableVars, execOf, connOf, poolKey, token, fired, previous, cancelVars>>

\* A mistaken set_pool_key that keeps the first pool after a reconnect.
SetPoolKeyOnlyOnce(r) ==
  /\ pc[r] = "recording"
  /\ poolKey' = [q \in Regs |-> IF q = inner[execOf[r]] /\ poolKey[q] = Nil THEN usingPool[r] ELSE poolKey[q]]
  /\ pc' = [pc EXCEPT ![r] = "running"]
  /\ UNCHANGED <<tableVars, execOf, connOf, usingPool, token, fired, previous, cancelVars>>

\* set_pool_key: writes to the task that is registered under the execution id
\* now, which need not be the caller's.
SetPoolKey(r) ==
  /\ pc[r] = "recording"
  /\ poolKey' = [q \in Regs |-> IF q = inner[execOf[r]] THEN usingPool[r] ELSE poolKey[q]]
  /\ pc' = [pc EXCEPT ![r] = "running"]
  /\ UNCHANGED <<tableVars, execOf, connOf, usingPool, token, fired, previous, cancelVars>>

\* register_interrupt: replaces whatever closure the execution id had.
RegisterInterrupt(r) ==
  /\ pc[r] = "running"
  /\ interrupts' = [interrupts EXCEPT ![execOf[r]] = r]
  /\ UNCHANGED <<nextId, inner, regVars, cancelVars>>

\* A mistaken remove that does not compare registration ids.
DropInnerAlways(r) ==
  /\ pc[r] \in {"running", "recording"}
  /\ inner' = [inner EXCEPT ![execOf[r]] = None]
  /\ pc' = [pc EXCEPT ![r] = "dropInterrupt"]
  /\ UNCHANGED <<nextId, interrupts, execOf, connOf, poolKey, usingPool, token, fired, previous, cancelVars>>

\* A mistaken remove that never reaches the second map.
DropInnerOnly(r) ==
  /\ pc[r] \in {"running", "recording"}
  /\ inner' = [inner EXCEPT ![execOf[r]] = IF @ = r THEN None ELSE @]
  /\ pc' = [pc EXCEPT ![r] = "done"]
  /\ UNCHANGED <<nextId, interrupts, execOf, connOf, poolKey, usingPool, token, fired, previous, cancelVars>>

\* Drop of RegisteredQuery (completion, cancellation or unwind), first half of
\* remove: leave `inner` only if the entry is still this registration.
DropInner(r) ==
  /\ pc[r] \in {"running", "recording"}
  /\ inner' = [inner EXCEPT ![execOf[r]] = IF @ = r THEN None ELSE @]
  /\ poolKey' = [poolKey EXCEPT ![r] = Nil]
  /\ usingPool' = [usingPool EXCEPT ![r] = Nil]
  /\ pc' = [pc EXCEPT ![r] = IF inner[execOf[r]] = r THEN "dropInterrupt" ELSE "done"]
  /\ UNCHANGED <<nextId, interrupts, execOf, connOf, token, fired, previous, cancelVars>>

\* Drop of RegisteredQuery, second half of remove: the interrupt of the
\* execution id goes, whichever registration stored it.
DropInterrupt(r) ==
  /\ pc[r] = "dropInterrupt"
  /\ interrupts' = [interrupts EXCEPT ![execOf[r]] = None]
  /\ pc' = [pc EXCEPT ![r] = "done"]
  /\ UNCHANGED <<nextId, inner, execOf, connOf, poolKey, usingPool, token, fired, previous, cancelVars>>

-----------------------------------------------------------------------------
(* The tasks that cancel.                                                  *)

\* cancel(execution_id), called by the cancel command of the desktop and web
\* front ends and by the parent token of a SQL file import.
CancelOne(c, e) ==
  /\ cpc[c] = "idle"
  /\ todo' = [todo EXCEPT ![c] = {e}]
  /\ seen' = [seen EXCEPT ![c] = {}]
  /\ scope' = [scope EXCEPT ![c] = Conns]
  /\ cpc' = [cpc EXCEPT ![c] = "next"]
  /\ UNCHANGED <<tableVars, regVars, cur, heldToken, heldInterrupt>>

Matching(S) == {e \in ExecIds : inner[e] # None /\ connOf[inner[e]] \in S}

\* cancel_matching: collect the execution ids under the lock, then release it.
\* S = {c} stands for cancel_connection, cancel_client_session and
\* cancel_owner_scope, S = Conns for cancel_all.
CancelMatching(c, S) ==
  /\ cpc[c] = "idle"
  /\ todo' = [todo EXCEPT ![c] = Matching(S)]
  /\ seen' = [seen EXCEPT ![c] = {inner[e] : e \in Matching(S)}]
  /\ scope' = [scope EXCEPT ![c] = S]
  /\ cpc' = [cpc EXCEPT ![c] = "next"]
  /\ UNCHANGED <<tableVars, regVars, cur, heldToken, heldInterrupt>>

\* cancel: clone the token of the registered task, if any, under `inner`.
ReadToken(c, e) ==
  /\ cpc[c] = "next"
  /\ e \in todo[c]
  /\ todo' = [todo EXCEPT ![c] = @ \ {e}]
  /\ cur' = [cur EXCEPT ![c] = e]
  /\ heldToken' = [heldToken EXCEPT ![c] = inner[e]]
  /\ cpc' = [cpc EXCEPT ![c] = "takeInterrupt"]
  /\ UNCHANGED <<tableVars, regVars, seen, scope, heldInterrupt>>

\* cancel: remove the interrupt under `interrupts`.
TakeInterrupt(c) ==
  /\ cpc[c] = "takeInterrupt"
  /\ heldInterrupt' = [heldInterrupt EXCEPT ![c] = interrupts[cur[c]]]
  /\ interrupts' = [interrupts EXCEPT ![cur[c]] = None]
  /\ cpc' = [cpc EXCEPT ![c] = "fire"]
  /\ UNCHANGED <<nextId, inner, regVars, todo, seen, scope, cur, heldToken>>

\* A mistaken cancel that skips the token when a driver interrupt was called.
FireInsteadOfToken(c) ==
  /\ cpc[c] = "fire"
  /\ fired' = [q \in Regs |-> fired[q] \/ q = heldInterrupt[c]]
  /\ heldInterrupt' = [heldInterrupt EXCEPT ![c] = None]
  /\ cpc' = [cpc EXCEPT ![c] = IF heldInterrupt[c] = None THEN "cancelToken" ELSE "next"]
  /\ UNCHANGED <<tableVars, execOf, connOf, poolKey, usingPool, token, previous, pc, todo, seen, scope, cur, heldToken>>

\* cancel: call the interrupt, no lock held.
Fire(c) ==
  /\ cpc[c] = "fire"
  /\ fired' = [q \in Regs |-> fired[q] \/ q = heldInterrupt[c]]
  /\ heldInterrupt' = [heldInterrupt EXCEPT ![c] = None]
  /\ cpc' = [cpc EXCEPT ![c] = "cancelToken"]
  /\ UNCHANGED <<tableVars, execOf, connOf, poolKey, usingPool, token, previous, pc, todo, seen, scope, cur, heldToken>>

\* A mistaken cancel_matching that gives up at the first task that is gone.
StopAtMissing(c) ==
  /\ cpc[c] = "cancelToken"
  /\ token' = [q \in Regs |-> token[q] \/ q = heldToken[c]]
  /\ heldToken' = [heldToken EXCEPT ![c] = None]
  /\ cur' = [cur EXCEPT ![c] = Nil]
  /\ todo' = [todo EXCEPT ![c] = IF heldToken[c] = None THEN {} ELSE @]
  /\ cpc' = [cpc EXCEPT ![c] = "next"]
  /\ UNCHANGED <<tableVars, execOf, connOf, poolKey, usingPool, fired, previous, pc, seen, scope, heldInterrupt>>

\* cancel: token.cancel(); the boolean it returns is heldToken[c] # None.
CancelToken(c) ==
  /\ cpc[c] = "cancelToken"
  /\ token' = [q \in Regs |-> token[q] \/ q = heldToken[c]]
  /\ heldToken' = [heldToken EXCEPT ![c] = None]
  /\ cur' = [cur EXCEPT ![c] = Nil]
  /\ cpc' = [cpc EXCEPT ![c] = "next"]
  /\ UNCHANGED <<tableVars, execOf, connOf, poolKey, usingPool, fired, previous, pc, todo, seen, scope, heldInterrupt>>

\* cancel_matching returns the count.
CancelReturns(c) ==
  /\ cpc[c] = "next"
  /\ todo[c] = {}
  /\ cpc' = [cpc EXCEPT ![c] = "idle"]
  /\ seen' = [seen EXCEPT ![c] = {}]
  /\ scope' = [scope EXCEPT ![c] = {}]
  /\ UNCHANGED <<tableVars, regVars, todo, cur, heldToken, heldInterrupt>>

-----------------------------------------------------------------------------
\* diagnostics and is_pool_active read one map under its lock.
is_pool_active(p) == \E e \in ExecIds : inner[e] # None /\ poolKey[inner[e]] = p

Worker(r) ==
  \/ \E e \in ExecIds, c \in Conns : DrawId(r, e, c)
  \/ Insert(r)
  \/ CancelPrevious(r)
  \/ FirePrevious(r)
  \/ \E p \in Pools : TakePool(r, p)
  \/ SetPoolKey(r)
  \/ RegisterInterrupt(r)
  \/ DropInner(r)
  \/ DropInterrupt(r)

CancelStep(c) ==
  \/ \E e \in ExecIds : ReadToken(c, e)
  \/ TakeInterrupt(c)
  \/ Fire(c)
  \/ CancelToken(c)
  \/ CancelReturns(c)

Canceller(c) ==
  \/ \E e \in ExecIds : CancelOne(c, e)
  \/ \E S \in {{k} : k \in Conns} \cup {Conns} : CancelMatching(c, S)
  \/ CancelStep(c)

Next == (\E r \in Regs : Worker(r)) \/ (\E c \in Cancellers : Canceller(c))

Spec == Init /\ [][Next]_vars

(***************************************************************************)
(* Fairness.  register_task, remove and cancel have no await, and the      *)
(* interrupt closures only spawn a task: a thread that entered one of them *)
(* leaves it.  Nothing says that a query ends, cancelled or not: whether a *)
(* driver notices its token is outside this module.                        *)
(***************************************************************************)
Fairness ==
  /\ \A r \in Regs : WF_vars(Insert(r) \/ CancelPrevious(r) \/ FirePrevious(r)) /\ WF_vars(DropInterrupt(r))
  /\ \A c \in Cancellers : WF_vars(CancelStep(c))

FairSpec == Spec /\ Fairness

-----------------------------------------------------------------------------
(* Properties.                                                             *)

Superseded(r) == \E q \in Regs : previous[q] = r
Ended(r) == pc[r] \in {"dropInterrupt", "done"}
CancelPending(r) == \E q \in Regs : previous[q] = r /\ pc[q] = "cancelPrevious"

(***************************************************************************)
(* A query task that runs without being in the table cannot be cancelled   *)
(* by its execution id any more.  It was therefore cancelled already, or   *)
(* the register_task that replaced it is about to cancel it: neither a     *)
(* replacement nor the late drop of a stale registration strands a query.  *)
(***************************************************************************)
OrphanIsCancelled ==
  \A r \in Regs : pc[r] \in {"cancelPrevious", "firePrevious", "running", "recording"} =>
    \/ inner[execOf[r]] = r
    \/ token[r]
    \/ CancelPending(r)

(***************************************************************************)
(* When cancel_connection, cancel_all, ... is about to return, every       *)
(* registration that was in the table when the ids were collected is       *)
(* cancelled, has ended, or is being cancelled by its replacement, however *)
(* the table changed in between.                                           *)
(***************************************************************************)
BroadcastReachesSnapshot ==
  \A c \in Cancellers : cpc[c] = "next" =>
    \A r \in seen[c] : execOf[r] \in todo[c] \/ token[r] \/ Ended(r) \/ CancelPending(r)

(***************************************************************************)
(* A registration that has ended leaves its interrupt in the map only if   *)
(* another registration replaced it: the drop of any other one clears it.  *)
(***************************************************************************)
LeftoverInterruptWasReplaced ==
  \A e \in ExecIds : interrupts[e] # None /\ pc[interrupts[e]] = "done" => Superseded(interrupts[e])

(***************************************************************************)
(* As long as an execution id is never used by two registrations at once,  *)
(* the pool a query runs on is reported active by is_pool_active, the test *)
(* that keeps keepalive, eviction and reclaim away from it, from the       *)
(* moment set_pool_key recorded it, also after a reconnect to another      *)
(* pool.  Between the await that yields the pool and set_pool_key nothing  *)
(* keeps them away.                                                        *)
(***************************************************************************)
PoolOfRunningQueryIsActive ==
  \A r \in Regs :
    /\ pc[r] = "running"
    /\ usingPool[r] # Nil
    /\ (\A q \in Regs : execOf[q] = execOf[r] => previous[q] = None)
    => is_pool_active(usingPool[r])

(***************************************************************************)
(* A broadcast forgets nobody: every registration that was in the table    *)
(* when cancel_connection, cancel_all, ... collected its ids gets its      *)
(* token cancelled or ends, although tasks leave and ids are registered    *)
(* anew while the ids are visited.                                         *)
(***************************************************************************)
SnapshotIsCancelled ==
  \A c \in Cancellers, r \in Regs : (r \in seen[c]) ~> (token[r] \/ Ended(r))

(***************************************************************************)
(* A query that was replaced in the table is eventually cancelled.         *)
(***************************************************************************)
ReplacedQueryIsCancelled == \A r \in Regs : Superseded(r) ~> token[r]

(***************************************************************************)
(* A scoped cancellation only cancels matching tasks: the token that       *)
(* cancel_connection cancels belongs to a task of that connection.         *)
(***************************************************************************)
ScopedCancelOnlyMatching ==
  [][\A c \in Cancellers :
       cpc[c] = "cancelToken" /\ heldToken[c] # None => connOf[heldToken[c]] \in scope[c]]_vars
=============================================================================
