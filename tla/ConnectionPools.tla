-------------------------- MODULE ConnectionPools --------------------------
(***************************************************************************)
(* Connection pools (crates/dbx-core/src/connection.rs):                   *)
(* AppState.connections, the routing table from pool keys to pools, with   *)
(* the tasks that open, use, detach, reclaim and close pools and the       *)
(* keepalive tasks that probe them.                                        *)
(*                                                                         *)
(* An Agent pool is a session on a shared runtime (SharedRuntimes follows  *)
(* the runtimes themselves); the other kinds of pools are native: they     *)
(* have no runtime, and what distinguishes them is how they are opened,    *)
(* pinged and closed.  What an action does in one step is what the code    *)
(* does under one lock or without an await; the gaps between locks are the *)
(* steps between actions.  Pools, runtimes and attempts are numbered in    *)
(* the order in which they are made.                                       *)
(***************************************************************************)
EXTENDS Naturals, FiniteSets

CONSTANTS
  Keys,         \* the pool keys of a connection
  NativeKeys,   \* the keys whose pools are native
  Base,         \* the Agent keys without a client session, which may be reclaimed
  Tasks,        \* requests that run at the same time
  MaxPools,     \* bound on the pools made
  MaxRuntimes,  \* bound on the runtimes started
  MaxOps,       \* bound on the calls begun
  MaxFaults     \* bound on failed probes and calls, dropped futures and dead runtimes

ASSUME ConnectionPoolsAssumption ==
  /\ NativeKeys \subseteq Keys
  /\ Base \subseteq Keys \ NativeKeys
  /\ MaxPools \in Nat
  /\ MaxRuntimes \in Nat
  /\ MaxOps \in Nat
  /\ MaxFaults \in Nat
  /\ Tasks \cap Nat = {}
  /\ Keys \cap Nat = {}

Pools == 1..MaxPools
Runtimes == 1..MaxRuntimes
None == 0

VARIABLES
  route,      \* AppState.connections
  keepalive,  \* the pool probed by the task "keepalive:<key>" of the supervisor
  late,       \* keepalive tasks whose probe failed and that have not detached yet
  draining,   \* AppState.draining_pools
  detached,   \* pools taken out of the table that finish_detach has not closed yet
  closing,    \* pools inside close_pool_with_timeout
  gone,       \* pools that were closed, or whose handle was dropped
  made,       \* pools made so far
  runtime,    \* the runtime of a pool
  started,    \* runtimes started so far; the last one takes new sessions
  failed,     \* AgentRuntimeClient.failed
  replaced,   \* runtimes failed by a replacement (no counterpart in the code)
  unchecked,  \* pools restored without their config (no counterpart in the code)
  attempt,    \* server_attempt of the connection
  attemptOf,  \* the attempt that made a pool (no counterpart in the code)
  pc,         \* control of a task
  key,        \* the pool_key a task works for
  pool,       \* the pool a task holds
  mine,       \* the connection_attempt of a task, or None
  drain,      \* the key of the PoolDrainGuard a task holds, or None
  todo,       \* keys a task will remove, or candidates it will reclaim
  ops,        \* calls begun (names the bound MaxOps)
  faults      \* faults so far (names the bound MaxFaults)

tableVars == <<route, keepalive, late, draining>>
endVars == <<detached, closing, gone, unchecked>>
runtimeVars == <<started, failed, replaced>>
poolVars == <<made, runtime, attemptOf>>
taskVars == <<pc, key, pool, mine, drain, todo>>
vars == <<tableVars, endVars, runtimeVars, poolVars, attempt, taskVars, ops, faults>>

TaskPc == {"idle", "wait", "check", "probe", "wait2", "recheck", "create", "retry",
           "reclaim", "stop", "take", "restart", "restarted", "closeReclaimed", "release", "released",
           "created", "insertWait", "insert", "discard", "closeOwn", "closePrevious", "verify",
           "unroute", "using", "readKeys", "stopKeys", "remove", "removeAll", "closeAll", "closeEach",
           "reconnect", "cleanup", "removeStale", "closeStale", "closeRemoved"}

(***************************************************************************)
(* Type correctness of the routing table, the pools on their way out of it *)
(* and the tasks' locals.                                                  *)
(***************************************************************************)
TypeOK ==
  /\ route \in [Keys -> Pools \cup {None}]
  /\ keepalive \in [Keys -> Pools \cup {None}]
  /\ late \subseteq [key : Keys, pool : Pools, replace : BOOLEAN]
  /\ draining \subseteq Keys
  /\ detached \subseteq [by : Tasks \cup Pools \cup {None}, pairs : SUBSET (Keys \X Pools)]
  /\ closing \subseteq Pools
  /\ gone \subseteq Pools
  /\ unchecked \subseteq Pools
  /\ made \in 0..MaxPools
  /\ runtime \in [Pools -> Runtimes \cup {None}]
  /\ started \in 0..MaxRuntimes
  /\ failed \subseteq Runtimes
  /\ replaced \subseteq failed
  /\ attempt \in 0..MaxOps
  /\ attemptOf \in [Pools -> 0..MaxOps]
  /\ pc \in [Tasks -> TaskPc]
  /\ key \in [Tasks -> Keys \cup {None}]
  /\ pool \in [Tasks -> Pools \cup {None}]
  /\ mine \in [Tasks -> 0..MaxOps]
  /\ drain \in [Tasks -> Keys \cup {None}]
  /\ todo \in [Tasks -> SUBSET Keys]
  /\ ops \in 0..MaxOps
  /\ faults \in 0..MaxFaults

Init ==
  /\ route = [k \in Keys |-> None]
  /\ keepalive = [k \in Keys |-> None]
  /\ late = {}
  /\ draining = {}
  /\ detached = {}
  /\ closing = {}
  /\ gone = {}
  /\ unchecked = {}
  /\ made = 0
  /\ runtime = [p \in Pools |-> None]
  /\ started = 0
  /\ failed = {}
  /\ replaced = {}
  /\ attempt = 0
  /\ attemptOf = [p \in Pools |-> 0]
  /\ pc = [t \in Tasks |-> "idle"]
  /\ key = [t \in Tasks |-> None]
  /\ pool = [t \in Tasks |-> None]
  /\ mine = [t \in Tasks |-> None]
  /\ drain = [t \in Tasks |-> None]
  /\ todo = [t \in Tasks |-> {}]
  /\ ops = 0
  /\ faults = 0

\* Something goes wrong.
Fault == faults < MaxFaults /\ faults' = faults + 1

-----------------------------------------------------------------------------
(* PoolRoutingControl.                                                     *)

\* A task is at a step and has no finish_detach of its own to wait for.
At(t, l) == pc[t] = l /\ \A g \in detached : g.by # t

\* A task goes to a step of its call; the call and its locals end at "idle".
GoTo(t, l) ==
  /\ pc' = [pc EXCEPT ![t] = l]
  /\ key' = IF l = "idle" THEN [key EXCEPT ![t] = None] ELSE key
  /\ mine' = IF l = "idle" THEN [mine EXCEPT ![t] = None] ELSE mine

\* A call begins.
Calls(t, l, k, m) ==
  /\ At(t, "idle")
  /\ ops < MaxOps
  /\ ops' = ops + 1
  /\ pc' = [pc EXCEPT ![t] = l]
  /\ key' = [key EXCEPT ![t] = k]
  /\ mine' = [mine EXCEPT ![t] = m]

\* The keys routed to a pool on the runtime (shared_runtime_sibling_keys,
\* uses_runtime).
On(r) == {k \in Keys : route[k] # None /\ runtime[route[k]] = r}

Routed == {k \in Keys : route[k] # None}

\* Under the write lock: the pools of K leave the table and wait for
\* finish_detach of whoever took them out.
Detach(K, by) ==
  /\ route' = [k \in Keys |-> IF k \in K THEN None ELSE route[k]]
  /\ detached' = IF K = {} THEN detached
                 ELSE detached \cup {[by |-> by, pairs |-> {<<k, route[k]>> : k \in K}]}

\* fail_stop, still under the write lock.
FailStop(r, replace) ==
  /\ failed' = IF replace THEN failed \cup {r} ELSE failed
  /\ replaced' = IF replace THEN replaced \cup {r} ELSE replaced
  /\ UNCHANGED started

\* replace_runtime_after_close_failure, replace_runtime_after_open_failure: all
\* routes to the runtime leave the table, and the runtime is killed.
ReplaceRuntime(r, by) == Detach(On(r), by) /\ FailStop(r, TRUE)

\* detach_agent_pool_if_current: only the pool that failed, or with it every
\* pool that shares its runtime.
DetachIfCurrent(k, p, replace, by) ==
  /\ Detach(IF replace THEN On(runtime[p]) ELSE {k} \cap {j \in Keys : route[j] = p}, by)
  /\ FailStop(runtime[p], replace)

\* What a failed health check or keepalive detaches.  A native pool is not
\* compared with the one that was checked.
DetachProbed(k, p, replace, by) ==
  IF k \in NativeKeys THEN Detach({k} \cap Routed, by) /\ UNCHANGED runtimeVars
  ELSE DetachIfCurrent(k, p, replace, by)

\* detach_pool_by_key: whatever pool the key has.
DetachByKey(k, replace, by) ==
  LET r == runtime[route[k]]
      all == replace /\ k \notin NativeKeys
  IN  IF route[k] = None THEN UNCHANGED <<route, detached, runtimeVars>>
      ELSE Detach(IF all THEN On(r) ELSE {k}, by) /\ FailStop(r, all)

\* The pools and the keys of a list of removed pools, which close_removed and
\* close_removed_in_background go through.
PoolsOf(g) == {pair[2] : pair \in g.pairs}
KeysOf(g) == {pair[1] : pair \in g.pairs}
Without(g, p) == [by |-> g.by, pairs |-> {pair \in g.pairs : pair[2] # p}]

\* The steps at which a task closes a list of removed pools itself
\* (close_removed), one after the other.
ListPc == {"closeAll", "closeEach"}

\* A mistaken finish_detach that drops the list of removed pools.
FinishDetachForgets(g) ==
  /\ detached' = detached \ {g}
  /\ UNCHANGED <<keepalive, route, late, draining, closing, gone, unchecked, runtimeVars, poolVars, attempt, taskVars, ops, faults>>

\* A mistaken finish_detach that puts a pool back under its key while that is free.
FinishDetachRestores(g) ==
  LET back == {pair \in g.pairs : route[pair[1]] = None} IN
  /\ route' = [k \in Keys |-> IF \E pair \in back : pair[1] = k THEN (CHOOSE pair \in back : pair[1] = k)[2] ELSE route[k]]
  /\ detached' = detached \ {g}
  /\ closing' = closing \cup {pair[2] : pair \in g.pairs \ back}
  /\ UNCHANGED <<keepalive, late, draining, gone, unchecked, runtimeVars, poolVars, attempt, taskVars, ops, faults>>

\* finish_detach, after the lock was released: the keepalives of the keys are
\* stopped, and the pools closed in the background.
FinishDetach(g) ==
  /\ \A t \in Tasks : g.by = t => pc[t] \notin ListPc
  /\ keepalive' = [k \in Keys |-> IF k \in KeysOf(g) THEN None ELSE keepalive[k]]
  /\ detached' = detached \ {g}
  /\ closing' = closing \cup PoolsOf(g)
  /\ UNCHANGED <<route, late, draining, gone, unchecked, runtimeVars, poolVars, attempt, taskVars, ops, faults>>

\* finish_detach in a keepalive task that it aborts itself: the task ends at
\* its next await, and the pools are dropped without a close.
FinishDetachAborted(g) ==
  /\ g.by = None
  /\ keepalive' = [k \in Keys |-> IF k \in KeysOf(g) THEN None ELSE keepalive[k]]
  /\ detached' = detached \ {g}
  /\ gone' = gone \cup PoolsOf(g)
  /\ UNCHANGED <<route, late, draining, closing, unchecked, runtimeVars, poolVars, attempt, taskVars, ops, faults>>

\* close_pool_with_timeout: closed, or failed with an error that asks for nothing.
Close(p) ==
  /\ p \in closing
  /\ closing' = closing \ {p}
  /\ gone' = gone \cup {p}
  /\ UNCHANGED <<tableVars, detached, unchecked, runtimeVars, poolVars, attempt, taskVars, ops, faults>>

\* close_pool_with_timeout: timed out, or failed with an error that asks for a
\* new runtime.
CloseReplaces(p) ==
  /\ p \in closing
  /\ runtime[p] # None
  /\ closing' = closing \ {p}
  /\ gone' = gone \cup {p}
  /\ ReplaceRuntime(runtime[p], p)
  /\ Fault
  /\ UNCHANGED <<keepalive, late, draining, unchecked, poolVars, attempt, taskVars, ops>>

\* The close that a task awaits is over, with what it detached.
Closed(p) == p \notin closing /\ \A g \in detached : g.by # p

-----------------------------------------------------------------------------
(* Calls begin.                                                            *)

\* get_or_create_pool_for_session_inner without an attempt.
Open(t, k) ==
  /\ Calls(t, "wait", k, None)
  /\ UNCHANGED <<tableVars, endVars, runtimeVars, poolVars, attempt, pool, drain, todo, faults>>

\* The connect handlers: begin_connection_attempt; drain_connection_pools and an
\* open follow.
Connect(t, k) ==
  /\ Calls(t, "readKeys", k, attempt + 1)
  /\ attempt' = attempt + 1
  /\ UNCHANGED <<tableVars, endVars, runtimeVars, poolVars, pool, drain, todo, faults>>

\* The disconnect handlers: supersede_connection_attempt; drain_connection_pools
\* follows.
Disconnect(t) ==
  /\ Calls(t, "readKeys", None, None)
  /\ attempt' = attempt + 1
  /\ UNCHANGED <<tableVars, endVars, runtimeVars, poolVars, pool, drain, todo, faults>>

\* close_database_pool, remove_connection_pools, remove_external_driver_pools,
\* remove_duckdb_pools_detached.
CloseDatabasePool(t) ==
  /\ Calls(t, "readKeys", None, None)
  /\ UNCHANGED <<tableVars, endVars, runtimeVars, poolVars, attempt, pool, drain, todo, faults>>

\* reconnect_pool_for_session over forwarded transport: remove_connection_pools,
\* then an open.  (TransportTunnels follows the reset of the transport between
\* the two.)
ReconnectForwarded(t, k) ==
  /\ Calls(t, "readKeys", k, None)
  /\ UNCHANGED <<tableVars, endVars, runtimeVars, poolVars, attempt, pool, drain, todo, faults>>

\* drain_connection_pools: the keys are read under the read lock ...
ReadKeys(t) ==
  /\ At(t, "readKeys")
  /\ todo' = [todo EXCEPT ![t] = Routed]
  /\ GoTo(t, "stopKeys")
  /\ UNCHANGED <<tableVars, endVars, runtimeVars, poolVars, attempt, pool, drain, ops, faults>>

\* ... the keepalives of these keys are stopped ...
StopKeepalives(t) ==
  /\ At(t, "stopKeys")
  /\ keepalive' = [k \in Keys |-> IF k \in todo[t] THEN None ELSE keepalive[k]]
  /\ GoTo(t, IF key[t] = None THEN "remove" ELSE IF mine[t] # None THEN "reconnect" ELSE "removeAll")
  /\ UNCHANGED <<route, late, draining, endVars, runtimeVars, poolVars, attempt, pool, drain, todo, ops, faults>>

\* Where the task goes after it closed a list of pools: the call is over, or a
\* reconnect opens its pool.
AfterList(t) == IF key[t] = None THEN "idle" ELSE "wait"

\* ... and the pools that the keys have by then are removed.  The caller is
\* remove_connection_pools or remove_external_driver_pools: it keeps the list,
\* and close_removed closes one pool after the other.
RemoveAll(t) ==
  /\ At(t, "removeAll") \/ (At(t, "remove") /\ key[t] = None)
  /\ Detach(todo[t] \cap Routed, t)
  /\ todo' = [todo EXCEPT ![t] = {}]
  /\ GoTo(t, IF todo[t] \cap Routed = {} THEN AfterList(t) ELSE "closeAll")
  /\ UNCHANGED <<keepalive, late, draining, closing, gone, unchecked, runtimeVars, poolVars, attempt, pool, drain, ops, faults>>

\* close_removed: the next pool of the list is closed, and the task waits for it.
CloseNext(t) ==
  /\ pc[t] = "closeAll"
  /\ \E g \in detached : \E p \in PoolsOf(g) :
       /\ g.by = t
       /\ detached' = (detached \ {g}) \cup {h \in {Without(g, p)} : h.pairs # {}}
       /\ closing' = closing \cup {p}
       /\ pool' = [pool EXCEPT ![t] = p]
  /\ GoTo(t, "closeEach")
  /\ UNCHANGED <<tableVars, gone, unchecked, runtimeVars, poolVars, attempt, drain, todo, ops, faults>>

\* remove_pool_by_key, take_client_session_pool: the keepalive is stopped.
Remove(t, k) ==
  /\ Calls(t, "remove", k, None)
  /\ todo' = [todo EXCEPT ![t] = {k}]
  /\ keepalive' = [keepalive EXCEPT ![k] = None]
  /\ UNCHANGED <<route, late, draining, endVars, runtimeVars, poolVars, attempt, pool, drain, faults>>

\* reconnect_pool_for_session over a direct connection: the same, and an open
\* follows.
Reconnect(t, k) ==
  /\ Calls(t, "reconnect", k, None)
  /\ todo' = [todo EXCEPT ![t] = {k}]
  /\ keepalive' = [keepalive EXCEPT ![k] = None]
  /\ UNCHANGED <<route, late, draining, endVars, runtimeVars, poolVars, attempt, pool, drain, faults>>

\* ... and the pools that the keys have by then are removed, and closed in the
\* background.  A reconnect waits for the close of a native pool before it opens
\* another.
RemoveRoutes(t) ==
  LET k == key[t]
      awaits == pc[t] = "reconnect" /\ mine[t] = None /\ k \in NativeKeys \cap Routed
  IN
  /\ At(t, "remove") \/ At(t, "reconnect")
  /\ closing' = closing \cup {route[j] : j \in todo[t] \cap Routed}
  /\ route' = [j \in Keys |-> IF j \in todo[t] THEN None ELSE route[j]]
  /\ todo' = [todo EXCEPT ![t] = {}]
  /\ pool' = [pool EXCEPT ![t] = IF awaits THEN route[k] ELSE @]
  /\ GoTo(t, IF pc[t] = "remove" THEN "idle" ELSE IF awaits THEN "closeRemoved" ELSE "wait")
  /\ UNCHANGED <<keepalive, late, draining, detached, gone, unchecked, runtimeVars, poolVars, attempt, drain, ops, faults>>

\* detach_metadata_pool_after_error, for an error without a session id.
CallDetachByKey(t, k, replace) ==
  /\ Calls(t, "idle", None, None)
  /\ DetachByKey(k, replace, t)
  /\ UNCHANGED <<keepalive, late, draining, closing, gone, unchecked, poolVars, attempt, pool, drain, todo, faults>>

\* Drop of an armed ClientSessionPoolCleanupGuard: the keepalive is stopped, and
\* a task of the supervisor detaches the pool.
DropCleanupGuard(t, k) ==
  /\ Calls(t, "cleanup", k, None)
  /\ keepalive' = [keepalive EXCEPT ![k] = None]
  /\ UNCHANGED <<route, late, draining, endVars, runtimeVars, poolVars, attempt, pool, drain, todo, faults>>

CleanupDetaches(t) ==
  /\ At(t, "cleanup")
  /\ DetachByKey(key[t], FALSE, t)
  /\ GoTo(t, "idle")
  /\ UNCHANGED <<keepalive, late, draining, closing, gone, unchecked, poolVars, attempt, pool, drain, todo, ops, faults>>

\* A query, a metadata call or refresh_connections clones the client under the
\* read lock.
Use(t, k) ==
  /\ Calls(t, "using", k, None)
  /\ route[k] # None
  /\ pool' = [pool EXCEPT ![t] = route[k]]
  /\ UNCHANGED <<tableVars, endVars, runtimeVars, poolVars, attempt, drain, todo, faults>>

EndUse(t) ==
  /\ At(t, "using")
  /\ pool' = [pool EXCEPT ![t] = None]
  /\ GoTo(t, "idle")
  /\ UNCHANGED <<tableVars, endVars, runtimeVars, poolVars, attempt, drain, todo, ops, faults>>

\* The call or the health check failed: the pool it used is detached.
UseFails(t, replace) ==
  /\ At(t, "using")
  /\ DetachProbed(key[t], pool[t], replace, t)
  /\ pool' = [pool EXCEPT ![t] = None]
  /\ GoTo(t, "idle")
  /\ Fault
  /\ UNCHANGED <<keepalive, late, draining, closing, gone, unchecked, poolVars, attempt, drain, todo, ops>>

-----------------------------------------------------------------------------
(* get_or_create_pool_for_session_inner: the pool exists.                  *)

tableAndPools == <<tableVars, endVars, runtimeVars, poolVars, attempt>>

\* wait_for_pool_drain, before each of the two looks into the table.
WaitForDrain(t) ==
  /\ At(t, "wait") \/ At(t, "wait2")
  /\ key[t] \notin draining
  /\ GoTo(t, IF pc[t] = "wait" THEN "check" ELSE "recheck")
  /\ UNCHANGED <<tableAndPools, pool, drain, todo, ops, faults>>

\* The key has no pool: look again after the drain, if there is one.
CheckMisses(t) ==
  /\ At(t, "check")
  /\ route[key[t]] = None
  /\ GoTo(t, "wait2")
  /\ UNCHANGED <<tableAndPools, pool, drain, todo, ops, faults>>

\* The second look: a pool appeared meanwhile, or a new one is made.
Recheck(t) ==
  /\ At(t, "recheck")
  /\ GoTo(t, IF route[key[t]] # None THEN "wait" ELSE "create")
  /\ UNCHANGED <<tableAndPools, pool, drain, todo, ops, faults>>

\* The key has a pool, which is used as it is: a query runs on it, or its
\* client is busy.
Reuse(t) ==
  /\ At(t, "check")
  /\ route[key[t]] # None
  /\ GoTo(t, "idle")
  /\ UNCHANGED <<tableAndPools, pool, drain, todo, ops, faults>>

\* The key has a pool: remove_stale_connection_pool clones its client under the
\* read lock and probes it without the lock.
Probe(t) ==
  /\ At(t, "check")
  /\ route[key[t]] # None
  /\ pool' = [pool EXCEPT ![t] = route[key[t]]]
  /\ GoTo(t, "probe")
  /\ UNCHANGED <<tableAndPools, drain, todo, ops, faults>>

ProbeOk(t) ==
  /\ At(t, "probe")
  /\ pool' = [pool EXCEPT ![t] = None]
  /\ GoTo(t, "idle")
  /\ UNCHANGED <<tableAndPools, drain, todo, ops, faults>>

\* The probe of an Agent pool failed: it is detached if it is still the current
\* one.  A new one is made if anything was detached.
ProbeFails(t, replace) ==
  /\ At(t, "probe")
  /\ key[t] \notin NativeKeys
  /\ DetachIfCurrent(key[t], pool[t], replace, t)
  /\ pool' = [pool EXCEPT ![t] = None]
  /\ GoTo(t, IF detached' # detached THEN "create" ELSE "idle")
  /\ Fault
  /\ UNCHANGED <<keepalive, late, draining, closing, gone, unchecked, poolVars, attempt, drain, todo, ops>>

\* The probe of a native pool failed: the keepalive of the key is stopped ...
ProbeFindsStale(t) ==
  /\ At(t, "probe")
  /\ key[t] \in NativeKeys
  /\ keepalive' = [keepalive EXCEPT ![key[t]] = None]
  /\ pool' = [pool EXCEPT ![t] = None]
  /\ GoTo(t, "removeStale")
  /\ Fault
  /\ UNCHANGED <<route, late, draining, endVars, runtimeVars, poolVars, attempt, drain, todo, ops>>

\* ... and the pool that the key has by then is removed and closed.
RemoveStale(t) ==
  LET p == route[key[t]] IN
  /\ At(t, "removeStale")
  /\ closing' = closing \cup ({p} \ {None})
  /\ route' = [route EXCEPT ![key[t]] = None]
  /\ pool' = [pool EXCEPT ![t] = p]
  /\ GoTo(t, IF p = None THEN "idle" ELSE "closeStale")
  /\ UNCHANGED <<keepalive, late, draining, detached, gone, unchecked, runtimeVars, poolVars, attempt, drain, todo, ops, faults>>

-----------------------------------------------------------------------------
(* get_or_create_pool_for_session_inner: a pool is made.                   *)

\* connection_attempt_is_current
Current(t) == mine[t] \in {None, attempt}

\* The runtime that takes a new session: the last one, or a new one.
Takes == IF started > 0 /\ started \notin failed THEN started ELSE started + 1

\* The attempt is current and the database accepts: the task has a native pool.
CreateNative(t) ==
  /\ At(t, "create")
  /\ Current(t)
  /\ key[t] \in NativeKeys
  /\ made < MaxPools
  /\ made' = made + 1
  /\ attemptOf' = [attemptOf EXCEPT ![made + 1] = mine[t]]
  /\ pool' = [pool EXCEPT ![t] = made + 1]
  /\ GoTo(t, "created")
  /\ UNCHANGED <<tableVars, endVars, runtimeVars, runtime, attempt, drain, todo, ops, faults>>

\* The attempt is current, the session is opened: the task has an Agent pool.
Create(t) ==
  /\ At(t, "create") \/ At(t, "retry")
  /\ Current(t)
  /\ key[t] \notin NativeKeys
  /\ made < MaxPools
  /\ Takes \in Runtimes
  /\ made' = made + 1
  /\ runtime' = [runtime EXCEPT ![made + 1] = Takes]
  /\ started' = Takes
  /\ attemptOf' = [attemptOf EXCEPT ![made + 1] = mine[t]]
  /\ pool' = [pool EXCEPT ![t] = made + 1]
  /\ GoTo(t, "created")
  /\ UNCHANGED <<tableVars, endVars, failed, replaced, attempt, drain, todo, ops, faults>>

\* The attempt was superseded, or the session was not opened.
CreateFails(t) ==
  /\ At(t, "create") \/ At(t, "retry")
  /\ GoTo(t, "idle")
  /\ UNCHANGED <<tableAndPools, pool, drain, todo, ops, faults>>

\* handle_shared_connection_open_error: the error asks for a new runtime.
CreateReplaces(t) ==
  /\ At(t, "create") \/ At(t, "retry")
  /\ Current(t)
  /\ key[t] \notin NativeKeys
  /\ started > 0
  /\ ReplaceRuntime(started, t)
  /\ GoTo(t, "idle")
  /\ Fault
  /\ UNCHANGED <<keepalive, late, draining, closing, gone, unchecked, poolVars, attempt, pool, drain, todo, ops>>

\* The check after the session was opened.
CheckAttempt(t) ==
  /\ At(t, "created")
  /\ GoTo(t, IF Current(t) THEN "insertWait" ELSE "discard")
  /\ UNCHANGED <<tableAndPools, pool, drain, todo, ops, faults>>

\* discard_stale_connection_attempt_pool, and the end of an insert that found
\* the runtime failed: the task closes the pool it has and waits for it.
Discard(t) ==
  /\ At(t, "discard")
  /\ closing' = closing \cup {pool[t]}
  /\ GoTo(t, "closeOwn")
  /\ UNCHANGED <<tableVars, detached, gone, unchecked, runtimeVars, poolVars, attempt, pool, drain, todo, ops, faults>>

-----------------------------------------------------------------------------
(* insert_connection_pool_inner.                                           *)

\* The key the pool goes to: a task that holds a drain guard restores the pool
\* it could not reclaim.
Target(t) == IF drain[t] = None THEN key[t] ELSE drain[t]

\* Where the task goes after an insert.
AfterInsert(t) == IF drain[t] = None THEN "idle" ELSE "release"

InsertWait(t) ==
  /\ At(t, "insertWait")
  /\ Target(t) \notin draining
  /\ GoTo(t, "insert")
  /\ UNCHANGED <<tableAndPools, pool, drain, todo, ops, faults>>

\* A mistaken insert that does not look at the runtime.
InsertUnchecked(t) ==
  LET k == Target(t) IN
  /\ At(t, "insert")
  /\ keepalive' = [keepalive EXCEPT ![k] = pool[t]]
  /\ route' = [route EXCEPT ![k] = pool[t]]
  /\ closing' = closing \cup ({route[k]} \ {None})
  /\ pool' = [pool EXCEPT ![t] = route[k]]
  /\ GoTo(t, IF route[k] = None THEN "verify" ELSE "closePrevious")
  /\ UNCHANGED <<late, draining, detached, gone, unchecked, runtimeVars, poolVars, attempt, drain, todo, ops, faults>>

\* Under the write lock the runtime is available (is_available_for_routing):
\* the old keepalive is replaced, and the pool goes into the table.  The pool
\* that was there is closed, and the task waits for that.
Insert(t) ==
  LET k == Target(t) IN
  /\ At(t, "insert")
  /\ runtime[pool[t]] \notin failed
  /\ keepalive' = [keepalive EXCEPT ![k] = pool[t]]
  /\ route' = [route EXCEPT ![k] = pool[t]]
  /\ closing' = closing \cup ({route[k]} \ {None})
  /\ pool' = [pool EXCEPT ![t] = route[k]]
  /\ GoTo(t, IF route[k] = None THEN "verify" ELSE "closePrevious")
  /\ UNCHANGED <<late, draining, detached, gone, unchecked, runtimeVars, poolVars, attempt, drain, todo, ops, faults>>

\* The runtime failed: its other pools leave the table too, and the pool is
\* closed.
InsertRejected(t) ==
  /\ At(t, "insert")
  /\ runtime[pool[t]] \in failed
  /\ ReplaceRuntime(runtime[pool[t]], t)
  /\ GoTo(t, "discard")
  /\ UNCHANGED <<keepalive, late, draining, closing, gone, unchecked, poolVars, attempt, pool, drain, todo, ops, faults>>

\* The steps at which a task awaits the close of the pool it holds.
ClosePc == {"closeOwn", "closePrevious", "closeStale", "closeRemoved", "closeEach"}

\* The close that the task awaited is over.
CloseAwaited(t) ==
  /\ pc[t] \in ClosePc
  /\ Closed(pool[t])
  /\ pool' = [pool EXCEPT ![t] = None]
  /\ GoTo(t, CASE pc[t] = "closeOwn" -> AfterInsert(t)
              [] pc[t] = "closePrevious" -> "verify"
              [] pc[t] = "closeStale" -> "create"
              [] pc[t] = "closeRemoved" -> "wait"
              [] pc[t] = "closeEach" -> IF \E g \in detached : g.by = t THEN "closeAll" ELSE AfterList(t))
  /\ UNCHANGED <<tableAndPools, drain, todo, ops, faults>>

\* Under the read lock: is the key still routed to an available pool?
Verify(t) ==
  LET p == route[Target(t)] IN
  /\ At(t, "verify")
  /\ GoTo(t, IF p # None /\ runtime[p] \notin failed THEN AfterInsert(t) ELSE "unroute")
  /\ UNCHANGED <<tableAndPools, pool, drain, todo, ops, faults>>

\* It was not: whatever the key is routed to now is detached with its runtime.
Unroute(t) ==
  /\ At(t, "unroute")
  /\ DetachByKey(Target(t), TRUE, t)
  /\ GoTo(t, AfterInsert(t))
  /\ UNCHANGED <<keepalive, late, draining, closing, gone, unchecked, poolVars, attempt, pool, drain, todo, ops, faults>>

-----------------------------------------------------------------------------
(* reclaim_idle_base_pool_for_session.                                     *)

\* The database has no connection slot left for a client session: the base
\* pools that are not in use are candidates.
SlotsExhausted(t) ==
  /\ At(t, "create")
  /\ Current(t)
  /\ key[t] \notin Base \cup NativeKeys
  /\ \E C \in SUBSET (Base \cap Routed) : todo' = [todo EXCEPT ![t] = C]
  /\ GoTo(t, "reclaim")
  /\ UNCHANGED <<tableAndPools, pool, drain, ops, faults>>

\* begin_pool_drain: a key that is draining already is skipped.
BeginDrain(t, k) ==
  /\ At(t, "reclaim")
  /\ k \in todo[t]
  /\ todo' = [todo EXCEPT ![t] = @ \ {k}]
  /\ IF k \in draining THEN UNCHANGED <<draining, drain, pc, key, mine>>
     ELSE /\ draining' = draining \cup {k}
          /\ drain' = [drain EXCEPT ![t] = k]
          /\ GoTo(t, "stop")
  /\ UNCHANGED <<route, keepalive, late, endVars, runtimeVars, poolVars, attempt, pool, ops, faults>>

NothingReclaimed(t) ==
  /\ At(t, "reclaim")
  /\ todo[t] = {}
  /\ GoTo(t, "idle")
  /\ UNCHANGED <<tableAndPools, pool, drain, todo, ops, faults>>

\* A mistaken stop that waits for the keepalive task without aborting it.
StopWithoutAbort(t) ==
  /\ At(t, "stop")
  /\ keepalive[drain[t]] = None
  /\ GoTo(t, "take")
  /\ UNCHANGED <<tableAndPools, pool, drain, todo, ops, faults>>

\* stop_keepalive_task_and_wait: returns when the keepalive task has ended.
StopKeepalive(t) ==
  /\ At(t, "stop")
  /\ keepalive[drain[t]] # None => \A l \in late : <<l.key, l.pool>> # <<drain[t], keepalive[drain[t]]>>
  /\ keepalive' = [keepalive EXCEPT ![drain[t]] = None]
  /\ GoTo(t, "take")
  /\ UNCHANGED <<route, late, draining, endVars, runtimeVars, poolVars, attempt, pool, drain, todo, ops, faults>>

\* Somebody else has a clone of the client (its strong count is not 1).
InUse(p) ==
  \/ \E u \in Tasks : pool[u] = p /\ pc[u] \in {"using", "probe", "restarted"}
  \/ \E k \in Keys : keepalive[k] = p
  \/ \E l \in late : l.pool = p

\* A mistaken reclaim that relies on is_pool_active alone.
TakeUnchecked(t) ==
  /\ At(t, "take")
  /\ route[drain[t]] # None
  /\ pool' = [pool EXCEPT ![t] = route[drain[t]]]
  /\ route' = [route EXCEPT ![drain[t]] = None]
  /\ GoTo(t, "closeReclaimed")
  /\ UNCHANGED <<keepalive, late, draining, endVars, runtimeVars, poolVars, attempt, drain, todo, ops, faults>>

\* A mistaken reclaim that copies the handle and leaves the pool in the table.
TakeLeavesRoute(t) ==
  /\ At(t, "take")
  /\ route[drain[t]] # None
  /\ ~InUse(route[drain[t]])
  /\ pool' = [pool EXCEPT ![t] = route[drain[t]]]
  /\ GoTo(t, "closeReclaimed")
  /\ UNCHANGED <<tableVars, endVars, runtimeVars, poolVars, attempt, drain, todo, ops, faults>>

\* Under the write lock the pool is nobody else's: it leaves the table.
Take(t) ==
  /\ At(t, "take")
  /\ route[drain[t]] # None
  /\ ~InUse(route[drain[t]])
  /\ pool' = [pool EXCEPT ![t] = route[drain[t]]]
  /\ route' = [route EXCEPT ![drain[t]] = None]
  /\ GoTo(t, "closeReclaimed")
  /\ UNCHANGED <<keepalive, late, draining, endVars, runtimeVars, poolVars, attempt, drain, todo, ops, faults>>

\* The pool is active, busy, shared or gone.
TakeRefused(t) ==
  /\ At(t, "take")
  /\ GoTo(t, "restart")
  /\ UNCHANGED <<tableAndPools, pool, drain, todo, ops, faults>>

\* restart_agent_keepalive: the client is cloned under the read lock ...
CloneForKeepalive(t) ==
  /\ At(t, "restart")
  /\ pool' = [pool EXCEPT ![t] = route[drain[t]]]
  /\ GoTo(t, "restarted")
  /\ UNCHANGED <<tableAndPools, drain, todo, ops, faults>>

\* ... and its keepalive started without it.
RestartKeepalive(t) ==
  /\ At(t, "restarted")
  /\ keepalive' = IF pool[t] = None THEN keepalive ELSE [keepalive EXCEPT ![drain[t]] = pool[t]]
  /\ pool' = [pool EXCEPT ![t] = None]
  /\ GoTo(t, "release")
  /\ UNCHANGED <<route, late, draining, endVars, runtimeVars, poolVars, attempt, drain, todo, ops, faults>>

\* close_reclaimed_agent_pool succeeded.
ReclaimCloses(t) ==
  /\ At(t, "closeReclaimed")
  /\ gone' = gone \cup {pool[t]}
  /\ pool' = [pool EXCEPT ![t] = None]
  /\ GoTo(t, "released")
  /\ UNCHANGED <<tableVars, detached, closing, unchecked, runtimeVars, poolVars, attempt, drain, todo, ops, faults>>

\* It failed and asks for a new runtime.
ReclaimReplaces(t) ==
  /\ At(t, "closeReclaimed")
  /\ ReplaceRuntime(runtime[pool[t]], t)
  /\ gone' = gone \cup {pool[t]}
  /\ pool' = [pool EXCEPT ![t] = None]
  /\ GoTo(t, "released")
  /\ Fault
  /\ UNCHANGED <<keepalive, late, draining, closing, unchecked, poolVars, attempt, drain, todo, ops>>

\* A mistaken restore that waits for the drain of its own key.
RestoreWaits(t) ==
  /\ At(t, "closeReclaimed")
  /\ GoTo(t, "insertWait")
  /\ UNCHANGED <<tableAndPools, pool, drain, todo, ops, faults>>

\* It failed otherwise: restore_reclaimed_agent_pool inserts the pool again,
\* without waiting for the drain, which is the task's own.
Restore(t) ==
  /\ At(t, "closeReclaimed")
  /\ GoTo(t, "insert")
  /\ UNCHANGED <<tableAndPools, pool, drain, todo, ops, faults>>

\* The same when the config was deleted meanwhile: the pool goes into the table
\* as it is, and the one that was there is dropped.
RestoreWithoutConfig(t) ==
  /\ At(t, "closeReclaimed")
  /\ gone' = gone \cup ({route[drain[t]]} \ {None})
  /\ route' = [route EXCEPT ![drain[t]] = pool[t]]
  /\ unchecked' = unchecked \cup {pool[t]}
  /\ pool' = [pool EXCEPT ![t] = None]
  /\ GoTo(t, "release")
  /\ UNCHANGED <<keepalive, late, draining, detached, closing, runtimeVars, poolVars, attempt, drain, todo, ops, faults>>

\* The drain guard is dropped: after a failure with the next candidate, after
\* a success with the retries of the open.
ReleaseDrain(t) ==
  /\ At(t, "release") \/ At(t, "released")
  /\ draining' = draining \ {drain[t]}
  /\ drain' = [drain EXCEPT ![t] = None]
  /\ todo' = [todo EXCEPT ![t] = IF pc[t] = "released" THEN {} ELSE @]
  /\ GoTo(t, IF pc[t] = "released" THEN "retry" ELSE "reclaim")
  /\ UNCHANGED <<route, keepalive, late, endVars, runtimeVars, poolVars, attempt, pool, ops, faults>>

-----------------------------------------------------------------------------
(* The future of a call is dropped at an await.                            *)

\* The steps at which a task owns the pool it holds.
OwnPc == {"created", "insertWait", "insert", "discard", "closeReclaimed"}

\* The groups whose finish_detach the task awaits.
AwaitedBy(t) ==
  {g \in detached : g.by = t \/ (pc[t] \in ClosePc /\ g.by = pool[t])}

\* The drain guard is released by its Drop; the pools that the future owns,
\* or was closing, are dropped.
Dropped(t) ==
  LET own == IF pc[t] \in OwnPc THEN {pool[t]} ELSE {}
      inline == IF pc[t] \in ClosePc THEN closing \cap {pool[t]} ELSE {}
  IN
  /\ pc[t] # "idle" \/ AwaitedBy(t) # {}
  /\ detached' = detached \ AwaitedBy(t)
  /\ closing' = closing \ inline
  /\ gone' = gone \cup own \cup inline \cup UNION {PoolsOf(g) : g \in AwaitedBy(t)}
  /\ draining' = draining \ {drain[t]}
  /\ pool' = [pool EXCEPT ![t] = None]
  /\ drain' = [drain EXCEPT ![t] = None]
  /\ todo' = [todo EXCEPT ![t] = {}]
  /\ GoTo(t, "idle")
  /\ Fault
  /\ UNCHANGED <<route, keepalive, late, unchecked, runtimeVars, poolVars, attempt, ops>>

-----------------------------------------------------------------------------
(* Keepalive tasks and the runtimes' processes.                            *)

\* The probe failed; the task goes for the write lock.
PingFails(k, replace) ==
  /\ keepalive[k] # None
  /\ replace => k \notin NativeKeys
  /\ \A l \in late : <<l.key, l.pool>> # <<k, keepalive[k]>>
  /\ late' = late \cup {[key |-> k, pool |-> keepalive[k], replace |-> replace]}
  /\ Fault
  /\ UNCHANGED <<route, keepalive, draining, endVars, runtimeVars, poolVars, attempt, taskVars, ops>>

\* detach_keepalive_target_if_current, also by a task that was aborted but has
\* not reached an await since.
KeepaliveDetaches(l) ==
  /\ l \in late
  /\ late' = late \ {l}
  /\ keepalive' = IF keepalive[l.key] = l.pool THEN [keepalive EXCEPT ![l.key] = None] ELSE keepalive
  /\ DetachProbed(l.key, l.pool, l.replace, None)
  /\ UNCHANGED <<draining, closing, gone, unchecked, poolVars, attempt, taskVars, ops, faults>>

\* An aborted task ends at its await.
KeepaliveAborted(l) ==
  /\ l \in late
  /\ keepalive[l.key] # l.pool
  /\ late' = late \ {l}
  /\ UNCHANGED <<route, keepalive, draining, endVars, runtimeVars, poolVars, attempt, taskVars, ops, faults>>

\* The process ends, or its idle timer kills it.
RuntimeDies ==
  /\ started > 0
  /\ started \notin failed
  /\ failed' = failed \cup {started}
  /\ Fault
  /\ UNCHANGED <<tableVars, endVars, started, replaced, poolVars, attempt, taskVars, ops>>

-----------------------------------------------------------------------------
Begins(t) ==
  \/ \E k \in Keys : Open(t, k) \/ Connect(t, k) \/ Remove(t, k) \/ Reconnect(t, k) \/ ReconnectForwarded(t, k) \/ DropCleanupGuard(t, k) \/ Use(t, k)
  \/ \E k \in Keys, replace \in BOOLEAN : CallDetachByKey(t, k, replace)
  \/ Disconnect(t) \/ CloseDatabasePool(t)

Goes(t) ==
  \/ ReadKeys(t) \/ StopKeepalives(t) \/ RemoveAll(t) \/ CloseNext(t)
  \/ RemoveRoutes(t) \/ CleanupDetaches(t) \/ WaitForDrain(t) \/ CheckMisses(t) \/ Recheck(t) \/ Reuse(t) \/ Probe(t) \/ ProbeOk(t)
  \/ \E replace \in BOOLEAN : ProbeFails(t, replace)
  \/ ProbeFindsStale(t) \/ RemoveStale(t) \/ CreateNative(t) \/ Create(t) \/ CreateFails(t) \/ CreateReplaces(t) \/ CheckAttempt(t) \/ Discard(t)
  \/ InsertWait(t) \/ Insert(t) \/ InsertRejected(t) \/ CloseAwaited(t) \/ Verify(t) \/ Unroute(t)
  \/ SlotsExhausted(t) \/ (\E k \in Base : BeginDrain(t, k)) \/ NothingReclaimed(t) \/ StopKeepalive(t)
  \/ Take(t) \/ TakeRefused(t) \/ CloneForKeepalive(t) \/ RestartKeepalive(t)
  \/ ReclaimCloses(t) \/ ReclaimReplaces(t) \/ Restore(t) \/ RestoreWithoutConfig(t)
  \/ ReleaseDrain(t)

Uses(t) == EndUse(t) \/ \E replace \in BOOLEAN : UseFails(t, replace)

Keepalives ==
  \/ \E k \in Keys, replace \in BOOLEAN : PingFails(k, replace)
  \/ \E l \in late : KeepaliveDetaches(l) \/ KeepaliveAborted(l)

Ends ==
  \/ \E g \in detached : FinishDetach(g) \/ FinishDetachAborted(g)
  \/ \E p \in Pools : Close(p) \/ CloseReplaces(p)

Next ==
  \/ \E t \in Tasks : Begins(t) \/ Goes(t) \/ Uses(t) \/ Dropped(t)
  \/ Keepalives
  \/ Ends
  \/ RuntimeDies

Spec == Init /\ [][Next]_vars

(***************************************************************************)
(* Fairness: a task that closes a list of removed pools goes on with it    *)
(* (close_pool_with_timeout is bounded), and so do a task that holds a     *)
(* drain guard (an aborted keepalive ends at its next await, nobody else   *)
(* has the client that is closed, and the call that closes the session has *)
(* a timeout), a keepalive whose probe failed, finish_detach and the       *)
(* closing of pools.  No call has to begin or to return, no probe and no   *)
(* query has to end, nothing has to fail.                                  *)
(***************************************************************************)
FairSpec ==
  /\ Spec
  /\ \A t \in Tasks : WF_vars((pc[t] \in ListPc \/ drain[t] # None) /\ Goes(t))
  /\ WF_vars(\E l \in late : KeepaliveDetaches(l) \/ KeepaliveAborted(l))
  /\ WF_vars(Ends)

-----------------------------------------------------------------------------
(* Properties.                                                             *)

\* The places a pool can be in.
Places(p) ==
  {<<"routed", k>> : k \in {k \in Keys : route[k] = p}}
  \cup {<<"owned", t>> : t \in {t \in Tasks : pool[t] = p /\ pc[t] \in OwnPc}}
  \cup {<<"detached", g>> : g \in {g \in detached : p \in PoolsOf(g)}}
  \cup {<<"closing", p>> : q \in closing \cap {p}}
  \cup {<<"gone", p>> : q \in gone \cap {p}}

(***************************************************************************)
(* Every pool that was made is in one place: routed under one key, owned   *)
(* by one task, detached once, being closed, or gone (closed, or its       *)
(* handle dropped).  No path closes a pool twice, routes it under two      *)
(* keys, leaves one in the routing table that is being closed or gone, or  *)
(* takes one out of it for which nobody is responsible, however detaches,  *)
(* reclaims, restores and replacements interleave.                         *)
(***************************************************************************)
PoolIsInOnePlace == \A p \in Pools : Cardinality(Places(p)) = IF p <= made THEN 1 ELSE 0

\* Where a pool is.
Place(p) ==
  CASE \E k \in Keys : route[k] = p                        -> "routed"
    [] \E t \in Tasks : pool[t] = p /\ pc[t] \in OwnPc -> "owned"
    [] \E g \in detached : p \in PoolsOf(g)             -> "detached"
    [] p \in closing                                     -> "closing"
    [] p \in gone                                        -> "gone"
    [] OTHER                                             -> "unmade"

Lifecycle == INSTANCE PoolLifecycle WITH place <- [p \in Pools |-> Place(p)]

(***************************************************************************)
(* The table, the tasks and PoolRoutingControl together keep the life of   *)
(* every pool: one owner makes and publishes it, a pool on its way out     *)
(* never comes back (not by the restore of a reclaimed pool, nor by an     *)
(* insert that races a detach), and none disappears before it is closed or *)
(* dropped.                                                                *)
(***************************************************************************)
PoolsLiveOnce == Lifecycle!LifecycleSpec

(***************************************************************************)
(* A runtime that was replaced has no route: fail_stop and the removal of  *)
(* all its routes happen under the write lock of the table, and an insert  *)
(* looks at the runtime under the same lock, so a pool that was being made *)
(* or restored meanwhile does not bring the runtime back.  (The restore of *)
(* a pool whose config was deleted is the one insert that does not look.)  *)
(***************************************************************************)
ReplacedRuntimeHasNoRoute ==
  \A k \in Keys : route[k] # None /\ route[k] \notin unchecked => runtime[route[k]] \notin replaced

(***************************************************************************)
(* A pool that is reclaimed is nobody else's: while its session is closed  *)
(* no query, probe or keepalive has a clone of its client.                 *)
(***************************************************************************)
ReclaimedPoolIsUnused == \A t \in Tasks : pc[t] = "closeReclaimed" => ~InUse(pool[t])

(***************************************************************************)
(* Whoever waits for a drain can count on it: a draining key has one task  *)
(* that holds its guard, and that task does not itself wait for a drain    *)
(* (wait_for_pool_drain has no timeout; the restore of a pool that could   *)
(* not be reclaimed inserts it while its own key is draining).             *)
(***************************************************************************)
DrainHasWorkingHolder ==
  \A k \in draining : \E t \in Tasks :
    /\ drain[t] = k
    /\ \A u \in Tasks \ {t} : drain[u] # k
    /\ pc[t] \notin {"wait", "wait2", "insertWait"}

(***************************************************************************)
(* A drain ends: the reclaim of a base pool comes to its end, whether the  *)
(* keepalive, a query, a probe or a connect races it for the pool, the     *)
(* close fails and the pool is restored, the runtime dies or is replaced   *)
(* meanwhile, or the future is dropped.  Until then everybody who opens    *)
(* the key waits in wait_for_pool_drain, which has no timeout.             *)
(***************************************************************************)
DrainEnds == \A k \in Base : (k \in draining) ~> (k \notin draining)

(***************************************************************************)
(* A pool that was taken out of the table ends: it is closed, in the       *)
(* background or in turn by the task that removed a list of pools, or      *)
(* dropped with the task that had it.                                      *)
(***************************************************************************)
RemovedPoolEnds ==
  \A p \in Pools : (p \in closing \/ \E g \in detached : p \in PoolsOf(g)) ~> (p \in gone)

(***************************************************************************)
(* A connection attempt that was superseded does not replace the pool of a *)
(* newer attempt (stale_connection_attempt_cannot_replace_newer_pool).     *)
(***************************************************************************)
NewerAttemptStays ==
  [][\A k \in Keys : LET old == route[k]  new == route'[k] IN
       old # None /\ new # None /\ attemptOf[new] # None => attemptOf[old] <= attemptOf[new]]_vars
=============================================================================
