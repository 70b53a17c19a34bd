------------------------ MODULE ConnectionPoolsProofs ------------------------
(***************************************************************************)
(* Proofs about the routing table: types, replaced runtimes, drains,       *)
(* reclaimed pools, where the pools are and the life they live.  One lemma *)
(* per part of the inductive invariant, with one step per action that      *)
(* touches what the part speaks about; for the places of the pools, one    *)
(* lemma per kind of move.                                                 *)
(***************************************************************************)
EXTENDS ConnectionPools, FiniteSetTheorems, TLAPS

\* The steps at which a task may hold a drain guard.
DrainPc == {"stop", "take", "restart", "restarted", "closeReclaimed", "release", "released",
            "insert", "discard", "closeOwn", "closePrevious", "verify", "unroute"}

\* The steps at which a task has a clone or the only handle of its pool.
HandlePc == OwnPc \cup {"using", "probe"}

\* A task has the locals that its step uses.
LocalsFollowControl ==
  \A t \in Tasks :
    /\ pc[t] \notin {"idle", "readKeys", "stopKeys", "remove", "closeAll", "closeEach"} => key[t] \in Keys
    /\ pc[t] \in {"stop", "take", "restart", "restarted", "closeReclaimed", "release", "released"} => drain[t] # None
    /\ pc[t] \in HandlePc => pool[t] # None
    /\ drain[t] # None => drain[t] \in Base /\ pc[t] \in DrainPc

\* Whatever refers to a pool refers to one that was made.  (For the pools that a
\* task closes from a list this follows from their places.)
Numbered ==
  /\ \A k \in Keys : route[k] <= made /\ keepalive[k] <= made
  /\ \A l \in late : l.pool <= made
  /\ \A t \in Tasks : pc[t] # "closeEach" => pool[t] <= made

\* A pool under an Agent key has a runtime.
AgentPoolHasRuntime ==
  /\ \A k \in Keys \ NativeKeys : /\ route[k] # None => runtime[route[k]] # None
                                  /\ keepalive[k] # None => runtime[keepalive[k]] # None
  /\ \A l \in late : l.key \notin NativeKeys => runtime[l.pool] # None
  /\ \A t \in Tasks : pc[t] \in HandlePc \cup {"restarted"} /\ pool[t] # None /\ Target(t) \notin NativeKeys
                        => runtime[pool[t]] # None

\* A pool in the table has one key, and a pool that a task owns has no key and
\* no other owner.
OwnersAreExclusive ==
  /\ \A j, k \in Keys : j # k /\ route[j] # None => route[j] # route[k]
  /\ \A t \in Tasks, k \in Keys : pc[t] \in OwnPc => pool[t] # route[k]
  /\ \A t, u \in Tasks : t # u /\ pc[t] \in OwnPc /\ pc[u] \in OwnPc => pool[t] # pool[u]

\* A draining key has one holder of its guard.
DrainsAreHeld ==
  /\ \A t \in Tasks : drain[t] # None => drain[t] \in draining
  /\ \A k \in draining : \E t \in Tasks : drain[t] = k
  /\ \A t, u \in Tasks : t # u /\ drain[t] # None => drain[t] # drain[u]

\* An attempt is begun by a call.
AttemptsAreCalls == attempt <= ops

IInv ==
  /\ TypeOK
  /\ LocalsFollowControl
  /\ Numbered
  /\ AgentPoolHasRuntime
  /\ OwnersAreExclusive
  /\ DrainsAreHeld
  /\ AttemptsAreCalls
  /\ ReplacedRuntimeHasNoRoute
  /\ ReclaimedPoolIsUnused

-----------------------------------------------------------------------------
(* What the helpers of PoolRoutingControl do to the table.                 *)

Group == [by : Tasks \cup Pools \cup {None}, pairs : SUBSET (Keys \X Pools)]

\* Routes only disappear, and no route is left to a runtime that was replaced.
Detaches ==
  /\ route' \in [Keys -> Pools \cup {None}]
  /\ \A k \in Keys : route'[k] \in {None, route[k]}
  /\ detached' \subseteq Group
  /\ started' = started
  /\ failed' \subseteq Runtimes
  /\ replaced' \subseteq failed'
  /\ \A k \in Keys : route'[k] # None /\ route'[k] \notin unchecked => runtime[route'[k]] \notin replaced'

\* Detach takes routes out and hands them to a well-formed group.
LEMMA DetachShrinks ==
  ASSUME IInv, NEW K \in SUBSET Routed, NEW by \in Tasks \cup Pools \cup {None}, Detach(K, by)
  PROVE  /\ route' = [k \in Keys |-> IF k \in K THEN None ELSE route[k]]
         /\ route' \in [Keys -> Pools \cup {None}]
         /\ \A k \in Keys : route'[k] \in {None, route[k]}
         /\ detached' \subseteq Group
<1>1. route \in [Keys -> Pools \cup {None}] /\ detached \subseteq Group
  BY DEF IInv, TypeOK, Group
<1>2. /\ route' = [k \in Keys |-> IF k \in K THEN None ELSE route[k]]
      /\ detached' \subseteq detached \cup {[by |-> by, pairs |-> {<<k, route[k]>> : k \in K}]}
  BY DEF Detach
<1>3. {<<k, route[k]>> : k \in K} \subseteq Keys \X Pools
  BY <1>1 DEF Routed
<1>4. [by |-> by, pairs |-> {<<k, route[k]>> : k \in K}] \in Group
  BY <1>3 DEF Group
<1>5. detached' \subseteq Group
  BY <1>1, <1>2, <1>4
<1>6. QED
  BY <1>1, <1>2, <1>5

\* detach and fail_stop under one lock leave no route to a replaced runtime.
LEMMA DetachAndFailStop ==
  ASSUME IInv, NEW K \in SUBSET Routed, NEW by \in Tasks \cup Pools \cup {None}, NEW r, NEW replace \in BOOLEAN,
         replace => r \in Runtimes /\ K = On(r),
         Detach(K, by), FailStop(r, replace)
  PROVE  Detaches
<1>1. /\ failed \subseteq Runtimes
      /\ replaced \subseteq failed
      /\ ReplacedRuntimeHasNoRoute
  BY DEF IInv, TypeOK
<1>2. /\ started' = started
      /\ failed' \subseteq Runtimes
      /\ replaced' \subseteq failed'
      /\ replaced' \subseteq replaced \cup (IF replace THEN {r} ELSE {})
  BY <1>1 DEF FailStop
<1>3. ASSUME NEW k \in Keys, route'[k] # None, route'[k] \notin unchecked
      PROVE  runtime[route'[k]] \notin replaced'
  <2>1. route'[k] = route[k] /\ k \notin K
    BY <1>3, DetachShrinks
  <2>2. runtime[route[k]] \notin replaced
    BY <1>1, <1>3, <2>1 DEF ReplacedRuntimeHasNoRoute
  <2>3. replace => runtime[route[k]] # r
    BY <1>3, <2>1 DEF On
  <2>4. QED
    BY <1>2, <2>1, <2>2, <2>3
<1>4. QED
  BY <1>2, <1>3, DetachShrinks DEF Detaches

\* replace_runtime_after_close_failure, replace_runtime_after_open_failure.
LEMMA ReplaceRuntimeDetaches ==
  ASSUME IInv, NEW r \in Runtimes, NEW by \in Tasks \cup Pools \cup {None}, ReplaceRuntime(r, by)
  PROVE  Detaches
<1>1. On(r) \in SUBSET Routed
  BY DEF On, Routed
<1>2. QED
  BY <1>1, DetachAndFailStop DEF ReplaceRuntime

\* detach_agent_pool_if_current.
LEMMA DetachIfCurrentDetaches ==
  ASSUME IInv, NEW k, NEW p \in Pools, NEW replace \in BOOLEAN, NEW by \in Tasks \cup Pools \cup {None},
         runtime[p] # None, DetachIfCurrent(k, p, replace, by)
  PROVE  Detaches
<1> DEFINE K == IF replace THEN On(runtime[p]) ELSE {k} \cap {j \in Keys : route[j] = p}
<1>1. K \in SUBSET Routed
  BY DEF On, Routed, None, Pools
<1>2. runtime[p] \in Runtimes
  BY DEF IInv, TypeOK
<1>3. Detach(K, by) /\ FailStop(runtime[p], replace)
  BY DEF DetachIfCurrent
<1>4. replace => K = On(runtime[p])
  OBVIOUS
<1> HIDE DEF K
<1>5. QED
  BY <1>1, <1>2, <1>3, <1>4, DetachAndFailStop

\* A removal that leaves the runtimes alone.
LEMMA DetachWithoutFailing ==
  ASSUME IInv, NEW K \in SUBSET Routed, NEW by \in Tasks \cup Pools \cup {None},
         Detach(K, by), UNCHANGED runtimeVars
  PROVE  Detaches
<1>1. FailStop(None, FALSE)
  BY DEF FailStop, runtimeVars
<1>2. QED
  BY <1>1, DetachAndFailStop

\* The removal after a failed health check or keepalive.
LEMMA DetachProbedDetaches ==
  ASSUME IInv, NEW k, NEW p \in Pools, NEW replace \in BOOLEAN, NEW by \in Tasks \cup Pools \cup {None},
         k \notin NativeKeys => runtime[p] # None, DetachProbed(k, p, replace, by)
  PROVE  Detaches
<1>1. CASE k \in NativeKeys
  <2>1. {k} \cap Routed \in SUBSET Routed
    OBVIOUS
  <2>2. Detach({k} \cap Routed, by) /\ UNCHANGED runtimeVars
    BY <1>1 DEF DetachProbed
  <2>3. QED
    BY <2>1, <2>2, DetachWithoutFailing
<1>2. CASE k \notin NativeKeys
  BY <1>2, DetachIfCurrentDetaches DEF DetachProbed
<1>3. QED
  BY <1>1, <1>2

\* detach_pool_by_key.
LEMMA DetachByKeyDetaches ==
  ASSUME IInv, NEW k \in Keys, NEW replace \in BOOLEAN, NEW by \in Tasks \cup Pools \cup {None},
         DetachByKey(k, replace, by)
  PROVE  Detaches
<1>1. CASE route[k] = None
  <2>1. UNCHANGED <<route, detached, started, failed, replaced>>
    BY <1>1 DEF DetachByKey, runtimeVars
  <2>2. QED
    BY <2>1 DEF Detaches, IInv, TypeOK, Group, ReplacedRuntimeHasNoRoute
<1>2. CASE route[k] # None
  <2> DEFINE r == runtime[route[k]]
             all == replace /\ k \notin NativeKeys
             K == IF all THEN On(r) ELSE {k}
  <2>1. K \in SUBSET Routed
    BY <1>2 DEF On, Routed
  <2>2. Detach(K, by) /\ FailStop(r, all)
    BY <1>2 DEF DetachByKey
  <2>3. all => r \in Runtimes /\ K = On(r)
    BY <1>2 DEF IInv, TypeOK, AgentPoolHasRuntime
  <2>4. all \in BOOLEAN
    OBVIOUS
  <2> HIDE DEF K, all, r
  <2>5. QED
    BY <2>1, <2>2, <2>3, <2>4, DetachAndFailStop
<1>3. QED
  BY <1>1, <1>2

\* All the actions that call one of them.
LEMMA DetachActions ==
  ASSUME IInv
  PROVE  /\ \A t \in Tasks : CleanupDetaches(t) \/ CreateReplaces(t) \/ InsertRejected(t) \/ Unroute(t) \/ ReclaimReplaces(t)
                               \/ RemoveAll(t) => Detaches
         /\ \A t \in Tasks, k \in Keys, replace \in BOOLEAN : CallDetachByKey(t, k, replace) => Detaches
         /\ \A t \in Tasks, replace \in BOOLEAN : ProbeFails(t, replace) \/ UseFails(t, replace) => Detaches
         /\ \A l \in late : KeepaliveDetaches(l) => Detaches
         /\ \A p \in Pools : CloseReplaces(p) => Detaches
<1> USE ConnectionPoolsAssumption DEF None
<1>1. ASSUME NEW t \in Tasks, CleanupDetaches(t) PROVE Detaches
  <2>1. key[t] \in Keys
    BY <1>1 DEF CleanupDetaches, At, IInv, LocalsFollowControl
  <2>2. QED
    BY <1>1, <2>1, DetachByKeyDetaches DEF CleanupDetaches
<1>2. ASSUME NEW t \in Tasks, CreateReplaces(t) PROVE Detaches
  <2>1. started \in Runtimes
    BY <1>2 DEF CreateReplaces, IInv, TypeOK, Runtimes
  <2>2. QED
    BY <1>2, <2>1, ReplaceRuntimeDetaches DEF CreateReplaces
<1>3. ASSUME NEW t \in Tasks, InsertRejected(t) PROVE Detaches
  <2>1. runtime[pool[t]] \in Runtimes
    BY <1>3 DEF InsertRejected, IInv, TypeOK
  <2>2. QED
    BY <1>3, <2>1, ReplaceRuntimeDetaches DEF InsertRejected
<1>4. ASSUME NEW t \in Tasks, Unroute(t) PROVE Detaches
  <2>1. Target(t) \in Keys
    BY <1>4 DEF Unroute, At, Target, IInv, LocalsFollowControl
  <2>2. QED
    BY <1>4, <2>1, DetachByKeyDetaches DEF Unroute
<1>5. ASSUME NEW t \in Tasks, ReclaimReplaces(t) PROVE Detaches
  <2>1. pool[t] \in Pools /\ drain[t] \in Base /\ drain[t] # None
    BY <1>5 DEF ReclaimReplaces, At, IInv, TypeOK, LocalsFollowControl, HandlePc, OwnPc
  <2>2. runtime[pool[t]] # None
    BY <1>5, <2>1 DEF ReclaimReplaces, At, Target, IInv, AgentPoolHasRuntime, HandlePc, OwnPc, Pools
  <2>3. runtime[pool[t]] \in Runtimes
    BY <2>1, <2>2 DEF IInv, TypeOK
  <2>4. QED
    BY <1>5, <2>3, ReplaceRuntimeDetaches DEF ReclaimReplaces
<1>6. ASSUME NEW t \in Tasks, NEW k \in Keys, NEW replace \in BOOLEAN, CallDetachByKey(t, k, replace) PROVE Detaches
  BY <1>6, DetachByKeyDetaches DEF CallDetachByKey
<1>7. ASSUME NEW t \in Tasks, pc[t] \in {"using", "probe"}
      PROVE  pool[t] \in Pools /\ (key[t] \notin NativeKeys => runtime[pool[t]] # None)
  <2>1. pool[t] \in Pools /\ pool[t] # None /\ drain[t] = None
    BY <1>7 DEF IInv, TypeOK, LocalsFollowControl, HandlePc, DrainPc, Pools
  <2>2. QED
    BY <1>7, <2>1 DEF Target, IInv, AgentPoolHasRuntime, HandlePc
<1>8. ASSUME NEW t \in Tasks, NEW replace \in BOOLEAN, ProbeFails(t, replace) PROVE Detaches
  <2>1. pool[t] \in Pools /\ runtime[pool[t]] # None
    BY <1>7, <1>8 DEF ProbeFails, At
  <2>2. QED
    BY <1>8, <2>1, DetachIfCurrentDetaches DEF ProbeFails
<1>9. ASSUME NEW t \in Tasks, NEW replace \in BOOLEAN, UseFails(t, replace) PROVE Detaches
  <2>1. pool[t] \in Pools /\ (key[t] \notin NativeKeys => runtime[pool[t]] # None)
    BY <1>7, <1>9 DEF UseFails, At
  <2>2. QED
    BY <1>9, <2>1, DetachProbedDetaches DEF UseFails
<1>10. ASSUME NEW l \in late, KeepaliveDetaches(l) PROVE Detaches
  <2>1. l.pool \in Pools /\ l.replace \in BOOLEAN /\ (l.key \notin NativeKeys => runtime[l.pool] # None)
    BY DEF IInv, TypeOK, AgentPoolHasRuntime
  <2>2. QED
    BY <1>10, <2>1, DetachProbedDetaches DEF KeepaliveDetaches
<1>11. ASSUME NEW p \in Pools, CloseReplaces(p) PROVE Detaches
  <2>1. runtime[p] \in Runtimes
    BY <1>11 DEF CloseReplaces, IInv, TypeOK
  <2>2. QED
    BY <1>11, <2>1, ReplaceRuntimeDetaches DEF CloseReplaces
<1>12. ASSUME NEW t \in Tasks, RemoveAll(t) PROVE Detaches
  <2>1. Detach(todo[t] \cap Routed, t) /\ UNCHANGED runtimeVars
    BY <1>12 DEF RemoveAll
  <2>2. QED
    BY <2>1, DetachWithoutFailing
<1>13. QED
  BY <1>1, <1>2, <1>3, <1>4, <1>5, <1>6, <1>8, <1>9, <1>10, <1>11, <1>12

\* close_removed takes one pool from the list of a task.
LEMMA ClosesNext ==
  ASSUME IInv, NEW t \in Tasks, CloseNext(t)
  PROVE  \E g \in detached, p \in Pools :
           /\ p \in PoolsOf(g)
           /\ detached' = (detached \ {g}) \cup {h \in {Without(g, p)} : h.pairs # {}}
           /\ detached' \subseteq Group
           /\ closing' = closing \cup {p}
           /\ pool' = [pool EXCEPT ![t] = p]
<1>0. PICK g \in detached : \E p \in PoolsOf(g) :
        /\ detached' = (detached \ {g}) \cup {h \in {Without(g, p)} : h.pairs # {}}
        /\ closing' = closing \cup {p}
        /\ pool' = [pool EXCEPT ![t] = p]
  BY DEF CloseNext
<1>1. PICK p \in PoolsOf(g) :
        /\ detached' = (detached \ {g}) \cup {h \in {Without(g, p)} : h.pairs # {}}
        /\ closing' = closing \cup {p}
        /\ pool' = [pool EXCEPT ![t] = p]
  BY <1>0
<1>2. detached \subseteq Group
  BY DEF IInv, TypeOK, Group
<1>3. p \in Pools
  BY <1>2 DEF Group, PoolsOf
<1>4. Without(g, p) \in Group
  BY <1>2 DEF Group, Without
<1>5. detached' \subseteq Group
  BY <1>1, <1>2, <1>4
<1>6. QED
  BY <1>1, <1>3, <1>5

-----------------------------------------------------------------------------
\* Every step leaves a task with the locals that its next step uses.
LEMMA LocalsPreserved == ASSUME IInv, Next PROVE LocalsFollowControl'
<1>1. /\ route \in [Keys -> Pools \cup {None}] /\ keepalive \in [Keys -> Pools \cup {None}]
      /\ late \subseteq [key : Keys, pool : Pools, replace : BOOLEAN] /\ draining \subseteq Keys
      /\ runtime \in [Pools -> Runtimes \cup {None}] /\ made \in 0..MaxPools
      /\ pc \in [Tasks -> TaskPc] /\ key \in [Tasks -> Keys \cup {None}] /\ pool \in [Tasks -> Pools \cup {None}]
      /\ drain \in [Tasks -> Keys \cup {None}]
  BY DEF IInv, TypeOK
<1>2. LocalsFollowControl
  BY DEF IInv
<1>3. ASSUME NEW l \in late,
             KeepaliveDetaches(l) \/ KeepaliveAborted(l)
      PROVE  LocalsFollowControl'
  BY <1>3, <1>1, <1>2 DEF LocalsFollowControl, HandlePc, OwnPc, DrainPc, Pools, None, KeepaliveDetaches,
      runtimeVars, poolVars, taskVars, KeepaliveAborted, endVars
<1>4. ASSUME NEW g \in detached,
             FinishDetach(g) \/ FinishDetachAborted(g)
      PROVE  LocalsFollowControl'
  BY <1>4, <1>1, <1>2 DEF LocalsFollowControl, HandlePc, OwnPc, DrainPc, Pools, None, FinishDetach,
      runtimeVars, poolVars, taskVars, FinishDetachAborted
<1>5. ASSUME NEW p \in Pools,
             Close(p) \/ CloseReplaces(p)
      PROVE  LocalsFollowControl'
  BY <1>5, <1>1, <1>2 DEF LocalsFollowControl, HandlePc, OwnPc, DrainPc, Pools, None, Close, tableVars,
      runtimeVars, poolVars, taskVars, CloseReplaces
<1>6. ASSUME NEW t \in Tasks, NEW k \in Keys,
             Open(t, k) \/ Connect(t, k) \/ Remove(t, k) \/ Reconnect(t, k) \/ DropCleanupGuard(t, k)
      PROVE  LocalsFollowControl'
  BY <1>6, <1>1, <1>2 DEF LocalsFollowControl, HandlePc, OwnPc, DrainPc, Pools, None, Open, At, Calls,
      tableVars, endVars, runtimeVars, poolVars, Connect, Routed, Remove, Reconnect, DropCleanupGuard
<1>7. ASSUME NEW t \in Tasks, NEW k \in Keys, Use(t, k) PROVE LocalsFollowControl'
  BY <1>7, <1>1, <1>2 DEF LocalsFollowControl, HandlePc, OwnPc, DrainPc, Pools, None, Use, At, Calls,
      tableVars, endVars, runtimeVars, poolVars
<1>8. ASSUME NEW t \in Tasks, NEW k \in Keys, NEW replace \in BOOLEAN,
             CallDetachByKey(t, k, replace)
      PROVE  LocalsFollowControl'
  BY <1>8, <1>1, <1>2 DEF LocalsFollowControl, HandlePc, OwnPc, DrainPc, Pools, None, CallDetachByKey, At,
      Calls, runtimeVars, poolVars
<1>9. ASSUME NEW t \in Tasks,
             RemoveRoutes(t) \/ Probe(t) \/ ProbeOk(t) \/ ProbeFindsStale(t) \/ RemoveStale(t) \/
                 CreateNative(t)
      PROVE  LocalsFollowControl'
  BY <1>9, <1>1, <1>2 DEF LocalsFollowControl, HandlePc, OwnPc, DrainPc, Pools, None, RemoveRoutes, At,
      GoTo, Routed, runtimeVars, poolVars, Probe, tableVars, endVars, tableAndPools, ProbeOk,
      ProbeFindsStale, Fault, RemoveStale, CreateNative, Current
<1>10. ASSUME NEW t \in Tasks,
             Create(t) \/ Insert(t) \/ CloseAwaited(t) \/ Take(t) \/ CloneForKeepalive(t) \/
                 RestartKeepalive(t)
      PROVE  LocalsFollowControl'
  BY <1>10, <1>1, <1>2 DEF LocalsFollowControl, HandlePc, OwnPc, DrainPc, Pools, None, Create, At, GoTo,
      Current, Takes, tableVars, endVars, Insert, Target, runtimeVars, poolVars, CloseAwaited, AfterInsert,
      ClosePc, Closed, tableAndPools, Take, InUse, CloneForKeepalive, RestartKeepalive, AfterList
<1>11. ASSUME NEW t \in Tasks,
             ReclaimCloses(t) \/ ReclaimReplaces(t) \/ RestoreWithoutConfig(t) \/ EndUse(t)
      PROVE  LocalsFollowControl'
  BY <1>11, <1>1, <1>2 DEF LocalsFollowControl, HandlePc, OwnPc, DrainPc, Pools, None, ReclaimCloses, At,
      GoTo, tableVars, runtimeVars, poolVars, ReclaimReplaces, Fault, RestoreWithoutConfig, EndUse, endVars
<1>12. ASSUME NEW t \in Tasks,
             Reuse(t) \/ CreateFails(t) \/ CreateReplaces(t) \/ CheckAttempt(t) \/ Discard(t) \/
                 InsertWait(t)
      PROVE  LocalsFollowControl'
  BY <1>12, <1>1, <1>2 DEF LocalsFollowControl, HandlePc, OwnPc, DrainPc, Pools, None, Reuse, At, GoTo,
      tableVars, endVars, runtimeVars, poolVars, tableAndPools, CreateFails, CreateReplaces, Current, Fault,
      CheckAttempt, Discard, InsertWait, Target
<1>13. ASSUME NEW t \in Tasks, TakeRefused(t) \/ Restore(t) PROVE LocalsFollowControl'
  BY <1>13, <1>1, <1>2 DEF LocalsFollowControl, HandlePc, OwnPc, DrainPc, Pools, None, TakeRefused, At,
      GoTo, tableVars, endVars, runtimeVars, poolVars, tableAndPools, Restore
<1>14. ASSUME NEW t \in Tasks, ReleaseDrain(t) PROVE LocalsFollowControl'
  BY <1>14, <1>1, <1>2 DEF LocalsFollowControl, HandlePc, OwnPc, DrainPc, Pools, None, ReleaseDrain, At,
      GoTo, endVars, runtimeVars, poolVars
<1>15. ASSUME NEW t \in Tasks, Dropped(t) PROVE LocalsFollowControl'
  BY <1>15, <1>1, <1>2 DEF LocalsFollowControl, HandlePc, OwnPc, DrainPc, Pools, None, Dropped, GoTo,
      PoolsOf, AwaitedBy, ClosePc, Fault, runtimeVars, poolVars
<1>16. ASSUME NEW t \in Tasks, NEW replace \in BOOLEAN,
             ProbeFails(t, replace) \/ UseFails(t, replace)
      PROVE  LocalsFollowControl'
  BY <1>16, <1>1, <1>2 DEF LocalsFollowControl, HandlePc, OwnPc, DrainPc, Pools, None, ProbeFails, At, GoTo,
      Fault, poolVars, UseFails, Routed, runtimeVars
<1>17. ASSUME NEW k \in Keys, NEW replace \in BOOLEAN, PingFails(k, replace) PROVE LocalsFollowControl'
  BY <1>17, <1>1, <1>2 DEF LocalsFollowControl, HandlePc, OwnPc, DrainPc, Pools, None, PingFails, Fault,
      endVars, runtimeVars, poolVars, taskVars
<1>18. ASSUME NEW t \in Tasks, Disconnect(t) PROVE LocalsFollowControl'
  BY <1>18, <1>1, <1>2 DEF LocalsFollowControl, HandlePc, OwnPc, DrainPc, Pools, None, Disconnect, At,
      Calls, Routed, endVars, runtimeVars, poolVars, tableVars
<1>19. ASSUME NEW t \in Tasks, CloseDatabasePool(t) PROVE LocalsFollowControl'
  BY <1>19, <1>1, <1>2 DEF LocalsFollowControl, HandlePc, OwnPc, DrainPc, Pools, None, CloseDatabasePool,
      At, Calls, Routed, endVars, runtimeVars, poolVars, tableVars
<1>20. ASSUME NEW t \in Tasks, CleanupDetaches(t) PROVE LocalsFollowControl'
  BY <1>20, <1>1, <1>2 DEF LocalsFollowControl, HandlePc, OwnPc, DrainPc, Pools, None, CleanupDetaches, At,
      GoTo, runtimeVars, poolVars
<1>21. ASSUME NEW t \in Tasks, WaitForDrain(t) PROVE LocalsFollowControl'
  BY <1>21, <1>1, <1>2 DEF LocalsFollowControl, HandlePc, OwnPc, DrainPc, Pools, None, WaitForDrain, At,
      GoTo, tableVars, endVars, runtimeVars, poolVars, tableAndPools
<1>22. ASSUME NEW t \in Tasks, CheckMisses(t) PROVE LocalsFollowControl'
  BY <1>22, <1>1, <1>2 DEF LocalsFollowControl, HandlePc, OwnPc, DrainPc, Pools, None, CheckMisses, At,
      GoTo, tableVars, endVars, runtimeVars, poolVars, tableAndPools
<1>23. ASSUME NEW t \in Tasks, Recheck(t) PROVE LocalsFollowControl'
  BY <1>23, <1>1, <1>2 DEF LocalsFollowControl, HandlePc, OwnPc, DrainPc, Pools, None, Recheck, At, GoTo,
      tableVars, endVars, runtimeVars, poolVars, tableAndPools
<1>24. ASSUME NEW t \in Tasks, InsertRejected(t) PROVE LocalsFollowControl'
  BY <1>24, <1>1, <1>2 DEF LocalsFollowControl, HandlePc, OwnPc, DrainPc, Pools, None, InsertRejected, At,
      GoTo, poolVars
<1>25. ASSUME NEW t \in Tasks, Verify(t) PROVE LocalsFollowControl'
  BY <1>25, <1>1, <1>2 DEF LocalsFollowControl, HandlePc, OwnPc, DrainPc, Pools, None, Verify, At, GoTo,
      Target, AfterInsert, tableVars, endVars, runtimeVars, poolVars, tableAndPools
<1>26. ASSUME NEW t \in Tasks, Unroute(t) PROVE LocalsFollowControl'
  BY <1>26, <1>1, <1>2 DEF LocalsFollowControl, HandlePc, OwnPc, DrainPc, Pools, None, Unroute, At, GoTo,
      Target, AfterInsert, runtimeVars, poolVars
<1>27. ASSUME NEW t \in Tasks, SlotsExhausted(t) PROVE LocalsFollowControl'
  BY <1>27, <1>1, <1>2 DEF LocalsFollowControl, HandlePc, OwnPc, DrainPc, Pools, None, SlotsExhausted, At,
      GoTo, Routed, Current, tableVars, endVars, runtimeVars, poolVars, tableAndPools
<1>28. ASSUME NEW t \in Tasks, NothingReclaimed(t) PROVE LocalsFollowControl'
  BY <1>28, <1>1, <1>2 DEF LocalsFollowControl, HandlePc, OwnPc, DrainPc, Pools, None, NothingReclaimed, At,
      GoTo, tableVars, endVars, runtimeVars, poolVars, tableAndPools
<1>29. ASSUME NEW t \in Tasks, StopKeepalive(t) PROVE LocalsFollowControl'
  BY <1>29, <1>1, <1>2 DEF LocalsFollowControl, HandlePc, OwnPc, DrainPc, Pools, None, StopKeepalive, At,
      GoTo, endVars, runtimeVars, poolVars
<1>30. ASSUME NEW t \in Tasks, NEW k \in Base, BeginDrain(t, k) PROVE LocalsFollowControl'
  BY <1>30, <1>1, <1>2, ConnectionPoolsAssumption DEF LocalsFollowControl, HandlePc, OwnPc, DrainPc, Pools,
      None, BeginDrain, At, GoTo, endVars, runtimeVars, poolVars
<1>31. ASSUME RuntimeDies PROVE LocalsFollowControl'
  BY <1>31, <1>1, <1>2 DEF LocalsFollowControl, HandlePc, OwnPc, DrainPc, Pools, None, RuntimeDies,
      tableVars, endVars, poolVars, taskVars
<1>32. ASSUME NEW t \in Tasks, NEW k \in Keys, ReconnectForwarded(t, k) PROVE LocalsFollowControl'
  BY <1>32, <1>1, <1>2 DEF LocalsFollowControl, HandlePc, OwnPc, DrainPc, Pools, None,
      ReconnectForwarded, At, Calls, tableVars, endVars, runtimeVars, poolVars
<1>33. ASSUME NEW t \in Tasks, ReadKeys(t) PROVE LocalsFollowControl'
  BY <1>33, <1>1, <1>2 DEF LocalsFollowControl, HandlePc, OwnPc, DrainPc, Pools, None, ReadKeys,
      Routed, At, GoTo, tableVars, endVars, runtimeVars, poolVars
<1>34. ASSUME NEW t \in Tasks, StopKeepalives(t) PROVE LocalsFollowControl'
  BY <1>34, <1>1, <1>2 DEF LocalsFollowControl, HandlePc, OwnPc, DrainPc, Pools, None,
      StopKeepalives, At, GoTo, endVars, runtimeVars, poolVars
<1>35. ASSUME NEW t \in Tasks, RemoveAll(t) PROVE LocalsFollowControl'
  <2>1. Detaches
    BY <1>35, DetachActions
  <2>2. QED
    BY <2>1, <1>35, <1>1, <1>2 DEF LocalsFollowControl, HandlePc, OwnPc, DrainPc, Pools, None,
        RemoveAll, AfterList, At, GoTo, runtimeVars, poolVars, Detaches
<1>36. ASSUME NEW t \in Tasks, CloseNext(t) PROVE LocalsFollowControl'
  <2>1. PICK p \in Pools : pool' = [pool EXCEPT ![t] = p] /\ closing' = closing \cup {p} /\ detached' \subseteq Group
    BY <1>36, ClosesNext
  <2>2. QED
    BY <2>1, <1>36, <1>1, <1>2 DEF LocalsFollowControl, HandlePc, OwnPc, DrainPc, Pools, None,
        CloseNext, GoTo, tableVars, runtimeVars, poolVars
<1>37. QED
  BY <1>3, <1>4, <1>5, <1>6, <1>7, <1>8, <1>9, <1>10, <1>11, <1>12, <1>13, <1>14, <1>15, <1>16, <1>17,
      <1>18, <1>19, <1>20, <1>21, <1>22, <1>23, <1>24, <1>25, <1>26, <1>27, <1>28, <1>29, <1>30, <1>31,
      <1>32, <1>33, <1>34, <1>35, <1>36 DEF Next, Begins, Goes, Uses, Keepalives, Ends

\* A task's step keeps the numbering when it at most clears routes and
\* keepalives and takes a pool that was made.
LEMMA NumberedMove ==
  ASSUME TypeOK, Numbered, NEW t \in Tasks,
         made' \in Nat, made <= made', late' = late, pool'[t] <= made',
         \A u \in Tasks \ {t} : pc'[u] = pc[u] /\ pool'[u] = pool[u],
         \A k \in Keys : route'[k] \in {route[k], None} /\ keepalive'[k] \in {keepalive[k], None}
  PROVE  Numbered'
<1>1. /\ route \in [Keys -> Pools \cup {None}] /\ keepalive \in [Keys -> Pools \cup {None}]
      /\ late \subseteq [key : Keys, pool : Pools, replace : BOOLEAN] /\ made \in Nat
      /\ pc \in [Tasks -> TaskPc] /\ pool \in [Tasks -> Pools \cup {None}]
  BY DEF TypeOK
<1>2. \A k \in Keys : route'[k] <= made' /\ keepalive'[k] <= made'
  BY <1>1 DEF Numbered, Pools, None
<1>3. \A x \in late' : x.pool <= made'
  BY <1>1 DEF Numbered, Pools
<1>4. \A u \in Tasks : pc'[u] # "closeEach" => pool'[u] <= made'
  BY <1>1 DEF Numbered, Pools, None
<1>5. QED
  BY <1>2, <1>3, <1>4 DEF Numbered

\* Every step refers to pools that were made.
LEMMA NumberedPreserved == ASSUME IInv, Next PROVE Numbered'
<1>1. /\ route \in [Keys -> Pools \cup {None}] /\ keepalive \in [Keys -> Pools \cup {None}]
      /\ late \subseteq [key : Keys, pool : Pools, replace : BOOLEAN] /\ draining \subseteq Keys
      /\ runtime \in [Pools -> Runtimes \cup {None}] /\ made \in 0..MaxPools
      /\ pc \in [Tasks -> TaskPc] /\ key \in [Tasks -> Keys \cup {None}] /\ pool \in [Tasks -> Pools \cup {None}]
      /\ drain \in [Tasks -> Keys \cup {None}]
  BY DEF IInv, TypeOK
<1>2. Numbered /\ LocalsFollowControl
  BY DEF IInv
<1>3. ASSUME NEW t \in Tasks, NEW k \in Keys,
             Open(t, k)
      PROVE  Numbered'
  BY <1>3, <1>1, <1>2 DEF Numbered, LocalsFollowControl, HandlePc, OwnPc, Pools, None, Open, tableVars,
      endVars, runtimeVars, poolVars, At, GoTo, Calls
<1>4. ASSUME NEW t \in Tasks,
             WaitForDrain(t) \/ CheckMisses(t) \/ Recheck(t) \/ Reuse(t) \/ CreateFails(t) \/
                 CheckAttempt(t) \/ Discard(t) \/ InsertWait(t) \/ Verify(t) \/ SlotsExhausted(t) \/
                 NothingReclaimed(t) \/ TakeRefused(t) \/ Restore(t) \/ ReleaseDrain(t)
      PROVE  Numbered'
  BY <1>4, <1>1, <1>2 DEF Numbered, LocalsFollowControl, HandlePc, OwnPc, Pools, None, WaitForDrain,
      tableVars, endVars, runtimeVars, poolVars, tableAndPools, CheckMisses, Recheck, Reuse, CreateFails,
      CheckAttempt, Discard, InsertWait, Verify, SlotsExhausted, NothingReclaimed, TakeRefused, Restore,
      ReleaseDrain, At, GoTo, Calls
<1>5. ASSUME NEW p \in Pools,
             Close(p)
      PROVE  Numbered'
  BY <1>5, <1>1, <1>2 DEF Numbered, LocalsFollowControl, HandlePc, OwnPc, Pools, None, Close, tableVars,
      runtimeVars, poolVars, taskVars
<1>6. ASSUME NEW t \in Tasks, NEW k \in Keys, Use(t, k) PROVE Numbered'
  BY <1>6, <1>1, <1>2 DEF Numbered, LocalsFollowControl, HandlePc, OwnPc, Pools, None, Use, At, Calls,
      tableVars, endVars, runtimeVars, poolVars, GoTo
<1>7. ASSUME NEW t \in Tasks, NEW k \in Keys, NEW replace \in BOOLEAN,
             CallDetachByKey(t, k, replace)
      PROVE  Numbered'
  <2>1. Detaches
    BY <1>7, DetachActions
  <2>2. QED
    BY <2>1, <1>7, <1>1, <1>2 DEF Numbered, LocalsFollowControl, HandlePc, OwnPc, Pools, None,
        CallDetachByKey, At, Calls, runtimeVars, poolVars, Detaches, GoTo
<1>8. ASSUME NEW t \in Tasks, Disconnect(t) \/ CloseDatabasePool(t) PROVE Numbered'
  BY <1>8, <1>1, <1>2 DEF Numbered, LocalsFollowControl, HandlePc, OwnPc, Pools, None, Disconnect, At,
      Calls, Routed, endVars, runtimeVars, poolVars, CloseDatabasePool, tableVars, GoTo
<1>9. ASSUME NEW t \in Tasks,
             Probe(t) \/ ProbeOk(t) \/ CloseAwaited(t) \/ ReclaimCloses(t) \/ EndUse(t) \/ Dropped(t)
      PROVE  Numbered'
  BY <1>9, <1>1, <1>2 DEF Numbered, LocalsFollowControl, HandlePc, OwnPc, Pools, None, Probe, At, GoTo,
      tableVars, endVars, runtimeVars, poolVars, tableAndPools, ProbeOk, CloseAwaited, AfterInsert, ClosePc,
      Closed, ReclaimCloses, EndUse, Dropped, PoolsOf, AwaitedBy, Fault, AfterList, Calls
<1>10. ASSUME NEW t \in Tasks, ProbeFindsStale(t) PROVE Numbered'
  BY <1>10, <1>1, <1>2 DEF Numbered, LocalsFollowControl, HandlePc, OwnPc, Pools, None, ProbeFindsStale, At,
      GoTo, Fault, endVars, runtimeVars, poolVars, Calls
<1>11. ASSUME NEW t \in Tasks, RemoveStale(t) PROVE Numbered'
  BY <1>11, <1>1, <1>2 DEF Numbered, LocalsFollowControl, HandlePc, OwnPc, Pools, None, RemoveStale, At,
      GoTo, runtimeVars, poolVars, Calls
<1>12. ASSUME NEW t \in Tasks, NEW k \in Base, BeginDrain(t, k) PROVE Numbered'
  BY <1>12, <1>1, <1>2 DEF Numbered, LocalsFollowControl, HandlePc, OwnPc, Pools, None, BeginDrain, At,
      GoTo, endVars, runtimeVars, poolVars, Calls
<1>13. ASSUME NEW k \in Keys, NEW replace \in BOOLEAN, PingFails(k, replace) PROVE Numbered'
  BY <1>13, <1>1, <1>2 DEF Numbered, LocalsFollowControl, HandlePc, OwnPc, Pools, None, PingFails, Fault,
      endVars, runtimeVars, poolVars, taskVars
<1>14. ASSUME NEW l \in late, KeepaliveDetaches(l) PROVE Numbered'
  <2>1. Detaches
    BY <1>14, DetachActions
  <2>2. QED
    BY <2>1, <1>14, <1>1, <1>2 DEF Numbered, LocalsFollowControl, HandlePc, OwnPc, Pools, None,
        KeepaliveDetaches, Routed, runtimeVars, poolVars, taskVars, Detaches
<1>15. ASSUME NEW l \in late, KeepaliveAborted(l) PROVE Numbered'
  BY <1>15, <1>1, <1>2 DEF Numbered, LocalsFollowControl, HandlePc, OwnPc, Pools, None, KeepaliveAborted,
      endVars, runtimeVars, poolVars, taskVars
<1>16. ASSUME NEW p \in Pools, CloseReplaces(p) PROVE Numbered'
  <2>1. Detaches
    BY <1>16, DetachActions
  <2>2. QED
    BY <2>1, <1>16, <1>1, <1>2 DEF Numbered, LocalsFollowControl, HandlePc, OwnPc, Pools, None,
        CloseReplaces, Fault, poolVars, taskVars, Detaches
<1>17. ASSUME NEW t \in Tasks, NEW k \in Keys, Connect(t, k) PROVE Numbered'
  BY <1>17, <1>1, <1>2 DEF Numbered, LocalsFollowControl, HandlePc, OwnPc, Pools, None, Connect, At, Calls,
      Routed, endVars, runtimeVars, poolVars, tableVars, GoTo
<1>18. ASSUME NEW t \in Tasks, NEW k \in Keys, Remove(t, k) PROVE Numbered'
  BY <1>18, <1>1, <1>2 DEF Numbered, LocalsFollowControl, HandlePc, OwnPc, Pools, None, Remove, At, Calls,
      endVars, runtimeVars, poolVars, GoTo
<1>19. ASSUME NEW t \in Tasks, NEW k \in Keys, Reconnect(t, k) PROVE Numbered'
  BY <1>19, <1>1, <1>2 DEF Numbered, LocalsFollowControl, HandlePc, OwnPc, Pools, None, Reconnect, At,
      Calls, endVars, runtimeVars, poolVars, GoTo
<1>20. ASSUME NEW t \in Tasks, NEW k \in Keys, DropCleanupGuard(t, k) PROVE Numbered'
  BY <1>20, <1>1, <1>2 DEF Numbered, LocalsFollowControl, HandlePc, OwnPc, Pools, None, DropCleanupGuard,
      At, Calls, endVars, runtimeVars, poolVars, GoTo
<1>21. ASSUME NEW t \in Tasks, RemoveRoutes(t) PROVE Numbered'
  BY <1>21, <1>1, <1>2, ConnectionPoolsAssumption DEF Numbered, LocalsFollowControl, HandlePc, OwnPc, Pools,
      None, RemoveRoutes, At, GoTo, Routed, runtimeVars, poolVars, Calls
<1>22. ASSUME NEW t \in Tasks, CleanupDetaches(t) PROVE Numbered'
  <2>1. Detaches
    BY <1>22, DetachActions
  <2>2. QED
    BY <2>1, <1>22, <1>1, <1>2 DEF Numbered, LocalsFollowControl, HandlePc, OwnPc, Pools, None,
        CleanupDetaches, At, GoTo, runtimeVars, poolVars, Detaches, Calls
<1>23. ASSUME NEW t \in Tasks, CreateNative(t) PROVE Numbered'
  <2>1. /\ made' = made + 1 /\ pool' = [pool EXCEPT ![t] = made + 1] /\ pc' = [pc EXCEPT ![t] = "created"]
        /\ UNCHANGED <<route, keepalive, late>>
    BY <1>23 DEF CreateNative, GoTo, tableVars
  <2>2. /\ made' \in Nat /\ made <= made' /\ late' = late /\ pool'[t] <= made'
        /\ \A u \in Tasks \ {t} : pc'[u] = pc[u] /\ pool'[u] = pool[u]
        /\ \A k \in Keys : route'[k] \in {route[k], None} /\ keepalive'[k] \in {keepalive[k], None}
    BY <1>1, <2>1
  <2>3. QED
    BY <2>2, NumberedMove DEF IInv
<1>24. ASSUME NEW t \in Tasks, Create(t) PROVE Numbered'
  <2>1. /\ made' = made + 1 /\ pool' = [pool EXCEPT ![t] = made + 1] /\ pc' = [pc EXCEPT ![t] = "created"]
        /\ UNCHANGED <<route, keepalive, late>>
    BY <1>24 DEF Create, GoTo, tableVars
  <2>2. /\ made' \in Nat /\ made <= made' /\ late' = late /\ pool'[t] <= made'
        /\ \A u \in Tasks \ {t} : pc'[u] = pc[u] /\ pool'[u] = pool[u]
        /\ \A k \in Keys : route'[k] \in {route[k], None} /\ keepalive'[k] \in {keepalive[k], None}
    BY <1>1, <2>1
  <2>3. QED
    BY <2>2, NumberedMove DEF IInv
<1>25. ASSUME NEW t \in Tasks, CreateReplaces(t) PROVE Numbered'
  <2>1. Detaches
    BY <1>25, DetachActions
  <2>2. QED
    BY <2>1, <1>25, <1>1, <1>2 DEF Numbered, LocalsFollowControl, HandlePc, OwnPc, Pools, None,
        CreateReplaces, At, GoTo, Current, Fault, poolVars, Detaches, Calls
<1>26. ASSUME NEW t \in Tasks, Insert(t) PROVE Numbered'
  BY <1>26, <1>1, <1>2, ConnectionPoolsAssumption DEF Numbered, LocalsFollowControl, HandlePc, OwnPc, Pools,
      None, Insert, At, GoTo, Target, runtimeVars, poolVars, Calls
<1>27. ASSUME NEW t \in Tasks, InsertRejected(t) PROVE Numbered'
  <2>1. Detaches
    BY <1>27, DetachActions
  <2>2. made' = made /\ keepalive' = keepalive /\ late' = late /\ pool' = pool /\ pc' = [pc EXCEPT ![t] = "discard"]
    BY <1>27 DEF InsertRejected, GoTo, poolVars
  <2>3. pool[t] <= made
    BY <1>27, <1>1, <1>2 DEF InsertRejected, At, Numbered
  <2>4. \A k \in Keys : route'[k] \in {route[k], None}
    BY <2>1 DEF Detaches
  <2>5. /\ made' \in Nat /\ made <= made' /\ late' = late /\ pool'[t] <= made'
        /\ \A u \in Tasks \ {t} : pc'[u] = pc[u] /\ pool'[u] = pool[u]
        /\ \A k \in Keys : route'[k] \in {route[k], None} /\ keepalive'[k] \in {keepalive[k], None}
    BY <1>1, <2>2, <2>3, <2>4
  <2>6. QED
    BY <2>5, NumberedMove DEF IInv
<1>28. ASSUME NEW t \in Tasks, Unroute(t) PROVE Numbered'
  <2>1. Detaches
    BY <1>28, DetachActions
  <2>2. QED
    BY <2>1, <1>28, <1>1, <1>2 DEF Numbered, LocalsFollowControl, HandlePc, OwnPc, Pools, None, Unroute, At,
        GoTo, Target, AfterInsert, runtimeVars, poolVars, Detaches, Calls
<1>29. ASSUME NEW t \in Tasks, StopKeepalive(t) PROVE Numbered'
  BY <1>29, <1>1, <1>2, ConnectionPoolsAssumption DEF Numbered, LocalsFollowControl, HandlePc, OwnPc, Pools,
      None, StopKeepalive, At, GoTo, endVars, runtimeVars, poolVars, Calls
<1>30. ASSUME NEW t \in Tasks, Take(t) PROVE Numbered'
  BY <1>30, <1>1, <1>2, ConnectionPoolsAssumption DEF Numbered, LocalsFollowControl, HandlePc, OwnPc, Pools,
      None, Take, At, GoTo, InUse, endVars, runtimeVars, poolVars, Calls
<1>31. ASSUME NEW t \in Tasks, CloneForKeepalive(t) PROVE Numbered'
  BY <1>31, <1>1, <1>2, ConnectionPoolsAssumption DEF Numbered, LocalsFollowControl, HandlePc, OwnPc, Pools,
      None, CloneForKeepalive, At, GoTo, tableVars, endVars, runtimeVars, poolVars, tableAndPools, Calls
<1>32. ASSUME NEW t \in Tasks, RestartKeepalive(t) PROVE Numbered'
  BY <1>32, <1>1, <1>2, ConnectionPoolsAssumption DEF Numbered, LocalsFollowControl, HandlePc, OwnPc, Pools,
      None, RestartKeepalive, At, GoTo, endVars, runtimeVars, poolVars, Calls
<1>33. ASSUME NEW t \in Tasks, ReclaimReplaces(t) PROVE Numbered'
  <2>1. Detaches
    BY <1>33, DetachActions
  <2>2. /\ made' = made /\ keepalive' = keepalive /\ late' = late /\ pool' = [pool EXCEPT ![t] = None]
        /\ pc' = [pc EXCEPT ![t] = "released"]
    BY <1>33 DEF ReclaimReplaces, GoTo, poolVars
  <2>3. \A k \in Keys : route'[k] \in {route[k], None}
    BY <2>1 DEF Detaches
  <2>4. /\ made' \in Nat /\ made <= made' /\ late' = late /\ pool'[t] <= made'
        /\ \A u \in Tasks \ {t} : pc'[u] = pc[u] /\ pool'[u] = pool[u]
        /\ \A k \in Keys : route'[k] \in {route[k], None} /\ keepalive'[k] \in {keepalive[k], None}
    BY <1>1, <2>2, <2>3 DEF None
  <2>5. QED
    BY <2>4, NumberedMove DEF IInv
<1>34. ASSUME NEW t \in Tasks, RestoreWithoutConfig(t) PROVE Numbered'
  BY <1>34, <1>1, <1>2, ConnectionPoolsAssumption DEF Numbered, LocalsFollowControl, HandlePc, OwnPc, Pools,
      None, RestoreWithoutConfig, At, GoTo, runtimeVars, poolVars, Calls
<1>35. ASSUME NEW t \in Tasks, NEW replace \in BOOLEAN, ProbeFails(t, replace) PROVE Numbered'
  <2>1. Detaches
    BY <1>35, DetachActions
  <2>2. QED
    BY <2>1, <1>35, <1>1, <1>2 DEF Numbered, LocalsFollowControl, HandlePc, OwnPc, Pools, None, ProbeFails,
        At, GoTo, Fault, poolVars, Detaches, Calls
<1>36. ASSUME NEW t \in Tasks, NEW replace \in BOOLEAN, UseFails(t, replace) PROVE Numbered'
  <2>1. Detaches
    BY <1>36, DetachActions
  <2>2. QED
    BY <2>1, <1>36, <1>1, <1>2 DEF Numbered, LocalsFollowControl, HandlePc, OwnPc, Pools, None, UseFails,
        At, GoTo, Routed, Fault, runtimeVars, poolVars, Detaches, Calls
<1>37. ASSUME NEW g \in detached, FinishDetach(g) PROVE Numbered'
  BY <1>37, <1>1, <1>2 DEF Numbered, LocalsFollowControl, HandlePc, OwnPc, Pools, None, FinishDetach,
      PoolsOf, KeysOf, runtimeVars, poolVars, taskVars
<1>38. ASSUME NEW g \in detached, FinishDetachAborted(g) PROVE Numbered'
  BY <1>38, <1>1, <1>2 DEF Numbered, LocalsFollowControl, HandlePc, OwnPc, Pools, None, FinishDetachAborted,
      PoolsOf, KeysOf, runtimeVars, poolVars, taskVars
<1>39. ASSUME RuntimeDies PROVE Numbered'
  BY <1>39, <1>1, <1>2 DEF Numbered, LocalsFollowControl, HandlePc, OwnPc, Pools, None, RuntimeDies,
      tableVars, endVars, poolVars, taskVars
<1>40. ASSUME NEW t \in Tasks, NEW k \in Keys, ReconnectForwarded(t, k) PROVE Numbered'
  BY <1>40, <1>1, <1>2 DEF Numbered, ReconnectForwarded, At, Calls, tableVars, endVars, runtimeVars,
      poolVars
<1>41. ASSUME NEW t \in Tasks, ReadKeys(t) PROVE Numbered'
  BY <1>41, <1>1, <1>2 DEF Numbered, ReadKeys, Routed, At, GoTo, tableVars, endVars, runtimeVars,
      poolVars
<1>42. ASSUME NEW t \in Tasks, StopKeepalives(t) PROVE Numbered'
  <2>1. PICK l \in {"remove", "reconnect", "removeAll"} : pc' = [pc EXCEPT ![t] = l]
    BY <1>42 DEF StopKeepalives, GoTo
  <2>2. made' = made /\ route' = route /\ late' = late /\ pool' = pool
    BY <1>42 DEF StopKeepalives, poolVars
  <2>3. \A k \in Keys : keepalive'[k] \in {keepalive[k], None}
    BY <1>42 DEF StopKeepalives
  <2>4. pool[t] <= made
    BY <1>42, <1>1, <1>2 DEF StopKeepalives, At, Numbered
  <2>5. /\ made' \in Nat /\ made <= made' /\ late' = late /\ pool'[t] <= made'
        /\ \A u \in Tasks \ {t} : pc'[u] = pc[u] /\ pool'[u] = pool[u]
        /\ \A k \in Keys : route'[k] \in {route[k], None} /\ keepalive'[k] \in {keepalive[k], None}
    BY <1>1, <2>1, <2>2, <2>3, <2>4
  <2>6. QED
    BY <2>5, NumberedMove DEF IInv
<1>43. ASSUME NEW t \in Tasks, RemoveAll(t) PROVE Numbered'
  <2>1. Detaches
    BY <1>43, DetachActions
  <2>2. PICK l \in {"idle", "wait", "closeAll"} : pc' = [pc EXCEPT ![t] = l]
    BY <1>43 DEF RemoveAll, AfterList, GoTo
  <2>3. made' = made /\ keepalive' = keepalive /\ late' = late /\ pool' = pool
    BY <1>43 DEF RemoveAll, poolVars
  <2>4. pool[t] <= made
    BY <1>43, <1>1, <1>2 DEF RemoveAll, At, Numbered
  <2>5. \A k \in Keys : route'[k] \in {route[k], None}
    BY <2>1 DEF Detaches
  <2>6. /\ made' \in Nat /\ made <= made' /\ late' = late /\ pool'[t] <= made'
        /\ \A u \in Tasks \ {t} : pc'[u] = pc[u] /\ pool'[u] = pool[u]
        /\ \A k \in Keys : route'[k] \in {route[k], None} /\ keepalive'[k] \in {keepalive[k], None}
    BY <1>1, <2>2, <2>3, <2>4, <2>5
  <2>7. QED
    BY <2>6, NumberedMove DEF IInv
<1>44. ASSUME NEW t \in Tasks, CloseNext(t) PROVE Numbered'
  <2>1. PICK p \in Pools : pool' = [pool EXCEPT ![t] = p] /\ closing' = closing \cup {p} /\ detached' \subseteq Group
    BY <1>44, ClosesNext
  <2>2. QED
    BY <2>1, <1>44, <1>1, <1>2 DEF Numbered, CloseNext, GoTo, tableVars, runtimeVars, poolVars
<1>45. QED
  BY <1>3, <1>4, <1>5, <1>6, <1>7, <1>8, <1>9, <1>10, <1>11, <1>12, <1>13, <1>14, <1>15, <1>16, <1>17,
      <1>18, <1>19, <1>20, <1>21, <1>22, <1>23, <1>24, <1>25, <1>26, <1>27, <1>28, <1>29, <1>30, <1>31,
      <1>32, <1>33, <1>34, <1>35, <1>36, <1>37, <1>38, <1>39, <1>40, <1>41, <1>42, <1>43, <1>44 DEF
      Next, Begins, Goes, Uses, Keepalives, Ends

\* A pool under an Agent key keeps its runtime, wherever it goes.
LEMMA RuntimesPreserved == ASSUME IInv, Next PROVE AgentPoolHasRuntime'
<1>1. /\ route \in [Keys -> Pools \cup {None}] /\ keepalive \in [Keys -> Pools \cup {None}]
      /\ late \subseteq [key : Keys, pool : Pools, replace : BOOLEAN] /\ draining \subseteq Keys
      /\ runtime \in [Pools -> Runtimes \cup {None}] /\ made \in 0..MaxPools
      /\ pc \in [Tasks -> TaskPc] /\ key \in [Tasks -> Keys \cup {None}] /\ pool \in [Tasks -> Pools \cup {None}]
      /\ drain \in [Tasks -> Keys \cup {None}]
  BY DEF IInv, TypeOK
<1>2. AgentPoolHasRuntime /\ LocalsFollowControl /\ Numbered
  BY DEF IInv
<1>3. NativeKeys \subseteq Keys /\ Base \subseteq Keys \ NativeKeys /\ None \notin Keys
  BY ConnectionPoolsAssumption DEF None
<1>4. ASSUME NEW p \in Pools,
             Close(p)
      PROVE  AgentPoolHasRuntime'
  BY <1>4, <1>1, <1>2, <1>3 DEF AgentPoolHasRuntime, LocalsFollowControl, Numbered, Target, HandlePc, OwnPc,
      DrainPc, Pools, Runtimes, None, Close, tableVars, runtimeVars, poolVars, taskVars
<1>5. ASSUME NEW t \in Tasks, NEW k \in Keys, Open(t, k) PROVE AgentPoolHasRuntime'
  BY <1>5, <1>1, <1>2, <1>3 DEF AgentPoolHasRuntime, LocalsFollowControl, Numbered, Target, HandlePc, OwnPc,
      DrainPc, Pools, Runtimes, None, Open, At, Calls, tableVars, endVars, runtimeVars, poolVars
<1>6. ASSUME NEW t \in Tasks, NEW k \in Keys, Use(t, k) PROVE AgentPoolHasRuntime'
  BY <1>6, <1>1, <1>2, <1>3 DEF AgentPoolHasRuntime, LocalsFollowControl, Numbered, Target, HandlePc, OwnPc,
      DrainPc, Pools, Runtimes, None, Use, At, Calls, tableVars, endVars, runtimeVars, poolVars
<1>7. ASSUME NEW t \in Tasks, NEW k \in Keys, NEW replace \in BOOLEAN,
             CallDetachByKey(t, k, replace)
      PROVE  AgentPoolHasRuntime'
  <2>1. Detaches
    BY <1>7, DetachActions
  <2>2. QED
    BY <2>1, <1>7, <1>1, <1>2, <1>3 DEF AgentPoolHasRuntime, LocalsFollowControl, Numbered, Target,
        HandlePc, OwnPc, DrainPc, Pools, Runtimes, None, CallDetachByKey, At, Calls, runtimeVars, poolVars,
        Detaches
<1>8. ASSUME NEW t \in Tasks, ProbeFindsStale(t) PROVE AgentPoolHasRuntime'
  BY <1>8, <1>1, <1>2, <1>3 DEF AgentPoolHasRuntime, LocalsFollowControl, Numbered, Target, HandlePc, OwnPc,
      DrainPc, Pools, Runtimes, None, ProbeFindsStale, At, GoTo, Fault, endVars, runtimeVars, poolVars
<1>9. ASSUME NEW t \in Tasks, ReclaimReplaces(t) PROVE AgentPoolHasRuntime'
  <2>1. Detaches
    BY <1>9, DetachActions
  <2>2. QED
    BY <2>1, <1>9, <1>1, <1>2, <1>3 DEF AgentPoolHasRuntime, LocalsFollowControl, Numbered, Target,
        HandlePc, OwnPc, DrainPc, Pools, Runtimes, None, ReclaimReplaces, At, GoTo, Fault, poolVars,
        Detaches
<1>10. ASSUME NEW t \in Tasks, Restore(t) PROVE AgentPoolHasRuntime'
  BY <1>10, <1>1, <1>2, <1>3 DEF AgentPoolHasRuntime, LocalsFollowControl, Numbered, Target, HandlePc,
      OwnPc, DrainPc, Pools, Runtimes, None, Restore, At, GoTo, tableVars, endVars, runtimeVars, poolVars,
      tableAndPools
<1>11. ASSUME NEW t \in Tasks, Dropped(t) PROVE AgentPoolHasRuntime'
  BY <1>11, <1>1, <1>2, <1>3 DEF AgentPoolHasRuntime, LocalsFollowControl, Numbered, Target, HandlePc,
      OwnPc, DrainPc, Pools, Runtimes, None, Dropped, GoTo, PoolsOf, AwaitedBy, ClosePc, Fault, runtimeVars,
      poolVars
<1>12. ASSUME NEW k \in Keys, NEW replace \in BOOLEAN, PingFails(k, replace) PROVE AgentPoolHasRuntime'
  BY <1>12, <1>1, <1>2, <1>3 DEF AgentPoolHasRuntime, LocalsFollowControl, Numbered, Target, HandlePc,
      OwnPc, DrainPc, Pools, Runtimes, None, PingFails, Fault, endVars, runtimeVars, poolVars, taskVars
<1>13. ASSUME NEW l \in late, KeepaliveDetaches(l) PROVE AgentPoolHasRuntime'
  <2>1. Detaches
    BY <1>13, DetachActions
  <2>2. QED
    BY <2>1, <1>13, <1>1, <1>2, <1>3 DEF AgentPoolHasRuntime, LocalsFollowControl, Numbered, Target,
        HandlePc, OwnPc, DrainPc, Pools, Runtimes, None, KeepaliveDetaches, Routed, runtimeVars, poolVars,
        taskVars, Detaches
<1>14. ASSUME NEW l \in late, KeepaliveAborted(l) PROVE AgentPoolHasRuntime'
  BY <1>14, <1>1, <1>2, <1>3 DEF AgentPoolHasRuntime, LocalsFollowControl, Numbered, Target, HandlePc,
      OwnPc, DrainPc, Pools, Runtimes, None, KeepaliveAborted, endVars, runtimeVars, poolVars, taskVars
<1>15. ASSUME NEW g \in detached, FinishDetach(g) \/ FinishDetachAborted(g) PROVE AgentPoolHasRuntime'
  BY <1>15, <1>1, <1>2, <1>3 DEF AgentPoolHasRuntime, LocalsFollowControl, Numbered, Target, HandlePc,
      OwnPc, DrainPc, Pools, Runtimes, None, FinishDetach, PoolsOf, KeysOf, runtimeVars, poolVars, taskVars,
      FinishDetachAborted
<1>16. ASSUME NEW p \in Pools, CloseReplaces(p) PROVE AgentPoolHasRuntime'
  <2>1. Detaches
    BY <1>16, DetachActions
  <2>2. QED
    BY <2>1, <1>16, <1>1, <1>2, <1>3 DEF AgentPoolHasRuntime, LocalsFollowControl, Numbered, Target,
        HandlePc, OwnPc, DrainPc, Pools, Runtimes, None, CloseReplaces, Fault, poolVars, taskVars, Detaches
<1>17. ASSUME NEW t \in Tasks, NEW k \in Keys, Connect(t, k) PROVE AgentPoolHasRuntime'
  BY <1>17, <1>1, <1>2, <1>3 DEF AgentPoolHasRuntime, LocalsFollowControl, Numbered, Target, HandlePc,
      OwnPc, DrainPc, Pools, Runtimes, None, Connect, At, Calls, Routed, endVars, runtimeVars, poolVars, tableVars
<1>18. ASSUME NEW t \in Tasks, NEW k \in Keys, Remove(t, k) PROVE AgentPoolHasRuntime'
  BY <1>18, <1>1, <1>2, <1>3 DEF AgentPoolHasRuntime, LocalsFollowControl, Numbered, Target, HandlePc,
      OwnPc, DrainPc, Pools, Runtimes, None, Remove, At, Calls, endVars, runtimeVars, poolVars
<1>19. ASSUME NEW t \in Tasks, NEW k \in Keys, Reconnect(t, k) PROVE AgentPoolHasRuntime'
  BY <1>19, <1>1, <1>2, <1>3 DEF AgentPoolHasRuntime, LocalsFollowControl, Numbered, Target, HandlePc,
      OwnPc, DrainPc, Pools, Runtimes, None, Reconnect, At, Calls, endVars, runtimeVars, poolVars
<1>20. ASSUME NEW t \in Tasks, NEW k \in Keys, DropCleanupGuard(t, k) PROVE AgentPoolHasRuntime'
  BY <1>20, <1>1, <1>2, <1>3 DEF AgentPoolHasRuntime, LocalsFollowControl, Numbered, Target, HandlePc,
      OwnPc, DrainPc, Pools, Runtimes, None, DropCleanupGuard, At, Calls, endVars, runtimeVars, poolVars
<1>21. ASSUME NEW t \in Tasks, Disconnect(t) PROVE AgentPoolHasRuntime'
  BY <1>21, <1>1, <1>2, <1>3 DEF AgentPoolHasRuntime, LocalsFollowControl, Numbered, Target, HandlePc,
      OwnPc, DrainPc, Pools, Runtimes, None, Disconnect, At, Calls, Routed, endVars, runtimeVars, poolVars, tableVars
<1>22. ASSUME NEW t \in Tasks, CloseDatabasePool(t) PROVE AgentPoolHasRuntime'
  BY <1>22, <1>1, <1>2, <1>3 DEF AgentPoolHasRuntime, LocalsFollowControl, Numbered, Target, HandlePc,
      OwnPc, DrainPc, Pools, Runtimes, None, CloseDatabasePool, At, Calls, Routed, endVars, runtimeVars,
      poolVars, tableVars
<1>23. ASSUME NEW t \in Tasks, RemoveRoutes(t) PROVE AgentPoolHasRuntime'
  BY <1>23, <1>1, <1>2, <1>3 DEF AgentPoolHasRuntime, LocalsFollowControl, Numbered, Target, HandlePc,
      OwnPc, DrainPc, Pools, Runtimes, None, RemoveRoutes, At, GoTo, Routed, runtimeVars, poolVars
<1>24. ASSUME NEW t \in Tasks, CleanupDetaches(t) PROVE AgentPoolHasRuntime'
  <2>1. Detaches
    BY <1>24, DetachActions
  <2>2. QED
    BY <2>1, <1>24, <1>1, <1>2, <1>3 DEF AgentPoolHasRuntime, LocalsFollowControl, Numbered, Target,
        HandlePc, OwnPc, DrainPc, Pools, Runtimes, None, CleanupDetaches, At, GoTo, runtimeVars, poolVars,
        Detaches
<1>25. ASSUME NEW t \in Tasks, WaitForDrain(t) PROVE AgentPoolHasRuntime'
  BY <1>25, <1>1, <1>2, <1>3 DEF AgentPoolHasRuntime, LocalsFollowControl, Numbered, Target, HandlePc,
      OwnPc, DrainPc, Pools, Runtimes, None, WaitForDrain, At, GoTo, tableVars, endVars, runtimeVars,
      poolVars, tableAndPools
<1>26. ASSUME NEW t \in Tasks, CheckMisses(t) PROVE AgentPoolHasRuntime'
  BY <1>26, <1>1, <1>2, <1>3 DEF AgentPoolHasRuntime, LocalsFollowControl, Numbered, Target, HandlePc,
      OwnPc, DrainPc, Pools, Runtimes, None, CheckMisses, At, GoTo, tableVars, endVars, runtimeVars,
      poolVars, tableAndPools
<1>27. ASSUME NEW t \in Tasks, Recheck(t) PROVE AgentPoolHasRuntime'
  BY <1>27, <1>1, <1>2, <1>3 DEF AgentPoolHasRuntime, LocalsFollowControl, Numbered, Target, HandlePc,
      OwnPc, DrainPc, Pools, Runtimes, None, Recheck, At, GoTo, tableVars, endVars, runtimeVars, poolVars,
      tableAndPools
<1>28. ASSUME NEW t \in Tasks, Reuse(t) PROVE AgentPoolHasRuntime'
  BY <1>28, <1>1, <1>2, <1>3 DEF AgentPoolHasRuntime, LocalsFollowControl, Numbered, Target, HandlePc,
      OwnPc, DrainPc, Pools, Runtimes, None, Reuse, At, GoTo, tableVars, endVars, runtimeVars, poolVars,
      tableAndPools
<1>29. ASSUME NEW t \in Tasks, Probe(t) PROVE AgentPoolHasRuntime'
  BY <1>29, <1>1, <1>2, <1>3 DEF AgentPoolHasRuntime, LocalsFollowControl, Numbered, Target, HandlePc,
      OwnPc, DrainPc, Pools, Runtimes, None, Probe, At, GoTo, tableVars, endVars, runtimeVars, poolVars,
      tableAndPools
<1>30. ASSUME NEW t \in Tasks, ProbeOk(t) PROVE AgentPoolHasRuntime'
  BY <1>30, <1>1, <1>2, <1>3 DEF AgentPoolHasRuntime, LocalsFollowControl, Numbered, Target, HandlePc,
      OwnPc, DrainPc, Pools, Runtimes, None, ProbeOk, At, GoTo, tableVars, endVars, runtimeVars, poolVars,
      tableAndPools
<1>31. ASSUME NEW t \in Tasks, RemoveStale(t) PROVE AgentPoolHasRuntime'
  BY <1>31, <1>1, <1>2, <1>3 DEF AgentPoolHasRuntime, LocalsFollowControl, Numbered, Target, HandlePc,
      OwnPc, DrainPc, Pools, Runtimes, None, RemoveStale, At, GoTo, runtimeVars, poolVars
<1>32. ASSUME NEW t \in Tasks, CreateNative(t) PROVE AgentPoolHasRuntime'
  BY <1>32, <1>1, <1>2, <1>3 DEF AgentPoolHasRuntime, LocalsFollowControl, Numbered, Target, HandlePc,
      OwnPc, DrainPc, Pools, Runtimes, None, CreateNative, At, GoTo, Current, tableVars, endVars,
      runtimeVars
<1>33. ASSUME NEW t \in Tasks, Create(t) PROVE AgentPoolHasRuntime'
  BY <1>33, <1>1, <1>2, <1>3, ConnectionPoolsAssumption DEF AgentPoolHasRuntime, LocalsFollowControl,
      Numbered, Target, HandlePc, OwnPc, DrainPc, Pools, Runtimes, None, Create, At, GoTo, Current, Takes,
      tableVars, endVars
<1>34. ASSUME NEW t \in Tasks, CreateFails(t) PROVE AgentPoolHasRuntime'
  BY <1>34, <1>1, <1>2, <1>3 DEF AgentPoolHasRuntime, LocalsFollowControl, Numbered, Target, HandlePc,
      OwnPc, DrainPc, Pools, Runtimes, None, CreateFails, At, GoTo, tableVars, endVars, runtimeVars,
      poolVars, tableAndPools
<1>35. ASSUME NEW t \in Tasks, CreateReplaces(t) PROVE AgentPoolHasRuntime'
  <2>1. Detaches
    BY <1>35, DetachActions
  <2>2. QED
    BY <2>1, <1>35, <1>1, <1>2, <1>3 DEF AgentPoolHasRuntime, LocalsFollowControl, Numbered, Target,
        HandlePc, OwnPc, DrainPc, Pools, Runtimes, None, CreateReplaces, At, GoTo, Current, Fault, poolVars,
        Detaches
<1>36. ASSUME NEW t \in Tasks, CheckAttempt(t) PROVE AgentPoolHasRuntime'
  BY <1>36, <1>1, <1>2, <1>3 DEF AgentPoolHasRuntime, LocalsFollowControl, Numbered, Target, HandlePc,
      OwnPc, DrainPc, Pools, Runtimes, None, CheckAttempt, At, GoTo, Current, tableVars, endVars,
      runtimeVars, poolVars, tableAndPools
<1>37. ASSUME NEW t \in Tasks, Discard(t) PROVE AgentPoolHasRuntime'
  BY <1>37, <1>1, <1>2, <1>3 DEF AgentPoolHasRuntime, LocalsFollowControl, Numbered, Target, HandlePc,
      OwnPc, DrainPc, Pools, Runtimes, None, Discard, At, GoTo, tableVars, runtimeVars, poolVars
<1>38. ASSUME NEW t \in Tasks, InsertWait(t) PROVE AgentPoolHasRuntime'
  BY <1>38, <1>1, <1>2, <1>3 DEF AgentPoolHasRuntime, LocalsFollowControl, Numbered, Target, HandlePc,
      OwnPc, DrainPc, Pools, Runtimes, None, InsertWait, At, GoTo, tableVars, endVars, runtimeVars,
      poolVars, tableAndPools
<1>39. ASSUME NEW t \in Tasks, Insert(t) PROVE AgentPoolHasRuntime'
  BY <1>39, <1>1, <1>2, <1>3 DEF AgentPoolHasRuntime, LocalsFollowControl, Numbered, Target, HandlePc,
      OwnPc, DrainPc, Pools, Runtimes, None, Insert, At, GoTo, runtimeVars, poolVars
<1>40. ASSUME NEW t \in Tasks, InsertRejected(t) PROVE AgentPoolHasRuntime'
  <2>1. Detaches
    BY <1>40, DetachActions
  <2>2. QED
    BY <2>1, <1>40, <1>1, <1>2, <1>3 DEF AgentPoolHasRuntime, LocalsFollowControl, Numbered, Target,
        HandlePc, OwnPc, DrainPc, Pools, Runtimes, None, InsertRejected, At, GoTo, poolVars, Detaches
<1>41. ASSUME NEW t \in Tasks, CloseAwaited(t) PROVE AgentPoolHasRuntime'
  BY <1>41, <1>1, <1>2, <1>3 DEF AgentPoolHasRuntime, LocalsFollowControl, Numbered, Target, HandlePc,
      OwnPc, DrainPc, Pools, Runtimes, None, CloseAwaited, GoTo, AfterInsert, ClosePc, Closed, tableVars,
      endVars, runtimeVars, poolVars, tableAndPools, AfterList
<1>42. ASSUME NEW t \in Tasks, Verify(t) PROVE AgentPoolHasRuntime'
  BY <1>42, <1>1, <1>2, <1>3 DEF AgentPoolHasRuntime, LocalsFollowControl, Numbered, Target, HandlePc,
      OwnPc, DrainPc, Pools, Runtimes, None, Verify, At, GoTo, AfterInsert, tableVars, endVars, runtimeVars,
      poolVars, tableAndPools
<1>43. ASSUME NEW t \in Tasks, Unroute(t) PROVE AgentPoolHasRuntime'
  <2>1. Detaches
    BY <1>43, DetachActions
  <2>2. QED
    BY <2>1, <1>43, <1>1, <1>2, <1>3 DEF AgentPoolHasRuntime, LocalsFollowControl, Numbered, Target,
        HandlePc, OwnPc, DrainPc, Pools, Runtimes, None, Unroute, At, GoTo, AfterInsert, runtimeVars,
        poolVars, Detaches
<1>44. ASSUME NEW t \in Tasks, SlotsExhausted(t) PROVE AgentPoolHasRuntime'
  BY <1>44, <1>1, <1>2, <1>3 DEF AgentPoolHasRuntime, LocalsFollowControl, Numbered, Target, HandlePc,
      OwnPc, DrainPc, Pools, Runtimes, None, SlotsExhausted, At, GoTo, Routed, Current, tableVars, endVars,
      runtimeVars, poolVars, tableAndPools
<1>45. ASSUME NEW t \in Tasks, NothingReclaimed(t) PROVE AgentPoolHasRuntime'
  BY <1>45, <1>1, <1>2, <1>3 DEF AgentPoolHasRuntime, LocalsFollowControl, Numbered, Target, HandlePc,
      OwnPc, DrainPc, Pools, Runtimes, None, NothingReclaimed, At, GoTo, tableVars, endVars, runtimeVars,
      poolVars, tableAndPools
<1>46. ASSUME NEW t \in Tasks, StopKeepalive(t) PROVE AgentPoolHasRuntime'
  BY <1>46, <1>1, <1>2, <1>3 DEF AgentPoolHasRuntime, LocalsFollowControl, Numbered, Target, HandlePc,
      OwnPc, DrainPc, Pools, Runtimes, None, StopKeepalive, At, GoTo, endVars, runtimeVars, poolVars
<1>47. ASSUME NEW t \in Tasks, Take(t) PROVE AgentPoolHasRuntime'
  BY <1>47, <1>1, <1>2, <1>3 DEF AgentPoolHasRuntime, LocalsFollowControl, Numbered, Target, HandlePc,
      OwnPc, DrainPc, Pools, Runtimes, None, Take, At, GoTo, InUse, endVars, runtimeVars, poolVars
<1>48. ASSUME NEW t \in Tasks, TakeRefused(t) PROVE AgentPoolHasRuntime'
  BY <1>48, <1>1, <1>2, <1>3 DEF AgentPoolHasRuntime, LocalsFollowControl, Numbered, Target, HandlePc,
      OwnPc, DrainPc, Pools, Runtimes, None, TakeRefused, At, GoTo, tableVars, endVars, runtimeVars,
      poolVars, tableAndPools
<1>49. ASSUME NEW t \in Tasks, CloneForKeepalive(t) PROVE AgentPoolHasRuntime'
  BY <1>49, <1>1, <1>2, <1>3 DEF AgentPoolHasRuntime, LocalsFollowControl, Numbered, Target, HandlePc,
      OwnPc, DrainPc, Pools, Runtimes, None, CloneForKeepalive, At, GoTo, tableVars, endVars, runtimeVars,
      poolVars, tableAndPools
<1>50. ASSUME NEW t \in Tasks, RestartKeepalive(t) PROVE AgentPoolHasRuntime'
  BY <1>50, <1>1, <1>2, <1>3 DEF AgentPoolHasRuntime, LocalsFollowControl, Numbered, Target, HandlePc,
      OwnPc, DrainPc, Pools, Runtimes, None, RestartKeepalive, At, GoTo, endVars, runtimeVars, poolVars
<1>51. ASSUME NEW t \in Tasks, ReclaimCloses(t) PROVE AgentPoolHasRuntime'
  BY <1>51, <1>1, <1>2, <1>3 DEF AgentPoolHasRuntime, LocalsFollowControl, Numbered, Target, HandlePc,
      OwnPc, DrainPc, Pools, Runtimes, None, ReclaimCloses, At, GoTo, tableVars, runtimeVars, poolVars
<1>52. ASSUME NEW t \in Tasks, RestoreWithoutConfig(t) PROVE AgentPoolHasRuntime'
  BY <1>52, <1>1, <1>2, <1>3 DEF AgentPoolHasRuntime, LocalsFollowControl, Numbered, Target, HandlePc,
      OwnPc, DrainPc, Pools, Runtimes, None, RestoreWithoutConfig, At, GoTo, runtimeVars, poolVars
<1>53. ASSUME NEW t \in Tasks, ReleaseDrain(t) PROVE AgentPoolHasRuntime'
  BY <1>53, <1>1, <1>2, <1>3 DEF AgentPoolHasRuntime, LocalsFollowControl, Numbered, Target, HandlePc,
      OwnPc, DrainPc, Pools, Runtimes, None, ReleaseDrain, At, GoTo, endVars, runtimeVars, poolVars
<1>54. ASSUME NEW t \in Tasks, EndUse(t) PROVE AgentPoolHasRuntime'
  BY <1>54, <1>1, <1>2, <1>3 DEF AgentPoolHasRuntime, LocalsFollowControl, Numbered, Target, HandlePc,
      OwnPc, DrainPc, Pools, Runtimes, None, EndUse, At, GoTo, tableVars, endVars, runtimeVars, poolVars
<1>55. ASSUME NEW t \in Tasks, NEW k \in Base, BeginDrain(t, k) PROVE AgentPoolHasRuntime'
  BY <1>55, <1>1, <1>2, <1>3 DEF AgentPoolHasRuntime, LocalsFollowControl, Numbered, Target, HandlePc,
      OwnPc, DrainPc, Pools, Runtimes, None, BeginDrain, At, GoTo, endVars, runtimeVars, poolVars
<1>56. ASSUME NEW t \in Tasks, NEW replace \in BOOLEAN, ProbeFails(t, replace) PROVE AgentPoolHasRuntime'
  <2>1. Detaches
    BY <1>56, DetachActions
  <2>2. QED
    BY <2>1, <1>56, <1>1, <1>2, <1>3 DEF AgentPoolHasRuntime, LocalsFollowControl, Numbered, Target,
        HandlePc, OwnPc, DrainPc, Pools, Runtimes, None, ProbeFails, At, GoTo, Fault, poolVars, Detaches
<1>57. ASSUME NEW t \in Tasks, NEW replace \in BOOLEAN, UseFails(t, replace) PROVE AgentPoolHasRuntime'
  <2>1. Detaches
    BY <1>57, DetachActions
  <2>2. QED
    BY <2>1, <1>57, <1>1, <1>2, <1>3 DEF AgentPoolHasRuntime, LocalsFollowControl, Numbered, Target,
        HandlePc, OwnPc, DrainPc, Pools, Runtimes, None, UseFails, At, GoTo, Routed, Fault, runtimeVars,
        poolVars, Detaches
<1>58. ASSUME RuntimeDies PROVE AgentPoolHasRuntime'
  BY <1>58, <1>1, <1>2, <1>3 DEF AgentPoolHasRuntime, LocalsFollowControl, Numbered, Target, HandlePc,
      OwnPc, DrainPc, Pools, Runtimes, None, RuntimeDies, tableVars, endVars, poolVars, taskVars
<1>59. ASSUME NEW t \in Tasks, NEW k \in Keys, ReconnectForwarded(t, k) PROVE AgentPoolHasRuntime'
  BY <1>59, <1>1, <1>2, <1>3 DEF AgentPoolHasRuntime, LocalsFollowControl, Numbered, Target, HandlePc,
      OwnPc, DrainPc, Pools, Runtimes, None, ReconnectForwarded, At, Calls, tableVars, endVars,
      runtimeVars, poolVars
<1>60. ASSUME NEW t \in Tasks, ReadKeys(t) PROVE AgentPoolHasRuntime'
  BY <1>60, <1>1, <1>2, <1>3 DEF AgentPoolHasRuntime, LocalsFollowControl, Numbered, Target, HandlePc,
      OwnPc, DrainPc, Pools, Runtimes, None, ReadKeys, Routed, At, GoTo, tableVars, endVars,
      runtimeVars, poolVars
<1>61. ASSUME NEW t \in Tasks, StopKeepalives(t) PROVE AgentPoolHasRuntime'
  BY <1>61, <1>1, <1>2, <1>3 DEF AgentPoolHasRuntime, LocalsFollowControl, Numbered, Target, HandlePc,
      OwnPc, DrainPc, Pools, Runtimes, None, StopKeepalives, At, GoTo, endVars, runtimeVars, poolVars
<1>62. ASSUME NEW t \in Tasks, RemoveAll(t) PROVE AgentPoolHasRuntime'
  <2>1. Detaches
    BY <1>62, DetachActions
  <2>2. QED
    BY <2>1, <1>62, <1>1, <1>2, <1>3 DEF AgentPoolHasRuntime, LocalsFollowControl, Numbered, Target,
        HandlePc, OwnPc, DrainPc, Pools, Runtimes, None, RemoveAll, AfterList, At, GoTo, runtimeVars,
        poolVars, Detaches
<1>63. ASSUME NEW t \in Tasks, CloseNext(t) PROVE AgentPoolHasRuntime'
  <2>1. PICK p \in Pools : pool' = [pool EXCEPT ![t] = p] /\ closing' = closing \cup {p} /\ detached' \subseteq Group
    BY <1>63, ClosesNext
  <2>2. QED
    BY <2>1, <1>63, <1>1, <1>2, <1>3 DEF AgentPoolHasRuntime, LocalsFollowControl, Numbered, Target,
        HandlePc, OwnPc, DrainPc, Pools, Runtimes, None, CloseNext, GoTo, tableVars, runtimeVars,
        poolVars
<1>64. QED
  BY <1>4, <1>5, <1>6, <1>7, <1>8, <1>9, <1>10, <1>11, <1>12, <1>13, <1>14, <1>15, <1>16, <1>17, <1>18,
      <1>19, <1>20, <1>21, <1>22, <1>23, <1>24, <1>25, <1>26, <1>27, <1>28, <1>29, <1>30, <1>31, <1>32,
      <1>33, <1>34, <1>35, <1>36, <1>37, <1>38, <1>39, <1>40, <1>41, <1>42, <1>43, <1>44, <1>45, <1>46,
      <1>47, <1>48, <1>49, <1>50, <1>51, <1>52, <1>53, <1>54, <1>55, <1>56, <1>57, <1>58, <1>59, <1>60,
      <1>61, <1>62, <1>63 DEF Next, Begins, Goes, Uses, Keepalives, Ends

\* No step routes a pool twice, or routes a pool that a task owns.
LEMMA OwnersPreserved == ASSUME IInv, Next PROVE OwnersAreExclusive'
<1>1. /\ route \in [Keys -> Pools \cup {None}] /\ keepalive \in [Keys -> Pools \cup {None}]
      /\ late \subseteq [key : Keys, pool : Pools, replace : BOOLEAN] /\ draining \subseteq Keys
      /\ runtime \in [Pools -> Runtimes \cup {None}] /\ made \in 0..MaxPools
      /\ pc \in [Tasks -> TaskPc] /\ key \in [Tasks -> Keys \cup {None}] /\ pool \in [Tasks -> Pools \cup {None}]
      /\ drain \in [Tasks -> Keys \cup {None}]
  BY DEF IInv, TypeOK
<1>2. OwnersAreExclusive /\ LocalsFollowControl /\ Numbered
  BY DEF IInv
<1>3. ASSUME NEW l \in late,
             KeepaliveAborted(l)
      PROVE  OwnersAreExclusive'
  BY <1>3, <1>1, <1>2 DEF OwnersAreExclusive, LocalsFollowControl, Numbered, HandlePc, OwnPc, Pools, None,
      KeepaliveAborted, endVars, runtimeVars, poolVars, taskVars
<1>4. ASSUME NEW g \in detached,
             FinishDetach(g) \/ FinishDetachAborted(g)
      PROVE  OwnersAreExclusive'
  BY <1>4, <1>1, <1>2 DEF OwnersAreExclusive, LocalsFollowControl, Numbered, HandlePc, OwnPc, Pools, None,
      FinishDetach, runtimeVars, poolVars, taskVars, FinishDetachAborted
<1>5. ASSUME NEW p \in Pools,
             Close(p)
      PROVE  OwnersAreExclusive'
  BY <1>5, <1>1, <1>2 DEF OwnersAreExclusive, LocalsFollowControl, Numbered, HandlePc, OwnPc, Pools, None,
      Close, tableVars, runtimeVars, poolVars, taskVars
<1>6. ASSUME NEW t \in Tasks, NEW k \in Keys,
             Open(t, k) \/ Connect(t, k) \/ Remove(t, k) \/ Reconnect(t, k) \/ DropCleanupGuard(t, k)
      PROVE  OwnersAreExclusive'
  BY <1>6, <1>1, <1>2 DEF OwnersAreExclusive, LocalsFollowControl, Numbered, HandlePc, OwnPc, Pools, None,
      Open, At, Calls, tableVars, endVars, runtimeVars, poolVars, Connect, Routed, Remove, Reconnect,
      DropCleanupGuard
<1>7. ASSUME NEW t \in Tasks, NEW k \in Keys, Use(t, k) PROVE OwnersAreExclusive'
  BY <1>7, <1>1, <1>2 DEF OwnersAreExclusive, LocalsFollowControl, Numbered, HandlePc, OwnPc, Pools, None,
      Use, At, Calls, tableVars, endVars, runtimeVars, poolVars
<1>8. ASSUME NEW t \in Tasks, NEW k \in Keys, NEW replace \in BOOLEAN,
             CallDetachByKey(t, k, replace)
      PROVE  OwnersAreExclusive'
  <2>1. Detaches
    BY <1>8, DetachActions
  <2>2. QED
    BY <2>1, <1>8, <1>1, <1>2 DEF OwnersAreExclusive, LocalsFollowControl, Numbered, HandlePc, OwnPc, Pools,
        None, CallDetachByKey, At, Calls, runtimeVars, poolVars, Detaches
<1>9. ASSUME NEW t \in Tasks,
             Disconnect(t) \/ CloseDatabasePool(t) \/ WaitForDrain(t) \/ CheckMisses(t) \/ Recheck(t) \/
                 Reuse(t)
      PROVE  OwnersAreExclusive'
  BY <1>9, <1>1, <1>2 DEF OwnersAreExclusive, LocalsFollowControl, Numbered, HandlePc, OwnPc, Pools, None,
      Disconnect, At, Calls, Routed, endVars, runtimeVars, poolVars, CloseDatabasePool, WaitForDrain, GoTo,
      tableVars, tableAndPools, CheckMisses, Recheck, Reuse
<1>10. ASSUME NEW t \in Tasks,
             NothingReclaimed(t) \/ StopKeepalive(t) \/ TakeRefused(t) \/ Restore(t) \/ ReleaseDrain(t)
      PROVE  OwnersAreExclusive'
  BY <1>10, <1>1, <1>2 DEF OwnersAreExclusive, LocalsFollowControl, Numbered, HandlePc, OwnPc, Pools, None,
      NothingReclaimed, At, GoTo, tableVars, endVars, runtimeVars, poolVars, tableAndPools, StopKeepalive,
      TakeRefused, Restore, ReleaseDrain
<1>11. ASSUME NEW t \in Tasks, ReclaimReplaces(t) PROVE OwnersAreExclusive'
  <2>1. Detaches
    BY <1>11, DetachActions
  <2>2. QED
    BY <2>1, <1>11, <1>1, <1>2 DEF OwnersAreExclusive, LocalsFollowControl, Numbered, HandlePc, OwnPc,
        Pools, None, ReclaimReplaces, At, GoTo, Fault, poolVars, Detaches
<1>12. ASSUME NEW t \in Tasks, NEW k \in Base, BeginDrain(t, k) PROVE OwnersAreExclusive'
  BY <1>12, <1>1, <1>2 DEF OwnersAreExclusive, LocalsFollowControl, Numbered, HandlePc, OwnPc, Pools, None,
      BeginDrain, At, GoTo, endVars, runtimeVars, poolVars
<1>13. ASSUME NEW k \in Keys, NEW replace \in BOOLEAN, PingFails(k, replace) PROVE OwnersAreExclusive'
  BY <1>13, <1>1, <1>2 DEF OwnersAreExclusive, LocalsFollowControl, Numbered, HandlePc, OwnPc, Pools, None,
      PingFails, Fault, endVars, runtimeVars, poolVars, taskVars
<1>14. ASSUME NEW l \in late, KeepaliveDetaches(l) PROVE OwnersAreExclusive'
  <2>1. Detaches
    BY <1>14, DetachActions
  <2>2. QED
    BY <2>1, <1>14, <1>1, <1>2 DEF OwnersAreExclusive, LocalsFollowControl, Numbered, HandlePc, OwnPc,
        Pools, None, KeepaliveDetaches, Routed, runtimeVars, poolVars, taskVars, Detaches
<1>15. ASSUME NEW p \in Pools, CloseReplaces(p) PROVE OwnersAreExclusive'
  <2>1. Detaches
    BY <1>15, DetachActions
  <2>2. QED
    BY <2>1, <1>15, <1>1, <1>2 DEF OwnersAreExclusive, LocalsFollowControl, Numbered, HandlePc, OwnPc,
        Pools, None, CloseReplaces, Fault, poolVars, taskVars, Detaches
<1>16. ASSUME NEW t \in Tasks, RemoveRoutes(t) PROVE OwnersAreExclusive'
  BY <1>16, <1>1, <1>2 DEF OwnersAreExclusive, LocalsFollowControl, Numbered, HandlePc, OwnPc, Pools, None,
      RemoveRoutes, At, GoTo, Routed, runtimeVars, poolVars
<1>17. ASSUME NEW t \in Tasks, CleanupDetaches(t) PROVE OwnersAreExclusive'
  <2>1. Detaches
    BY <1>17, DetachActions
  <2>2. QED
    BY <2>1, <1>17, <1>1, <1>2 DEF OwnersAreExclusive, LocalsFollowControl, Numbered, HandlePc, OwnPc,
        Pools, None, CleanupDetaches, At, GoTo, runtimeVars, poolVars, Detaches
<1>18. ASSUME NEW t \in Tasks, Probe(t) PROVE OwnersAreExclusive'
  BY <1>18, <1>1, <1>2 DEF OwnersAreExclusive, LocalsFollowControl, Numbered, HandlePc, OwnPc, Pools, None,
      Probe, At, GoTo, tableVars, endVars, runtimeVars, poolVars, tableAndPools
<1>19. ASSUME NEW t \in Tasks, ProbeOk(t) PROVE OwnersAreExclusive'
  BY <1>19, <1>1, <1>2 DEF OwnersAreExclusive, LocalsFollowControl, Numbered, HandlePc, OwnPc, Pools, None,
      ProbeOk, At, GoTo, tableVars, endVars, runtimeVars, poolVars, tableAndPools
<1>20. ASSUME NEW t \in Tasks, ProbeFindsStale(t) PROVE OwnersAreExclusive'
  BY <1>20, <1>1, <1>2 DEF OwnersAreExclusive, LocalsFollowControl, Numbered, HandlePc, OwnPc, Pools, None,
      ProbeFindsStale, At, GoTo, Fault, endVars, runtimeVars, poolVars
<1>21. ASSUME NEW t \in Tasks, RemoveStale(t) PROVE OwnersAreExclusive'
  BY <1>21, <1>1, <1>2 DEF OwnersAreExclusive, LocalsFollowControl, Numbered, HandlePc, OwnPc, Pools, None,
      RemoveStale, At, GoTo, runtimeVars, poolVars
<1>22. ASSUME NEW t \in Tasks, CreateNative(t) PROVE OwnersAreExclusive'
  <2>1. /\ pool' = [pool EXCEPT ![t] = made + 1] /\ pc' = [pc EXCEPT ![t] = "created"] /\ route' = route
    BY <1>22 DEF CreateNative, GoTo, tableVars
  <2>2. \A k \in Keys : route[k] # made + 1
    BY <1>1, <1>2 DEF Numbered, Pools, None
  <2>3. \A u \in Tasks : pc[u] \in OwnPc => pool[u] # made + 1
    BY <1>1, <1>2 DEF Numbered, OwnPc, Pools, None
  <2>4. QED
    BY <1>1, <1>2, <2>1, <2>2, <2>3 DEF OwnersAreExclusive, OwnPc
<1>23. ASSUME NEW t \in Tasks, Create(t) PROVE OwnersAreExclusive'
  BY <1>23, <1>1, <1>2, ConnectionPoolsAssumption DEF OwnersAreExclusive, LocalsFollowControl, Numbered,
      HandlePc, OwnPc, Pools, None, Create, At, GoTo, Current, Takes, tableVars, endVars
<1>24. ASSUME NEW t \in Tasks, CreateFails(t) PROVE OwnersAreExclusive'
  BY <1>24, <1>1, <1>2 DEF OwnersAreExclusive, LocalsFollowControl, Numbered, HandlePc, OwnPc, Pools, None,
      CreateFails, At, GoTo, tableVars, endVars, runtimeVars, poolVars, tableAndPools
<1>25. ASSUME NEW t \in Tasks, CreateReplaces(t) PROVE OwnersAreExclusive'
  <2>1. Detaches
    BY <1>25, DetachActions
  <2>2. QED
    BY <2>1, <1>25, <1>1, <1>2 DEF OwnersAreExclusive, LocalsFollowControl, Numbered, HandlePc, OwnPc,
        Pools, None, CreateReplaces, At, GoTo, Current, Fault, poolVars, Detaches
<1>26. ASSUME NEW t \in Tasks, CheckAttempt(t) PROVE OwnersAreExclusive'
  BY <1>26, <1>1, <1>2 DEF OwnersAreExclusive, LocalsFollowControl, Numbered, HandlePc, OwnPc, Pools, None,
      CheckAttempt, At, GoTo, Current, tableVars, endVars, runtimeVars, poolVars, tableAndPools
<1>27. ASSUME NEW t \in Tasks, Discard(t) PROVE OwnersAreExclusive'
  BY <1>27, <1>1, <1>2 DEF OwnersAreExclusive, LocalsFollowControl, Numbered, HandlePc, OwnPc, Pools, None,
      Discard, At, GoTo, tableVars, runtimeVars, poolVars
<1>28. ASSUME NEW t \in Tasks, InsertWait(t) PROVE OwnersAreExclusive'
  BY <1>28, <1>1, <1>2 DEF OwnersAreExclusive, LocalsFollowControl, Numbered, HandlePc, OwnPc, Pools, None,
      InsertWait, At, GoTo, Target, tableVars, endVars, runtimeVars, poolVars, tableAndPools
<1>29. ASSUME NEW t \in Tasks, Insert(t) PROVE OwnersAreExclusive'
  BY <1>29, <1>1, <1>2, ConnectionPoolsAssumption DEF OwnersAreExclusive, LocalsFollowControl, Numbered,
      HandlePc, OwnPc, Pools, None, Insert, At, GoTo, Target, runtimeVars, poolVars
<1>30. ASSUME NEW t \in Tasks, InsertRejected(t) PROVE OwnersAreExclusive'
  <2>1. Detaches
    BY <1>30, DetachActions
  <2>2. QED
    BY <2>1, <1>30, <1>1, <1>2 DEF OwnersAreExclusive, LocalsFollowControl, Numbered, HandlePc, OwnPc,
        Pools, None, InsertRejected, At, GoTo, poolVars, Detaches
<1>31. ASSUME NEW t \in Tasks, CloseAwaited(t) PROVE OwnersAreExclusive'
  BY <1>31, <1>1, <1>2 DEF OwnersAreExclusive, LocalsFollowControl, Numbered, HandlePc, OwnPc, Pools, None,
      CloseAwaited, GoTo, AfterInsert, ClosePc, Closed, tableVars, endVars, runtimeVars, poolVars,
      tableAndPools, AfterList
<1>32. ASSUME NEW t \in Tasks, Verify(t) PROVE OwnersAreExclusive'
  BY <1>32, <1>1, <1>2 DEF OwnersAreExclusive, LocalsFollowControl, Numbered, HandlePc, OwnPc, Pools, None,
      Verify, At, GoTo, Target, AfterInsert, tableVars, endVars, runtimeVars, poolVars, tableAndPools
<1>33. ASSUME NEW t \in Tasks, Unroute(t) PROVE OwnersAreExclusive'
  <2>1. Detaches
    BY <1>33, DetachActions
  <2>2. QED
    BY <2>1, <1>33, <1>1, <1>2 DEF OwnersAreExclusive, LocalsFollowControl, Numbered, HandlePc, OwnPc,
        Pools, None, Unroute, At, GoTo, Target, AfterInsert, runtimeVars, poolVars, Detaches
<1>34. ASSUME NEW t \in Tasks, SlotsExhausted(t) PROVE OwnersAreExclusive'
  BY <1>34, <1>1, <1>2 DEF OwnersAreExclusive, LocalsFollowControl, Numbered, HandlePc, OwnPc, Pools, None,
      SlotsExhausted, At, GoTo, Routed, Current, tableVars, endVars, runtimeVars, poolVars, tableAndPools
<1>35. ASSUME NEW t \in Tasks, Take(t) PROVE OwnersAreExclusive'
  BY <1>35, <1>1, <1>2, ConnectionPoolsAssumption DEF OwnersAreExclusive, LocalsFollowControl, Numbered,
      HandlePc, OwnPc, Pools, None, Take, At, GoTo, InUse, endVars, runtimeVars, poolVars
<1>36. ASSUME NEW t \in Tasks, CloneForKeepalive(t) PROVE OwnersAreExclusive'
  BY <1>36, <1>1, <1>2 DEF OwnersAreExclusive, LocalsFollowControl, Numbered, HandlePc, OwnPc, Pools, None,
      CloneForKeepalive, At, GoTo, tableVars, endVars, runtimeVars, poolVars, tableAndPools
<1>37. ASSUME NEW t \in Tasks, RestartKeepalive(t) PROVE OwnersAreExclusive'
  BY <1>37, <1>1, <1>2 DEF OwnersAreExclusive, LocalsFollowControl, Numbered, HandlePc, OwnPc, Pools, None,
      RestartKeepalive, At, GoTo, endVars, runtimeVars, poolVars
<1>38. ASSUME NEW t \in Tasks, ReclaimCloses(t) PROVE OwnersAreExclusive'
  BY <1>38, <1>1, <1>2 DEF OwnersAreExclusive, LocalsFollowControl, Numbered, HandlePc, OwnPc, Pools, None,
      ReclaimCloses, At, GoTo, tableVars, runtimeVars, poolVars
<1>39. ASSUME NEW t \in Tasks, RestoreWithoutConfig(t) PROVE OwnersAreExclusive'
  BY <1>39, <1>1, <1>2, ConnectionPoolsAssumption DEF OwnersAreExclusive, LocalsFollowControl, Numbered,
      HandlePc, OwnPc, Pools, None, RestoreWithoutConfig, At, GoTo, runtimeVars, poolVars
<1>40. ASSUME NEW t \in Tasks, EndUse(t) PROVE OwnersAreExclusive'
  BY <1>40, <1>1, <1>2 DEF OwnersAreExclusive, LocalsFollowControl, Numbered, HandlePc, OwnPc, Pools, None,
      EndUse, At, GoTo, tableVars, endVars, runtimeVars, poolVars
<1>41. ASSUME NEW t \in Tasks, Dropped(t) PROVE OwnersAreExclusive'
  BY <1>41, <1>1, <1>2 DEF OwnersAreExclusive, LocalsFollowControl, Numbered, HandlePc, OwnPc, Pools, None,
      Dropped, GoTo, PoolsOf, AwaitedBy, ClosePc, Fault, runtimeVars, poolVars
<1>42. ASSUME NEW t \in Tasks, NEW replace \in BOOLEAN, ProbeFails(t, replace) PROVE OwnersAreExclusive'
  <2>1. Detaches
    BY <1>42, DetachActions
  <2>2. QED
    BY <2>1, <1>42, <1>1, <1>2 DEF OwnersAreExclusive, LocalsFollowControl, Numbered, HandlePc, OwnPc,
        Pools, None, ProbeFails, At, GoTo, Fault, poolVars, Detaches
<1>43. ASSUME NEW t \in Tasks, NEW replace \in BOOLEAN, UseFails(t, replace) PROVE OwnersAreExclusive'
  <2>1. Detaches
    BY <1>43, DetachActions
  <2>2. QED
    BY <2>1, <1>43, <1>1, <1>2 DEF OwnersAreExclusive, LocalsFollowControl, Numbered, HandlePc, OwnPc,
        Pools, None, UseFails, At, GoTo, Routed, Fault, runtimeVars, poolVars, Detaches
<1>44. ASSUME RuntimeDies PROVE OwnersAreExclusive'
  BY <1>44, <1>1, <1>2 DEF OwnersAreExclusive, LocalsFollowControl, Numbered, HandlePc, OwnPc, Pools, None,
      RuntimeDies, tableVars, endVars, poolVars, taskVars
<1>45. ASSUME NEW t \in Tasks, NEW k \in Keys, ReconnectForwarded(t, k) PROVE OwnersAreExclusive'
  BY <1>45, <1>1, <1>2 DEF OwnersAreExclusive, LocalsFollowControl, Numbered, HandlePc, OwnPc, Pools,
      None, ReconnectForwarded, At, Calls, tableVars, endVars, runtimeVars, poolVars
<1>46. ASSUME NEW t \in Tasks, ReadKeys(t) PROVE OwnersAreExclusive'
  BY <1>46, <1>1, <1>2 DEF OwnersAreExclusive, LocalsFollowControl, Numbered, HandlePc, OwnPc, Pools,
      None, ReadKeys, Routed, At, GoTo, tableVars, endVars, runtimeVars, poolVars
<1>47. ASSUME NEW t \in Tasks, StopKeepalives(t) PROVE OwnersAreExclusive'
  BY <1>47, <1>1, <1>2 DEF OwnersAreExclusive, LocalsFollowControl, Numbered, HandlePc, OwnPc, Pools,
      None, StopKeepalives, At, GoTo, endVars, runtimeVars, poolVars
<1>48. ASSUME NEW t \in Tasks, RemoveAll(t) PROVE OwnersAreExclusive'
  <2>1. Detaches
    BY <1>48, DetachActions
  <2>2. QED
    BY <2>1, <1>48, <1>1, <1>2 DEF OwnersAreExclusive, LocalsFollowControl, Numbered, HandlePc, OwnPc,
        Pools, None, RemoveAll, AfterList, At, GoTo, runtimeVars, poolVars, Detaches
<1>49. ASSUME NEW t \in Tasks, CloseNext(t) PROVE OwnersAreExclusive'
  <2>1. PICK p \in Pools : pool' = [pool EXCEPT ![t] = p] /\ closing' = closing \cup {p} /\ detached' \subseteq Group
    BY <1>49, ClosesNext
  <2>2. QED
    BY <2>1, <1>49, <1>1, <1>2 DEF OwnersAreExclusive, LocalsFollowControl, Numbered, HandlePc, OwnPc,
        Pools, None, CloseNext, GoTo, tableVars, runtimeVars, poolVars
<1>50. QED
  BY <1>3, <1>4, <1>5, <1>6, <1>7, <1>8, <1>9, <1>10, <1>11, <1>12, <1>13, <1>14, <1>15, <1>16, <1>17,
      <1>18, <1>19, <1>20, <1>21, <1>22, <1>23, <1>24, <1>25, <1>26, <1>27, <1>28, <1>29, <1>30, <1>31,
      <1>32, <1>33, <1>34, <1>35, <1>36, <1>37, <1>38, <1>39, <1>40, <1>41, <1>42, <1>43, <1>44, <1>45,
      <1>46, <1>47, <1>48, <1>49 DEF Next, Begins, Goes, Uses, Keepalives, Ends

\* begin_pool_drain takes a key that nobody drains, and Drop releases it.
LEMMA DrainsPreserved == ASSUME IInv, Next PROVE DrainsAreHeld'
<1>1. /\ route \in [Keys -> Pools \cup {None}] /\ keepalive \in [Keys -> Pools \cup {None}]
      /\ late \subseteq [key : Keys, pool : Pools, replace : BOOLEAN] /\ draining \subseteq Keys
      /\ runtime \in [Pools -> Runtimes \cup {None}] /\ made \in 0..MaxPools
      /\ pc \in [Tasks -> TaskPc] /\ key \in [Tasks -> Keys \cup {None}] /\ pool \in [Tasks -> Pools \cup {None}]
      /\ drain \in [Tasks -> Keys \cup {None}]
  BY DEF IInv, TypeOK
<1>2. DrainsAreHeld /\ LocalsFollowControl
  BY DEF IInv
<1>3. ASSUME NEW t \in Tasks, NEW k \in Keys,
             Open(t, k) \/ Connect(t, k) \/ Remove(t, k) \/ Reconnect(t, k) \/ DropCleanupGuard(t, k) \/
                 Use(t, k)
      PROVE  DrainsAreHeld'
  BY <1>3, <1>1, <1>2 DEF DrainsAreHeld, LocalsFollowControl, DrainPc, None, Open, tableVars, endVars,
      runtimeVars, poolVars, Connect, Remove, Reconnect, DropCleanupGuard, Use
<1>4. ASSUME NEW t \in Tasks,
             Disconnect(t) \/ CloseDatabasePool(t) \/ RemoveRoutes(t) \/ CleanupDetaches(t) \/
                 WaitForDrain(t) \/ CheckMisses(t) \/ Recheck(t) \/ Reuse(t) \/ Probe(t) \/ ProbeOk(t) \/
                 ProbeFindsStale(t) \/ RemoveStale(t) \/ CreateNative(t) \/ Create(t) \/ CreateFails(t) \/
                 CreateReplaces(t) \/ CheckAttempt(t) \/ Discard(t) \/ InsertWait(t) \/ Insert(t) \/
                 InsertRejected(t) \/ CloseAwaited(t) \/ Verify(t) \/ Unroute(t) \/ SlotsExhausted(t) \/
                 NothingReclaimed(t) \/ StopKeepalive(t) \/ Take(t) \/ TakeRefused(t) \/
                 CloneForKeepalive(t) \/ RestartKeepalive(t) \/ ReclaimCloses(t) \/ ReclaimReplaces(t) \/
                 Restore(t) \/ RestoreWithoutConfig(t) \/ EndUse(t)
      PROVE  DrainsAreHeld'
  BY <1>4, <1>1, <1>2 DEF DrainsAreHeld, LocalsFollowControl, DrainPc, None, Disconnect, endVars,
      runtimeVars, poolVars, CloseDatabasePool, RemoveRoutes, CleanupDetaches, WaitForDrain, tableVars,
      tableAndPools, CheckMisses, Recheck, Reuse, Probe, ProbeOk, ProbeFindsStale, RemoveStale,
      CreateNative, Create, CreateFails, CreateReplaces, CheckAttempt, Discard, InsertWait, Insert,
      InsertRejected, CloseAwaited, Verify, Unroute, SlotsExhausted, NothingReclaimed, StopKeepalive, Take,
      TakeRefused, CloneForKeepalive, RestartKeepalive, ReclaimCloses, ReclaimReplaces, Restore,
      RestoreWithoutConfig, EndUse, AfterList
<1>5. ASSUME NEW l \in late,
             KeepaliveDetaches(l) \/ KeepaliveAborted(l)
      PROVE  DrainsAreHeld'
  BY <1>5, <1>1, <1>2 DEF DrainsAreHeld, LocalsFollowControl, DrainPc, None, KeepaliveDetaches, runtimeVars,
      poolVars, taskVars, KeepaliveAborted, endVars
<1>6. ASSUME NEW g \in detached,
             FinishDetach(g) \/ FinishDetachAborted(g)
      PROVE  DrainsAreHeld'
  BY <1>6, <1>1, <1>2 DEF DrainsAreHeld, LocalsFollowControl, DrainPc, None, FinishDetach, runtimeVars,
      poolVars, taskVars, FinishDetachAborted
<1>7. ASSUME NEW p \in Pools,
             Close(p) \/ CloseReplaces(p)
      PROVE  DrainsAreHeld'
  BY <1>7, <1>1, <1>2 DEF DrainsAreHeld, LocalsFollowControl, DrainPc, None, Close, tableVars, runtimeVars,
      poolVars, taskVars, CloseReplaces
<1>8. ASSUME NEW t \in Tasks, NEW k \in Keys, NEW replace \in BOOLEAN,
             CallDetachByKey(t, k, replace)
      PROVE  DrainsAreHeld'
  BY <1>8, <1>1, <1>2 DEF DrainsAreHeld, LocalsFollowControl, DrainPc, None, CallDetachByKey, At, Calls,
      runtimeVars, poolVars
<1>9. ASSUME NEW t \in Tasks, ReleaseDrain(t) \/ Dropped(t) PROVE DrainsAreHeld'
  BY <1>9, <1>1, <1>2 DEF DrainsAreHeld, LocalsFollowControl, DrainPc, None, ReleaseDrain, At, GoTo,
      endVars, runtimeVars, poolVars, Dropped, PoolsOf, AwaitedBy, OwnPc, ClosePc, Fault
<1>10. ASSUME NEW t \in Tasks, NEW replace \in BOOLEAN,
             ProbeFails(t, replace) \/ UseFails(t, replace)
      PROVE  DrainsAreHeld'
  BY <1>10, <1>1, <1>2 DEF DrainsAreHeld, LocalsFollowControl, DrainPc, None, ProbeFails, At, GoTo, Fault,
      poolVars, UseFails, Routed, runtimeVars
<1>11. ASSUME NEW k \in Keys, NEW replace \in BOOLEAN, PingFails(k, replace) PROVE DrainsAreHeld'
  BY <1>11, <1>1, <1>2 DEF DrainsAreHeld, LocalsFollowControl, DrainPc, None, PingFails, Fault, endVars,
      runtimeVars, poolVars, taskVars
<1>12. ASSUME NEW t \in Tasks, NEW k \in Base, BeginDrain(t, k) PROVE DrainsAreHeld'
  BY <1>12, <1>1, <1>2, ConnectionPoolsAssumption DEF DrainsAreHeld, LocalsFollowControl, DrainPc, None,
      BeginDrain, At, GoTo, endVars, runtimeVars, poolVars
<1>13. ASSUME RuntimeDies PROVE DrainsAreHeld'
  BY <1>13, <1>1, <1>2 DEF DrainsAreHeld, LocalsFollowControl, DrainPc, None, RuntimeDies, tableVars,
      endVars, poolVars, taskVars
<1>14. ASSUME NEW t \in Tasks, NEW k \in Keys, ReconnectForwarded(t, k) PROVE DrainsAreHeld'
  BY <1>14, <1>1, <1>2 DEF DrainsAreHeld, LocalsFollowControl, DrainPc, None, ReconnectForwarded, At,
      Calls, tableVars, endVars, runtimeVars, poolVars
<1>15. ASSUME NEW t \in Tasks, ReadKeys(t) PROVE DrainsAreHeld'
  BY <1>15, <1>1, <1>2 DEF DrainsAreHeld, LocalsFollowControl, DrainPc, None, ReadKeys, Routed, At,
      GoTo, tableVars, endVars, runtimeVars, poolVars
<1>16. ASSUME NEW t \in Tasks, StopKeepalives(t) PROVE DrainsAreHeld'
  BY <1>16, <1>1, <1>2 DEF DrainsAreHeld, LocalsFollowControl, DrainPc, None, StopKeepalives, At, GoTo,
      endVars, runtimeVars, poolVars
<1>17. ASSUME NEW t \in Tasks, RemoveAll(t) PROVE DrainsAreHeld'
  <2>1. Detaches
    BY <1>17, DetachActions
  <2>2. QED
    BY <2>1, <1>17, <1>1, <1>2 DEF DrainsAreHeld, LocalsFollowControl, DrainPc, None, RemoveAll,
        AfterList, At, GoTo, runtimeVars, poolVars, Detaches
<1>18. ASSUME NEW t \in Tasks, CloseNext(t) PROVE DrainsAreHeld'
  <2>1. PICK p \in Pools : pool' = [pool EXCEPT ![t] = p] /\ closing' = closing \cup {p} /\ detached' \subseteq Group
    BY <1>18, ClosesNext
  <2>2. QED
    BY <2>1, <1>18, <1>1, <1>2 DEF DrainsAreHeld, LocalsFollowControl, DrainPc, None, CloseNext, GoTo,
        tableVars, runtimeVars, poolVars
<1>19. QED
  BY <1>3, <1>4, <1>5, <1>6, <1>7, <1>8, <1>9, <1>10, <1>11, <1>12, <1>13, <1>14, <1>15, <1>16, <1>17,
      <1>18 DEF Next, Begins, Goes, Uses, Keepalives, Ends

\* An insert looks at the runtime under the lock; every other step only
\* removes routes.
LEMMA ReplacedPreserved == ASSUME IInv, Next PROVE ReplacedRuntimeHasNoRoute'
<1>1. /\ route \in [Keys -> Pools \cup {None}] /\ keepalive \in [Keys -> Pools \cup {None}]
      /\ late \subseteq [key : Keys, pool : Pools, replace : BOOLEAN] /\ draining \subseteq Keys
      /\ runtime \in [Pools -> Runtimes \cup {None}] /\ made \in 0..MaxPools
      /\ pc \in [Tasks -> TaskPc] /\ key \in [Tasks -> Keys \cup {None}] /\ pool \in [Tasks -> Pools \cup {None}]
      /\ drain \in [Tasks -> Keys \cup {None}]
  BY DEF IInv, TypeOK
<1>2. ReplacedRuntimeHasNoRoute /\ LocalsFollowControl /\ Numbered
  BY DEF IInv
<1>3. replaced \subseteq failed
  BY DEF IInv, TypeOK
<1>4. ASSUME NEW t \in Tasks, NEW k \in Keys,
             Open(t, k) \/ Connect(t, k) \/ Remove(t, k) \/ Reconnect(t, k) \/ DropCleanupGuard(t, k) \/
                 Use(t, k)
      PROVE  ReplacedRuntimeHasNoRoute'
  BY <1>4, <1>1, <1>2, <1>3 DEF ReplacedRuntimeHasNoRoute, LocalsFollowControl, Numbered, HandlePc, OwnPc,
      Pools, None, Open, tableVars, endVars, runtimeVars, poolVars, Connect, Remove, Reconnect,
      DropCleanupGuard, Use
<1>5. ASSUME NEW t \in Tasks,
             Disconnect(t) \/ CloseDatabasePool(t) \/ WaitForDrain(t) \/ CheckMisses(t) \/ Recheck(t) \/
                 Reuse(t) \/ Probe(t) \/ ProbeOk(t) \/ ProbeFindsStale(t) \/ CreateNative(t) \/
                 CreateFails(t) \/ CheckAttempt(t) \/ Discard(t) \/ InsertWait(t) \/ CloseAwaited(t) \/
                 Verify(t) \/ SlotsExhausted(t) \/ NothingReclaimed(t) \/ StopKeepalive(t) \/ TakeRefused(t)
                 \/ CloneForKeepalive(t) \/ RestartKeepalive(t) \/ ReclaimCloses(t) \/ Restore(t) \/
                 ReleaseDrain(t) \/ EndUse(t) \/ Dropped(t)
      PROVE  ReplacedRuntimeHasNoRoute'
  BY <1>5, <1>1, <1>2, <1>3 DEF ReplacedRuntimeHasNoRoute, LocalsFollowControl, Numbered, HandlePc, OwnPc,
      Pools, None, Disconnect, endVars, runtimeVars, poolVars, CloseDatabasePool, WaitForDrain, tableVars,
      tableAndPools, CheckMisses, Recheck, Reuse, Probe, ProbeOk, ProbeFindsStale, CreateNative,
      CreateFails, CheckAttempt, Discard, InsertWait, CloseAwaited, Verify, SlotsExhausted,
      NothingReclaimed, StopKeepalive, TakeRefused, CloneForKeepalive, RestartKeepalive, ReclaimCloses,
      Restore, ReleaseDrain, EndUse, Dropped, AfterList
<1>6. ASSUME NEW l \in late,
             KeepaliveAborted(l)
      PROVE  ReplacedRuntimeHasNoRoute'
  BY <1>6, <1>1, <1>2, <1>3 DEF ReplacedRuntimeHasNoRoute, LocalsFollowControl, Numbered, HandlePc, OwnPc,
      Pools, None, KeepaliveAborted, endVars, runtimeVars, poolVars, taskVars
<1>7. ASSUME NEW g \in detached,
             FinishDetach(g) \/ FinishDetachAborted(g)
      PROVE  ReplacedRuntimeHasNoRoute'
  BY <1>7, <1>1, <1>2, <1>3 DEF ReplacedRuntimeHasNoRoute, LocalsFollowControl, Numbered, HandlePc, OwnPc,
      Pools, None, FinishDetach, runtimeVars, poolVars, taskVars, FinishDetachAborted
<1>8. ASSUME NEW p \in Pools,
             Close(p)
      PROVE  ReplacedRuntimeHasNoRoute'
  BY <1>8, <1>1, <1>2, <1>3 DEF ReplacedRuntimeHasNoRoute, LocalsFollowControl, Numbered, HandlePc, OwnPc,
      Pools, None, Close, tableVars, runtimeVars, poolVars, taskVars
<1>9. ASSUME NEW t \in Tasks, NEW k \in Keys, NEW replace \in BOOLEAN,
             CallDetachByKey(t, k, replace)
      PROVE  ReplacedRuntimeHasNoRoute'
  <2>1. Detaches
    BY <1>9, DetachActions
  <2>2. QED
    BY <2>1, <1>9, <1>1, <1>2, <1>3 DEF ReplacedRuntimeHasNoRoute, LocalsFollowControl, Numbered, HandlePc,
        OwnPc, Pools, None, CallDetachByKey, At, Calls, runtimeVars, poolVars, Detaches
<1>10. ASSUME NEW t \in Tasks,
             CleanupDetaches(t) \/ CreateReplaces(t) \/ InsertRejected(t) \/ Unroute(t) \/
                 ReclaimReplaces(t)
      PROVE  ReplacedRuntimeHasNoRoute'
  <2>1. Detaches
    BY <1>10, DetachActions
  <2>2. QED
    BY <2>1, <1>10, <1>1, <1>2, <1>3 DEF ReplacedRuntimeHasNoRoute, LocalsFollowControl, Numbered, HandlePc,
        OwnPc, Pools, None, CleanupDetaches, At, GoTo, runtimeVars, poolVars, CreateReplaces, Current,
        Fault, InsertRejected, Unroute, Target, AfterInsert, ReclaimReplaces, Detaches
<1>11. ASSUME NEW t \in Tasks, NEW k \in Base, BeginDrain(t, k) PROVE ReplacedRuntimeHasNoRoute'
  BY <1>11, <1>1, <1>2, <1>3 DEF ReplacedRuntimeHasNoRoute, LocalsFollowControl, Numbered, HandlePc, OwnPc,
      Pools, None, BeginDrain, At, GoTo, endVars, runtimeVars, poolVars
<1>12. ASSUME NEW t \in Tasks, NEW replace \in BOOLEAN,
             ProbeFails(t, replace) \/ UseFails(t, replace)
      PROVE  ReplacedRuntimeHasNoRoute'
  <2>1. Detaches
    BY <1>12, DetachActions
  <2>2. QED
    BY <2>1, <1>12, <1>1, <1>2, <1>3 DEF ReplacedRuntimeHasNoRoute, LocalsFollowControl, Numbered, HandlePc,
        OwnPc, Pools, None, ProbeFails, At, GoTo, Fault, poolVars, UseFails, Routed, runtimeVars, Detaches
<1>13. ASSUME NEW k \in Keys, NEW replace \in BOOLEAN, PingFails(k, replace) PROVE ReplacedRuntimeHasNoRoute'
  BY <1>13, <1>1, <1>2, <1>3 DEF ReplacedRuntimeHasNoRoute, LocalsFollowControl, Numbered, HandlePc, OwnPc,
      Pools, None, PingFails, Fault, endVars, runtimeVars, poolVars, taskVars
<1>14. ASSUME NEW l \in late, KeepaliveDetaches(l) PROVE ReplacedRuntimeHasNoRoute'
  <2>1. Detaches
    BY <1>14, DetachActions
  <2>2. QED
    BY <2>1, <1>14, <1>1, <1>2, <1>3 DEF ReplacedRuntimeHasNoRoute, LocalsFollowControl, Numbered, HandlePc,
        OwnPc, Pools, None, KeepaliveDetaches, Routed, runtimeVars, poolVars, taskVars, Detaches
<1>15. ASSUME NEW p \in Pools, CloseReplaces(p) PROVE ReplacedRuntimeHasNoRoute'
  <2>1. Detaches
    BY <1>15, DetachActions
  <2>2. QED
    BY <2>1, <1>15, <1>1, <1>2, <1>3 DEF ReplacedRuntimeHasNoRoute, LocalsFollowControl, Numbered, HandlePc,
        OwnPc, Pools, None, CloseReplaces, Fault, poolVars, taskVars, Detaches
<1>16. ASSUME NEW t \in Tasks, RemoveRoutes(t) PROVE ReplacedRuntimeHasNoRoute'
  BY <1>16, <1>1, <1>2, <1>3 DEF ReplacedRuntimeHasNoRoute, LocalsFollowControl, Numbered, HandlePc, OwnPc,
      Pools, None, RemoveRoutes, At, GoTo, Routed, runtimeVars, poolVars
<1>17. ASSUME NEW t \in Tasks, RemoveStale(t) PROVE ReplacedRuntimeHasNoRoute'
  BY <1>17, <1>1, <1>2, <1>3 DEF ReplacedRuntimeHasNoRoute, LocalsFollowControl, Numbered, HandlePc, OwnPc,
      Pools, None, RemoveStale, At, GoTo, runtimeVars, poolVars
<1>18. ASSUME NEW t \in Tasks, Create(t) PROVE ReplacedRuntimeHasNoRoute'
  BY <1>18, <1>1, <1>2, <1>3, ConnectionPoolsAssumption DEF ReplacedRuntimeHasNoRoute, LocalsFollowControl,
      Numbered, HandlePc, OwnPc, Pools, None, Create, At, GoTo, Current, Takes, tableVars, endVars
<1>19. ASSUME NEW t \in Tasks, Insert(t) PROVE ReplacedRuntimeHasNoRoute'
  BY <1>19, <1>1, <1>2, <1>3, ConnectionPoolsAssumption DEF ReplacedRuntimeHasNoRoute, LocalsFollowControl,
      Numbered, HandlePc, OwnPc, Pools, None, Insert, At, GoTo, Target, runtimeVars, poolVars
<1>20. ASSUME NEW t \in Tasks, Take(t) PROVE ReplacedRuntimeHasNoRoute'
  BY <1>20, <1>1, <1>2, <1>3, ConnectionPoolsAssumption DEF ReplacedRuntimeHasNoRoute, LocalsFollowControl,
      Numbered, HandlePc, OwnPc, Pools, None, Take, At, GoTo, InUse, endVars, runtimeVars, poolVars
<1>21. ASSUME NEW t \in Tasks, RestoreWithoutConfig(t) PROVE ReplacedRuntimeHasNoRoute'
  BY <1>21, <1>1, <1>2, <1>3, ConnectionPoolsAssumption DEF ReplacedRuntimeHasNoRoute, LocalsFollowControl,
      Numbered, HandlePc, OwnPc, Pools, None, RestoreWithoutConfig, At, GoTo, runtimeVars, poolVars
<1>22. ASSUME RuntimeDies PROVE ReplacedRuntimeHasNoRoute'
  BY <1>22, <1>1, <1>2, <1>3 DEF ReplacedRuntimeHasNoRoute, LocalsFollowControl, Numbered, HandlePc, OwnPc,
      Pools, None, RuntimeDies, tableVars, endVars, poolVars, taskVars
<1>23. ASSUME NEW t \in Tasks, NEW k \in Keys, ReconnectForwarded(t, k) PROVE ReplacedRuntimeHasNoRoute'
  BY <1>23, <1>1, <1>2, <1>3 DEF ReplacedRuntimeHasNoRoute, LocalsFollowControl, Numbered, HandlePc,
      OwnPc, Pools, None, ReconnectForwarded, At, Calls, tableVars, endVars, runtimeVars, poolVars
<1>24. ASSUME NEW t \in Tasks, ReadKeys(t) PROVE ReplacedRuntimeHasNoRoute'
  BY <1>24, <1>1, <1>2, <1>3 DEF ReplacedRuntimeHasNoRoute, LocalsFollowControl, Numbered, HandlePc,
      OwnPc, Pools, None, ReadKeys, Routed, At, GoTo, tableVars, endVars, runtimeVars, poolVars
<1>25. ASSUME NEW t \in Tasks, StopKeepalives(t) PROVE ReplacedRuntimeHasNoRoute'
  BY <1>25, <1>1, <1>2, <1>3 DEF ReplacedRuntimeHasNoRoute, LocalsFollowControl, Numbered, HandlePc,
      OwnPc, Pools, None, StopKeepalives, At, GoTo, endVars, runtimeVars, poolVars
<1>26. ASSUME NEW t \in Tasks, RemoveAll(t) PROVE ReplacedRuntimeHasNoRoute'
  <2>1. Detaches
    BY <1>26, DetachActions
  <2>2. QED
    BY <2>1, <1>26, <1>1, <1>2, <1>3 DEF ReplacedRuntimeHasNoRoute, LocalsFollowControl, Numbered,
        HandlePc, OwnPc, Pools, None, RemoveAll, AfterList, At, GoTo, runtimeVars, poolVars, Detaches
<1>27. ASSUME NEW t \in Tasks, CloseNext(t) PROVE ReplacedRuntimeHasNoRoute'
  <2>1. PICK p \in Pools : pool' = [pool EXCEPT ![t] = p] /\ closing' = closing \cup {p} /\ detached' \subseteq Group
    BY <1>27, ClosesNext
  <2>2. QED
    BY <2>1, <1>27, <1>1, <1>2, <1>3 DEF ReplacedRuntimeHasNoRoute, LocalsFollowControl, Numbered,
        HandlePc, OwnPc, Pools, None, CloseNext, GoTo, tableVars, runtimeVars, poolVars
<1>28. QED
  BY <1>4, <1>5, <1>6, <1>7, <1>8, <1>9, <1>10, <1>11, <1>12, <1>13, <1>14, <1>15, <1>16, <1>17, <1>18,
      <1>19, <1>20, <1>21, <1>22, <1>23, <1>24, <1>25, <1>26, <1>27 DEF Next, Begins, Goes, Uses,
      Keepalives, Ends

\* A pool that is being reclaimed is out of the table, so nobody can clone it.
LEMMA ReclaimedPreserved == ASSUME IInv, Next PROVE ReclaimedPoolIsUnused'
<1>1. /\ route \in [Keys -> Pools \cup {None}] /\ keepalive \in [Keys -> Pools \cup {None}]
      /\ late \subseteq [key : Keys, pool : Pools, replace : BOOLEAN] /\ draining \subseteq Keys
      /\ runtime \in [Pools -> Runtimes \cup {None}] /\ made \in 0..MaxPools
      /\ pc \in [Tasks -> TaskPc] /\ key \in [Tasks -> Keys \cup {None}] /\ pool \in [Tasks -> Pools \cup {None}]
      /\ drain \in [Tasks -> Keys \cup {None}]
  BY DEF IInv, TypeOK
<1>2. ReclaimedPoolIsUnused /\ OwnersAreExclusive /\ LocalsFollowControl /\ Numbered
  BY DEF IInv
<1>3. ASSUME NEW p \in Pools,
             Close(p) \/ CloseReplaces(p)
      PROVE  ReclaimedPoolIsUnused'
  BY <1>3, <1>1, <1>2 DEF ReclaimedPoolIsUnused, InUse, OwnersAreExclusive, LocalsFollowControl, Numbered,
      HandlePc, OwnPc, Pools, None, Close, tableVars, runtimeVars, poolVars, taskVars, CloseReplaces
<1>4. ASSUME NEW t \in Tasks, NEW k \in Keys, Open(t, k) PROVE ReclaimedPoolIsUnused'
  BY <1>4, <1>1, <1>2 DEF ReclaimedPoolIsUnused, InUse, OwnersAreExclusive, LocalsFollowControl, Numbered,
      HandlePc, OwnPc, Pools, None, Open, At, Calls, tableVars, endVars, runtimeVars, poolVars
<1>5. ASSUME NEW t \in Tasks, NEW k \in Keys,
             Connect(t, k) \/ Remove(t, k) \/ Reconnect(t, k) \/ DropCleanupGuard(t, k)
      PROVE  ReclaimedPoolIsUnused'
  BY <1>5, <1>1, <1>2 DEF ReclaimedPoolIsUnused, InUse, OwnersAreExclusive, LocalsFollowControl, Numbered,
      HandlePc, OwnPc, Pools, None, Connect, At, Calls, Routed, endVars, runtimeVars, poolVars, Remove,
      Reconnect, DropCleanupGuard, tableVars
<1>6. ASSUME NEW t \in Tasks, NEW k \in Keys, Use(t, k) PROVE ReclaimedPoolIsUnused'
  BY <1>6, <1>1, <1>2 DEF ReclaimedPoolIsUnused, InUse, OwnersAreExclusive, LocalsFollowControl, Numbered,
      HandlePc, OwnPc, Pools, None, Use, At, Calls, tableVars, endVars, runtimeVars, poolVars
<1>7. ASSUME NEW t \in Tasks, NEW k \in Keys, NEW replace \in BOOLEAN,
             CallDetachByKey(t, k, replace)
      PROVE  ReclaimedPoolIsUnused'
  BY <1>7, <1>1, <1>2 DEF ReclaimedPoolIsUnused, InUse, OwnersAreExclusive, LocalsFollowControl, Numbered,
      HandlePc, OwnPc, Pools, None, CallDetachByKey, At, Calls, runtimeVars, poolVars
<1>8. ASSUME NEW t \in Tasks, Disconnect(t) \/ CloseDatabasePool(t) PROVE ReclaimedPoolIsUnused'
  BY <1>8, <1>1, <1>2 DEF ReclaimedPoolIsUnused, InUse, OwnersAreExclusive, LocalsFollowControl, Numbered,
      HandlePc, OwnPc, Pools, None, Disconnect, At, Calls, Routed, endVars, runtimeVars, poolVars,
      CloseDatabasePool, tableVars
<1>9. ASSUME NEW t \in Tasks,
             RemoveRoutes(t) \/ Probe(t) \/ ProbeOk(t) \/ RemoveStale(t) \/ CreateNative(t) \/
                 CloseAwaited(t)
      PROVE  ReclaimedPoolIsUnused'
  <2>1. ASSUME RemoveRoutes(t) \/ Probe(t) \/ ProbeOk(t) \/ RemoveStale(t) PROVE ReclaimedPoolIsUnused'
    BY <2>1, <1>1, <1>2 DEF ReclaimedPoolIsUnused, InUse, OwnersAreExclusive, LocalsFollowControl, Numbered,
        HandlePc, OwnPc, Pools, None, RemoveRoutes, At, GoTo, Routed, runtimeVars, poolVars, Probe, tableVars,
        endVars, tableAndPools, ProbeOk, RemoveStale
  <2>2. ASSUME CreateNative(t) PROVE ReclaimedPoolIsUnused'
    <3>1. /\ pool' = [pool EXCEPT ![t] = made + 1] /\ pc' = [pc EXCEPT ![t] = "created"]
          /\ UNCHANGED <<route, keepalive, late>>
      BY <2>2 DEF CreateNative, GoTo, tableVars
    <3>2. QED
      BY <1>1, <1>2, <3>1 DEF ReclaimedPoolIsUnused, InUse
  <2>3. ASSUME CloseAwaited(t) PROVE ReclaimedPoolIsUnused'
    BY <2>3, <1>1, <1>2 DEF ReclaimedPoolIsUnused, InUse, CloseAwaited, GoTo, tableVars, tableAndPools,
        AfterInsert, ClosePc, AfterList
  <2>4. QED
    BY <1>9, <2>1, <2>2, <2>3
<1>10. ASSUME NEW t \in Tasks,
             CloneForKeepalive(t) \/ ReclaimCloses(t) \/ ReclaimReplaces(t) \/ EndUse(t) \/ Dropped(t)
      PROVE  ReclaimedPoolIsUnused'
  BY <1>10, <1>1, <1>2 DEF ReclaimedPoolIsUnused, InUse, OwnersAreExclusive, LocalsFollowControl, Numbered,
      HandlePc, OwnPc, Pools, None, CloneForKeepalive, At, GoTo, tableVars, endVars, runtimeVars, poolVars,
      tableAndPools, ReclaimCloses, ReclaimReplaces, Fault, EndUse, Dropped, PoolsOf, AwaitedBy, ClosePc
<1>11. ASSUME NEW t \in Tasks, ProbeFindsStale(t) PROVE ReclaimedPoolIsUnused'
  BY <1>11, <1>1, <1>2 DEF ReclaimedPoolIsUnused, InUse, OwnersAreExclusive, LocalsFollowControl, Numbered,
      HandlePc, OwnPc, Pools, None, ProbeFindsStale, At, GoTo, Fault, endVars, runtimeVars, poolVars
<1>12. ASSUME NEW t \in Tasks,
             CreateReplaces(t) \/ CheckAttempt(t) \/ Discard(t) \/ InsertWait(t) \/ InsertRejected(t) \/
                 Verify(t)
      PROVE  ReclaimedPoolIsUnused'
  BY <1>12, <1>1, <1>2 DEF ReclaimedPoolIsUnused, InUse, OwnersAreExclusive, LocalsFollowControl, Numbered,
      HandlePc, OwnPc, Pools, None, CreateReplaces, At, GoTo, Current, Fault, poolVars, CheckAttempt,
      tableVars, endVars, runtimeVars, tableAndPools, Discard, InsertWait, Target, InsertRejected, Verify,
      AfterInsert
<1>13. ASSUME NEW t \in Tasks, NEW k \in Base, BeginDrain(t, k) PROVE ReclaimedPoolIsUnused'
  BY <1>13, <1>1, <1>2 DEF ReclaimedPoolIsUnused, InUse, OwnersAreExclusive, LocalsFollowControl, Numbered,
      HandlePc, OwnPc, Pools, None, BeginDrain, At, GoTo, endVars, runtimeVars, poolVars
<1>14. ASSUME NEW t \in Tasks, NEW replace \in BOOLEAN,
             ProbeFails(t, replace) \/ UseFails(t, replace)
      PROVE  ReclaimedPoolIsUnused'
  <2>1. pool' = [pool EXCEPT ![t] = None] /\ keepalive' = keepalive /\ late' = late
    BY <1>14 DEF ProbeFails, UseFails
  <2>2. \A u \in Tasks \ {t} : pc'[u] = pc[u] /\ pool'[u] = pool[u]
    BY <1>14, <1>1, <2>1 DEF ProbeFails, UseFails, GoTo
  <2>3. pc'[t] \notin {"closeReclaimed", "using", "probe", "restarted"}
    BY <1>14, <1>1 DEF ProbeFails, UseFails, GoTo
  <2>4. QED
    BY <1>1, <1>2, <2>1, <2>2, <2>3 DEF ReclaimedPoolIsUnused, InUse
<1>15. ASSUME NEW k \in Keys, NEW replace \in BOOLEAN, PingFails(k, replace) PROVE ReclaimedPoolIsUnused'
  BY <1>15, <1>1, <1>2 DEF ReclaimedPoolIsUnused, InUse, OwnersAreExclusive, LocalsFollowControl, Numbered,
      HandlePc, OwnPc, Pools, None, PingFails, Fault, endVars, runtimeVars, poolVars, taskVars
<1>16. ASSUME NEW l \in late, KeepaliveDetaches(l) PROVE ReclaimedPoolIsUnused'
  BY <1>16, <1>1, <1>2 DEF ReclaimedPoolIsUnused, InUse, OwnersAreExclusive, LocalsFollowControl, Numbered,
      HandlePc, OwnPc, Pools, None, KeepaliveDetaches, Routed, runtimeVars, poolVars, taskVars
<1>17. ASSUME NEW l \in late, KeepaliveAborted(l) PROVE ReclaimedPoolIsUnused'
  BY <1>17, <1>1, <1>2 DEF ReclaimedPoolIsUnused, InUse, OwnersAreExclusive, LocalsFollowControl, Numbered,
      HandlePc, OwnPc, Pools, None, KeepaliveAborted, endVars, runtimeVars, poolVars, taskVars
<1>18. ASSUME NEW g \in detached, FinishDetach(g) \/ FinishDetachAborted(g) PROVE ReclaimedPoolIsUnused'
  BY <1>18, <1>1, <1>2 DEF ReclaimedPoolIsUnused, InUse, OwnersAreExclusive, LocalsFollowControl, Numbered,
      HandlePc, OwnPc, Pools, None, FinishDetach, PoolsOf, KeysOf, runtimeVars, poolVars, taskVars,
      FinishDetachAborted
<1>19. ASSUME NEW t \in Tasks, CleanupDetaches(t) PROVE ReclaimedPoolIsUnused'
  BY <1>19, <1>1, <1>2 DEF ReclaimedPoolIsUnused, InUse, OwnersAreExclusive, LocalsFollowControl, Numbered,
      HandlePc, OwnPc, Pools, None, CleanupDetaches, At, GoTo, runtimeVars, poolVars
<1>20. ASSUME NEW t \in Tasks, WaitForDrain(t) PROVE ReclaimedPoolIsUnused'
  BY <1>20, <1>1, <1>2 DEF ReclaimedPoolIsUnused, InUse, OwnersAreExclusive, LocalsFollowControl, Numbered,
      HandlePc, OwnPc, Pools, None, WaitForDrain, At, GoTo, tableVars, endVars, runtimeVars, poolVars,
      tableAndPools
<1>21. ASSUME NEW t \in Tasks, CheckMisses(t) PROVE ReclaimedPoolIsUnused'
  BY <1>21, <1>1, <1>2 DEF ReclaimedPoolIsUnused, InUse, OwnersAreExclusive, LocalsFollowControl, Numbered,
      HandlePc, OwnPc, Pools, None, CheckMisses, At, GoTo, tableVars, endVars, runtimeVars, poolVars,
      tableAndPools
<1>22. ASSUME NEW t \in Tasks, Recheck(t) PROVE ReclaimedPoolIsUnused'
  BY <1>22, <1>1, <1>2 DEF ReclaimedPoolIsUnused, InUse, OwnersAreExclusive, LocalsFollowControl, Numbered,
      HandlePc, OwnPc, Pools, None, Recheck, At, GoTo, tableVars, endVars, runtimeVars, poolVars,
      tableAndPools
<1>23. ASSUME NEW t \in Tasks, Reuse(t) PROVE ReclaimedPoolIsUnused'
  BY <1>23, <1>1, <1>2 DEF ReclaimedPoolIsUnused, InUse, OwnersAreExclusive, LocalsFollowControl, Numbered,
      HandlePc, OwnPc, Pools, None, Reuse, At, GoTo, tableVars, endVars, runtimeVars, poolVars,
      tableAndPools
<1>24. ASSUME NEW t \in Tasks, Create(t) PROVE ReclaimedPoolIsUnused'
  BY <1>24, <1>1, <1>2, ConnectionPoolsAssumption DEF ReclaimedPoolIsUnused, InUse, OwnersAreExclusive,
      LocalsFollowControl, Numbered, HandlePc, OwnPc, Pools, None, Create, At, GoTo, Current, Takes,
      tableVars, endVars
<1>25. ASSUME NEW t \in Tasks, CreateFails(t) PROVE ReclaimedPoolIsUnused'
  BY <1>25, <1>1, <1>2 DEF ReclaimedPoolIsUnused, InUse, OwnersAreExclusive, LocalsFollowControl, Numbered,
      HandlePc, OwnPc, Pools, None, CreateFails, At, GoTo, tableVars, endVars, runtimeVars, poolVars,
      tableAndPools
<1>26. ASSUME NEW t \in Tasks, Insert(t) PROVE ReclaimedPoolIsUnused'
  BY <1>26, <1>1, <1>2, ConnectionPoolsAssumption DEF ReclaimedPoolIsUnused, InUse, OwnersAreExclusive,
      LocalsFollowControl, Numbered, HandlePc, OwnPc, Pools, None, Insert, At, GoTo, Target, runtimeVars,
      poolVars
<1>27. ASSUME NEW t \in Tasks, Unroute(t) PROVE ReclaimedPoolIsUnused'
  BY <1>27, <1>1, <1>2 DEF ReclaimedPoolIsUnused, InUse, OwnersAreExclusive, LocalsFollowControl, Numbered,
      HandlePc, OwnPc, Pools, None, Unroute, At, GoTo, Target, AfterInsert, runtimeVars, poolVars
<1>28. ASSUME NEW t \in Tasks, SlotsExhausted(t) PROVE ReclaimedPoolIsUnused'
  BY <1>28, <1>1, <1>2 DEF ReclaimedPoolIsUnused, InUse, OwnersAreExclusive, LocalsFollowControl, Numbered,
      HandlePc, OwnPc, Pools, None, SlotsExhausted, At, GoTo, Routed, Current, tableVars, endVars,
      runtimeVars, poolVars, tableAndPools
<1>29. ASSUME NEW t \in Tasks, NothingReclaimed(t) PROVE ReclaimedPoolIsUnused'
  BY <1>29, <1>1, <1>2 DEF ReclaimedPoolIsUnused, InUse, OwnersAreExclusive, LocalsFollowControl, Numbered,
      HandlePc, OwnPc, Pools, None, NothingReclaimed, At, GoTo, tableVars, endVars, runtimeVars, poolVars,
      tableAndPools
<1>30. ASSUME NEW t \in Tasks, StopKeepalive(t) PROVE ReclaimedPoolIsUnused'
  BY <1>30, <1>1, <1>2, ConnectionPoolsAssumption DEF ReclaimedPoolIsUnused, InUse, OwnersAreExclusive,
      LocalsFollowControl, Numbered, HandlePc, OwnPc, Pools, None, StopKeepalive, At, GoTo, endVars,
      runtimeVars, poolVars
<1>31. ASSUME NEW t \in Tasks, Take(t) PROVE ReclaimedPoolIsUnused'
  BY <1>31, <1>1, <1>2, ConnectionPoolsAssumption DEF ReclaimedPoolIsUnused, InUse, OwnersAreExclusive,
      LocalsFollowControl, Numbered, HandlePc, OwnPc, Pools, None, Take, At, GoTo, endVars, runtimeVars,
      poolVars
<1>32. ASSUME NEW t \in Tasks, TakeRefused(t) PROVE ReclaimedPoolIsUnused'
  BY <1>32, <1>1, <1>2 DEF ReclaimedPoolIsUnused, InUse, OwnersAreExclusive, LocalsFollowControl, Numbered,
      HandlePc, OwnPc, Pools, None, TakeRefused, At, GoTo, tableVars, endVars, runtimeVars, poolVars,
      tableAndPools
<1>33. ASSUME NEW t \in Tasks, RestartKeepalive(t) PROVE ReclaimedPoolIsUnused'
  BY <1>33, <1>1, <1>2, ConnectionPoolsAssumption DEF ReclaimedPoolIsUnused, InUse, OwnersAreExclusive,
      LocalsFollowControl, Numbered, HandlePc, OwnPc, Pools, None, RestartKeepalive, At, GoTo, endVars,
      runtimeVars, poolVars
<1>34. ASSUME NEW t \in Tasks, Restore(t) PROVE ReclaimedPoolIsUnused'
  BY <1>34, <1>1, <1>2 DEF ReclaimedPoolIsUnused, InUse, OwnersAreExclusive, LocalsFollowControl, Numbered,
      HandlePc, OwnPc, Pools, None, Restore, At, GoTo, tableVars, endVars, runtimeVars, poolVars,
      tableAndPools
<1>35. ASSUME NEW t \in Tasks, RestoreWithoutConfig(t) PROVE ReclaimedPoolIsUnused'
  BY <1>35, <1>1, <1>2, ConnectionPoolsAssumption DEF ReclaimedPoolIsUnused, InUse, OwnersAreExclusive,
      LocalsFollowControl, Numbered, HandlePc, OwnPc, Pools, None, RestoreWithoutConfig, At, GoTo,
      runtimeVars, poolVars
<1>36. ASSUME NEW t \in Tasks, ReleaseDrain(t) PROVE ReclaimedPoolIsUnused'
  BY <1>36, <1>1, <1>2 DEF ReclaimedPoolIsUnused, InUse, OwnersAreExclusive, LocalsFollowControl, Numbered,
      HandlePc, OwnPc, Pools, None, ReleaseDrain, At, GoTo, endVars, runtimeVars, poolVars
<1>37. ASSUME RuntimeDies PROVE ReclaimedPoolIsUnused'
  BY <1>37, <1>1, <1>2 DEF ReclaimedPoolIsUnused, InUse, OwnersAreExclusive, LocalsFollowControl, Numbered,
      HandlePc, OwnPc, Pools, None, RuntimeDies, tableVars, endVars, poolVars, taskVars
<1>38. ASSUME NEW t \in Tasks, NEW k \in Keys, ReconnectForwarded(t, k) PROVE ReclaimedPoolIsUnused'
  BY <1>38, <1>1, <1>2 DEF ReclaimedPoolIsUnused, InUse, OwnersAreExclusive, LocalsFollowControl,
      Numbered, HandlePc, OwnPc, Pools, None, ReconnectForwarded, At, Calls, tableVars, endVars,
      runtimeVars, poolVars
<1>39. ASSUME NEW t \in Tasks, ReadKeys(t) PROVE ReclaimedPoolIsUnused'
  BY <1>39, <1>1, <1>2 DEF ReclaimedPoolIsUnused, InUse, OwnersAreExclusive, LocalsFollowControl,
      Numbered, HandlePc, OwnPc, Pools, None, ReadKeys, Routed, At, GoTo, tableVars, endVars,
      runtimeVars, poolVars
<1>40. ASSUME NEW t \in Tasks, StopKeepalives(t) PROVE ReclaimedPoolIsUnused'
  BY <1>40, <1>1, <1>2 DEF ReclaimedPoolIsUnused, InUse, OwnersAreExclusive, LocalsFollowControl,
      Numbered, HandlePc, OwnPc, Pools, None, StopKeepalives, At, GoTo, endVars, runtimeVars, poolVars
<1>41. ASSUME NEW t \in Tasks, RemoveAll(t) PROVE ReclaimedPoolIsUnused'
  <2>1. Detaches
    BY <1>41, DetachActions
  <2>2. QED
    BY <2>1, <1>41, <1>1, <1>2 DEF ReclaimedPoolIsUnused, InUse, OwnersAreExclusive,
        LocalsFollowControl, Numbered, HandlePc, OwnPc, Pools, None, RemoveAll, AfterList, At, GoTo,
        runtimeVars, poolVars, Detaches
<1>42. ASSUME NEW t \in Tasks, CloseNext(t) PROVE ReclaimedPoolIsUnused'
  <2>1. PICK p \in Pools : pool' = [pool EXCEPT ![t] = p] /\ closing' = closing \cup {p} /\ detached' \subseteq Group
    BY <1>42, ClosesNext
  <2>2. QED
    BY <2>1, <1>42, <1>1, <1>2 DEF ReclaimedPoolIsUnused, InUse, OwnersAreExclusive,
        LocalsFollowControl, Numbered, HandlePc, OwnPc, Pools, None, CloseNext, GoTo, tableVars,
        runtimeVars, poolVars
<1>43. QED
  BY <1>3, <1>4, <1>5, <1>6, <1>7, <1>8, <1>9, <1>10, <1>11, <1>12, <1>13, <1>14, <1>15, <1>16, <1>17,
      <1>18, <1>19, <1>20, <1>21, <1>22, <1>23, <1>24, <1>25, <1>26, <1>27, <1>28, <1>29, <1>30, <1>31,
      <1>32, <1>33, <1>34, <1>35, <1>36, <1>37, <1>38, <1>39, <1>40, <1>41, <1>42 DEF Next, Begins,
      Goes, Uses, Keepalives, Ends

\* begin_connection_attempt and supersede_connection_attempt count once per call.
LEMMA AttemptsPreserved == ASSUME IInv, Next PROVE AttemptsAreCalls'
<1>1. attempt \in Nat /\ ops \in Nat /\ attempt <= ops
  BY ConnectionPoolsAssumption DEF IInv, TypeOK, AttemptsAreCalls
<1>2. ASSUME NEW t \in Tasks,
             RemoveRoutes(t) \/ CleanupDetaches(t) \/ WaitForDrain(t) \/ CheckMisses(t) \/ Recheck(t) \/
                 Reuse(t) \/ Probe(t) \/ ProbeOk(t) \/ ProbeFindsStale(t) \/ RemoveStale(t) \/
                 CreateNative(t) \/ Create(t) \/ CreateFails(t) \/ CreateReplaces(t) \/ CheckAttempt(t) \/
                 Discard(t) \/ InsertWait(t) \/ Insert(t) \/ InsertRejected(t) \/ CloseAwaited(t) \/
                 Verify(t) \/ Unroute(t) \/ SlotsExhausted(t) \/ NothingReclaimed(t) \/ StopKeepalive(t) \/
                 Take(t) \/ TakeRefused(t) \/ CloneForKeepalive(t) \/ RestartKeepalive(t) \/
                 ReclaimCloses(t) \/ ReclaimReplaces(t) \/ Restore(t) \/ RestoreWithoutConfig(t) \/
                 ReleaseDrain(t) \/ EndUse(t) \/ Dropped(t)
      PROVE  AttemptsAreCalls'
  BY <1>2, <1>1 DEF AttemptsAreCalls, RemoveRoutes, runtimeVars, poolVars, CleanupDetaches, WaitForDrain,
      tableVars, endVars, tableAndPools, CheckMisses, Recheck, Reuse, Probe, ProbeOk, ProbeFindsStale,
      RemoveStale, CreateNative, Create, CreateFails, CreateReplaces, CheckAttempt, Discard, InsertWait,
      Insert, InsertRejected, CloseAwaited, Verify, Unroute, SlotsExhausted, NothingReclaimed,
      StopKeepalive, Take, TakeRefused, CloneForKeepalive, RestartKeepalive, ReclaimCloses, ReclaimReplaces,
      Restore, RestoreWithoutConfig, ReleaseDrain, EndUse, Dropped, AfterList
<1>3. ASSUME NEW l \in late,
             KeepaliveDetaches(l) \/ KeepaliveAborted(l)
      PROVE  AttemptsAreCalls'
  BY <1>3, <1>1 DEF AttemptsAreCalls, KeepaliveDetaches, runtimeVars, poolVars, taskVars, KeepaliveAborted,
      endVars
<1>4. ASSUME NEW g \in detached,
             FinishDetach(g) \/ FinishDetachAborted(g)
      PROVE  AttemptsAreCalls'
  BY <1>4, <1>1 DEF AttemptsAreCalls, FinishDetach, runtimeVars, poolVars, taskVars, FinishDetachAborted
<1>5. ASSUME NEW p \in Pools,
             Close(p) \/ CloseReplaces(p)
      PROVE  AttemptsAreCalls'
  BY <1>5, <1>1 DEF AttemptsAreCalls, Close, tableVars, runtimeVars, poolVars, taskVars, CloseReplaces
<1>6. ASSUME NEW t \in Tasks, NEW k \in Keys,
             Open(t, k) \/ Remove(t, k) \/ Reconnect(t, k) \/ DropCleanupGuard(t, k) \/ Use(t, k)
      PROVE  AttemptsAreCalls'
  BY <1>6, <1>1 DEF AttemptsAreCalls, Open, At, Calls, tableVars, endVars, runtimeVars, poolVars, Remove,
      Reconnect, DropCleanupGuard, Use
<1>7. ASSUME NEW t \in Tasks, NEW k \in Keys, Connect(t, k) PROVE AttemptsAreCalls'
  BY <1>7, <1>1 DEF AttemptsAreCalls, Connect, At, Calls, Routed, endVars, runtimeVars, poolVars, tableVars
<1>8. ASSUME NEW t \in Tasks, NEW k \in Keys, NEW replace \in BOOLEAN,
             CallDetachByKey(t, k, replace)
      PROVE  AttemptsAreCalls'
  BY <1>8, <1>1 DEF AttemptsAreCalls, CallDetachByKey, At, Calls, runtimeVars, poolVars
<1>9. ASSUME NEW t \in Tasks, Disconnect(t) PROVE AttemptsAreCalls'
  BY <1>9, <1>1 DEF AttemptsAreCalls, Disconnect, At, Calls, Routed, endVars, runtimeVars, poolVars, tableVars
<1>10. ASSUME NEW t \in Tasks, CloseDatabasePool(t) PROVE AttemptsAreCalls'
  BY <1>10, <1>1 DEF AttemptsAreCalls, CloseDatabasePool, At, Calls, Routed, endVars, runtimeVars, poolVars, tableVars
<1>11. ASSUME NEW t \in Tasks, NEW k \in Base, BeginDrain(t, k) PROVE AttemptsAreCalls'
  BY <1>11, <1>1 DEF AttemptsAreCalls, BeginDrain, At, GoTo, endVars, runtimeVars, poolVars
<1>12. ASSUME NEW t \in Tasks, NEW replace \in BOOLEAN,
             ProbeFails(t, replace) \/ UseFails(t, replace)
      PROVE  AttemptsAreCalls'
  BY <1>12, <1>1 DEF AttemptsAreCalls, ProbeFails, At, GoTo, Fault, poolVars, UseFails, Routed, runtimeVars
<1>13. ASSUME NEW k \in Keys, NEW replace \in BOOLEAN, PingFails(k, replace) PROVE AttemptsAreCalls'
  BY <1>13, <1>1 DEF AttemptsAreCalls, PingFails, Fault, endVars, runtimeVars, poolVars, taskVars
<1>14. ASSUME RuntimeDies PROVE AttemptsAreCalls'
  BY <1>14, <1>1 DEF AttemptsAreCalls, RuntimeDies, tableVars, endVars, poolVars, taskVars
<1>15. ASSUME NEW t \in Tasks, NEW k \in Keys, ReconnectForwarded(t, k) PROVE AttemptsAreCalls'
  BY <1>15, <1>1 DEF AttemptsAreCalls, ReconnectForwarded, At, Calls, tableVars, endVars, runtimeVars,
      poolVars
<1>16. ASSUME NEW t \in Tasks, ReadKeys(t) PROVE AttemptsAreCalls'
  BY <1>16, <1>1 DEF AttemptsAreCalls, ReadKeys, Routed, At, GoTo, tableVars, endVars, runtimeVars,
      poolVars
<1>17. ASSUME NEW t \in Tasks, StopKeepalives(t) PROVE AttemptsAreCalls'
  BY <1>17, <1>1 DEF AttemptsAreCalls, StopKeepalives, At, GoTo, endVars, runtimeVars, poolVars
<1>18. ASSUME NEW t \in Tasks, RemoveAll(t) PROVE AttemptsAreCalls'
  <2>1. Detaches
    BY <1>18, DetachActions
  <2>2. QED
    BY <2>1, <1>18, <1>1 DEF AttemptsAreCalls, RemoveAll, AfterList, At, GoTo, runtimeVars, poolVars,
        Detaches
<1>19. ASSUME NEW t \in Tasks, CloseNext(t) PROVE AttemptsAreCalls'
  <2>1. PICK p \in Pools : pool' = [pool EXCEPT ![t] = p] /\ closing' = closing \cup {p} /\ detached' \subseteq Group
    BY <1>19, ClosesNext
  <2>2. QED
    BY <2>1, <1>19, <1>1 DEF AttemptsAreCalls, CloseNext, GoTo, tableVars, runtimeVars, poolVars
<1>20. QED
  BY <1>2, <1>3, <1>4, <1>5, <1>6, <1>7, <1>8, <1>9, <1>10, <1>11, <1>12, <1>13, <1>14, <1>15, <1>16,
      <1>17, <1>18, <1>19 DEF Next, Begins, Goes, Uses, Keepalives, Ends

-----------------------------------------------------------------------------
(* Types, group by group.                                                  *)

TableTypes ==
  /\ route \in [Keys -> Pools \cup {None}]
  /\ keepalive \in [Keys -> Pools \cup {None}]
  /\ late \subseteq [key : Keys, pool : Pools, replace : BOOLEAN]
  /\ draining \subseteq Keys

EndTypes ==
  /\ detached \subseteq Group
  /\ closing \subseteq Pools
  /\ gone \subseteq Pools
  /\ unchecked \subseteq Pools

RuntimeTypes ==
  /\ made \in 0..MaxPools
  /\ runtime \in [Pools -> Runtimes \cup {None}]
  /\ started \in 0..MaxRuntimes
  /\ failed \subseteq Runtimes
  /\ replaced \subseteq failed

CallTypes ==
  /\ attempt \in 0..MaxOps
  /\ attemptOf \in [Pools -> 0..MaxOps]
  /\ mine \in [Tasks -> 0..MaxOps]
  /\ ops \in 0..MaxOps
  /\ faults \in 0..MaxFaults

TaskTypes ==
  /\ pc \in [Tasks -> TaskPc]
  /\ key \in [Tasks -> Keys \cup {None}]
  /\ pool \in [Tasks -> Pools \cup {None}]
  /\ drain \in [Tasks -> Keys \cup {None}]
  /\ todo \in [Tasks -> SUBSET Keys]

\* TypeOK is the conjunction of the groups.
LEMMA TypeGroups == TypeOK <=> TableTypes /\ EndTypes /\ RuntimeTypes /\ CallTypes /\ TaskTypes
  BY DEF TypeOK, TableTypes, EndTypes, RuntimeTypes, CallTypes, TaskTypes, Group

\* Types of the routing table.
LEMMA TableTypesPreserved == ASSUME IInv, Next PROVE TableTypes'
<1>1. TableTypes /\ TaskTypes /\ LocalsFollowControl
  BY TypeGroups DEF IInv
<1>2. ASSUME NEW t \in Tasks, NEW k \in Keys,
             Open(t, k) \/ Use(t, k)
      PROVE  TableTypes'
  BY <1>2, <1>1 DEF TableTypes, TaskTypes, LocalsFollowControl, HandlePc, OwnPc, Pools, None, Open,
      tableVars, endVars, runtimeVars, poolVars, Use
<1>3. ASSUME NEW t \in Tasks,
             WaitForDrain(t) \/ CheckMisses(t) \/ Recheck(t) \/ Reuse(t) \/ Probe(t) \/ ProbeOk(t) \/
                 CreateNative(t) \/ Create(t) \/ CreateFails(t) \/ CheckAttempt(t) \/ Discard(t) \/
                 InsertWait(t) \/ CloseAwaited(t) \/ Verify(t) \/ SlotsExhausted(t) \/ NothingReclaimed(t)
                 \/ TakeRefused(t) \/ CloneForKeepalive(t) \/ ReclaimCloses(t) \/ Restore(t) \/ EndUse(t)
      PROVE  TableTypes'
  BY <1>3, <1>1 DEF TableTypes, TaskTypes, LocalsFollowControl, HandlePc, OwnPc, Pools, None, WaitForDrain,
      tableVars, endVars, runtimeVars, poolVars, tableAndPools, CheckMisses, Recheck, Reuse, Probe, ProbeOk,
      CreateNative, Create, CreateFails, CheckAttempt, Discard, InsertWait, CloseAwaited, Verify,
      SlotsExhausted, NothingReclaimed, TakeRefused, CloneForKeepalive, ReclaimCloses, Restore, EndUse, AfterList
<1>4. ASSUME NEW p \in Pools,
             Close(p)
      PROVE  TableTypes'
  BY <1>4, <1>1 DEF TableTypes, TaskTypes, LocalsFollowControl, HandlePc, OwnPc, Pools, None, Close,
      tableVars, runtimeVars, poolVars, taskVars
<1>5. ASSUME NEW t \in Tasks, NEW k \in Keys,
             Connect(t, k) \/ Remove(t, k) \/ Reconnect(t, k) \/ DropCleanupGuard(t, k)
      PROVE  TableTypes'
  BY <1>5, <1>1 DEF TableTypes, TaskTypes, LocalsFollowControl, HandlePc, OwnPc, Pools, None, Connect, At,
      Calls, Routed, endVars, runtimeVars, poolVars, Remove, Reconnect, DropCleanupGuard, tableVars
<1>6. ASSUME NEW t \in Tasks, NEW k \in Keys, NEW replace \in BOOLEAN,
             CallDetachByKey(t, k, replace)
      PROVE  TableTypes'
  <2>1. Detaches
    BY <1>6, DetachActions
  <2>2. QED
    BY <2>1, <1>6, <1>1 DEF TableTypes, TaskTypes, LocalsFollowControl, HandlePc, OwnPc, Pools, None,
        CallDetachByKey, At, Calls, runtimeVars, poolVars, Detaches
<1>7. ASSUME NEW t \in Tasks,
             Disconnect(t) \/ CloseDatabasePool(t) \/ ProbeFindsStale(t) \/ StopKeepalive(t)
      PROVE  TableTypes'
  BY <1>7, <1>1 DEF TableTypes, TaskTypes, LocalsFollowControl, HandlePc, OwnPc, Pools, None, Disconnect,
      At, Calls, Routed, endVars, runtimeVars, poolVars, CloseDatabasePool, ProbeFindsStale, GoTo, Fault,
      StopKeepalive, tableVars
<1>8. ASSUME NEW t \in Tasks,
             CleanupDetaches(t) \/ CreateReplaces(t) \/ InsertRejected(t) \/ Unroute(t) \/
                 ReclaimReplaces(t)
      PROVE  TableTypes'
  <2>1. Detaches
    BY <1>8, DetachActions
  <2>2. QED
    BY <2>1, <1>8, <1>1 DEF TableTypes, TaskTypes, LocalsFollowControl, HandlePc, OwnPc, Pools, None,
        CleanupDetaches, At, GoTo, runtimeVars, poolVars, CreateReplaces, Current, Fault, InsertRejected,
        Unroute, Target, AfterInsert, ReclaimReplaces, Detaches
<1>9. ASSUME NEW t \in Tasks, RemoveStale(t) PROVE TableTypes'
  BY <1>9, <1>1 DEF TableTypes, TaskTypes, LocalsFollowControl, HandlePc, OwnPc, Pools, None, RemoveStale,
      At, GoTo, runtimeVars, poolVars
<1>10. ASSUME NEW t \in Tasks, ReleaseDrain(t) \/ Dropped(t) PROVE TableTypes'
  BY <1>10, <1>1 DEF TableTypes, TaskTypes, LocalsFollowControl, HandlePc, OwnPc, Pools, None, ReleaseDrain,
      At, GoTo, endVars, runtimeVars, poolVars, Dropped, PoolsOf, AwaitedBy, ClosePc, Fault
<1>11. ASSUME NEW t \in Tasks, NEW replace \in BOOLEAN,
             ProbeFails(t, replace) \/ UseFails(t, replace)
      PROVE  TableTypes'
  <2>1. Detaches
    BY <1>11, DetachActions
  <2>2. QED
    BY <2>1, <1>11, <1>1 DEF TableTypes, TaskTypes, LocalsFollowControl, HandlePc, OwnPc, Pools, None,
        ProbeFails, At, GoTo, Fault, poolVars, UseFails, Routed, runtimeVars, Detaches
<1>12. ASSUME NEW k \in Keys, NEW replace \in BOOLEAN, PingFails(k, replace) PROVE TableTypes'
  BY <1>12, <1>1 DEF TableTypes, TaskTypes, LocalsFollowControl, HandlePc, OwnPc, Pools, None, PingFails,
      Fault, endVars, runtimeVars, poolVars, taskVars
<1>13. ASSUME NEW l \in late, KeepaliveDetaches(l) PROVE TableTypes'
  <2>1. Detaches
    BY <1>13, DetachActions
  <2>2. QED
    BY <2>1, <1>13, <1>1 DEF TableTypes, TaskTypes, LocalsFollowControl, HandlePc, OwnPc, Pools, None,
        KeepaliveDetaches, Routed, runtimeVars, poolVars, taskVars, Detaches
<1>14. ASSUME NEW l \in late, KeepaliveAborted(l) PROVE TableTypes'
  BY <1>14, <1>1 DEF TableTypes, TaskTypes, LocalsFollowControl, HandlePc, OwnPc, Pools, None,
      KeepaliveAborted, endVars, runtimeVars, poolVars, taskVars
<1>15. ASSUME NEW g \in detached, FinishDetach(g) \/ FinishDetachAborted(g) PROVE TableTypes'
  BY <1>15, <1>1 DEF TableTypes, TaskTypes, LocalsFollowControl, HandlePc, OwnPc, Pools, None, FinishDetach,
      PoolsOf, KeysOf, runtimeVars, poolVars, taskVars, FinishDetachAborted
<1>16. ASSUME NEW p \in Pools, CloseReplaces(p) PROVE TableTypes'
  <2>1. Detaches
    BY <1>16, DetachActions
  <2>2. QED
    BY <2>1, <1>16, <1>1 DEF TableTypes, TaskTypes, LocalsFollowControl, HandlePc, OwnPc, Pools, None,
        CloseReplaces, Fault, poolVars, taskVars, Detaches
<1>17. ASSUME NEW t \in Tasks, RemoveRoutes(t) PROVE TableTypes'
  BY <1>17, <1>1, ConnectionPoolsAssumption DEF TableTypes, TaskTypes, LocalsFollowControl, HandlePc, OwnPc,
      Pools, None, RemoveRoutes, At, GoTo, Routed, runtimeVars, poolVars
<1>18. ASSUME NEW t \in Tasks, Insert(t) PROVE TableTypes'
  BY <1>18, <1>1, ConnectionPoolsAssumption DEF TableTypes, TaskTypes, LocalsFollowControl, HandlePc, OwnPc,
      Pools, None, Insert, At, GoTo, Target, runtimeVars, poolVars
<1>19. ASSUME NEW t \in Tasks, Take(t) PROVE TableTypes'
  BY <1>19, <1>1, ConnectionPoolsAssumption DEF TableTypes, TaskTypes, LocalsFollowControl, HandlePc, OwnPc,
      Pools, None, Take, At, GoTo, InUse, endVars, runtimeVars, poolVars
<1>20. ASSUME NEW t \in Tasks, RestartKeepalive(t) PROVE TableTypes'
  BY <1>20, <1>1, ConnectionPoolsAssumption DEF TableTypes, TaskTypes, LocalsFollowControl, HandlePc, OwnPc,
      Pools, None, RestartKeepalive, At, GoTo, endVars, runtimeVars, poolVars
<1>21. ASSUME NEW t \in Tasks, RestoreWithoutConfig(t) PROVE TableTypes'
  BY <1>21, <1>1, ConnectionPoolsAssumption DEF TableTypes, TaskTypes, LocalsFollowControl, HandlePc, OwnPc,
      Pools, None, RestoreWithoutConfig, At, GoTo, runtimeVars, poolVars
<1>22. ASSUME NEW t \in Tasks, NEW k \in Base, BeginDrain(t, k) PROVE TableTypes'
  BY <1>22, <1>1, ConnectionPoolsAssumption DEF TableTypes, TaskTypes, LocalsFollowControl, HandlePc, OwnPc,
      Pools, None, BeginDrain, At, GoTo, endVars, runtimeVars, poolVars
<1>23. ASSUME RuntimeDies PROVE TableTypes'
  BY <1>23, <1>1 DEF TableTypes, TaskTypes, LocalsFollowControl, HandlePc, OwnPc, Pools, None, RuntimeDies,
      tableVars, endVars, poolVars, taskVars
<1>24. ASSUME NEW t \in Tasks, NEW k \in Keys, ReconnectForwarded(t, k) PROVE TableTypes'
  BY <1>24, <1>1 DEF TableTypes, TaskTypes, LocalsFollowControl, HandlePc, OwnPc, Pools, None,
      ReconnectForwarded, At, Calls, tableVars, endVars, runtimeVars, poolVars
<1>25. ASSUME NEW t \in Tasks, ReadKeys(t) PROVE TableTypes'
  BY <1>25, <1>1 DEF TableTypes, TaskTypes, LocalsFollowControl, HandlePc, OwnPc, Pools, None, ReadKeys,
      Routed, At, GoTo, tableVars, endVars, runtimeVars, poolVars
<1>26. ASSUME NEW t \in Tasks, StopKeepalives(t) PROVE TableTypes'
  BY <1>26, <1>1 DEF TableTypes, TaskTypes, LocalsFollowControl, HandlePc, OwnPc, Pools, None,
      StopKeepalives, At, GoTo, endVars, runtimeVars, poolVars
<1>27. ASSUME NEW t \in Tasks, RemoveAll(t) PROVE TableTypes'
  <2>1. Detaches
    BY <1>27, DetachActions
  <2>2. QED
    BY <2>1, <1>27, <1>1 DEF TableTypes, TaskTypes, LocalsFollowControl, HandlePc, OwnPc, Pools, None,
        RemoveAll, AfterList, At, GoTo, runtimeVars, poolVars, Detaches
<1>28. ASSUME NEW t \in Tasks, CloseNext(t) PROVE TableTypes'
  <2>1. PICK p \in Pools : pool' = [pool EXCEPT ![t] = p] /\ closing' = closing \cup {p} /\ detached' \subseteq Group
    BY <1>28, ClosesNext
  <2>2. QED
    BY <2>1, <1>28, <1>1 DEF TableTypes, TaskTypes, LocalsFollowControl, HandlePc, OwnPc, Pools, None,
        CloseNext, GoTo, tableVars, runtimeVars, poolVars
<1>29. QED
  BY <1>2, <1>3, <1>4, <1>5, <1>6, <1>7, <1>8, <1>9, <1>10, <1>11, <1>12, <1>13, <1>14, <1>15, <1>16,
      <1>17, <1>18, <1>19, <1>20, <1>21, <1>22, <1>23, <1>24, <1>25, <1>26, <1>27, <1>28 DEF Next,
      Begins, Goes, Uses, Keepalives, Ends

\* Types of the pools on their way out.
LEMMA EndTypesPreserved == ASSUME IInv, Next PROVE EndTypes'
<1>1. EndTypes /\ TableTypes /\ TaskTypes /\ LocalsFollowControl
  BY TypeGroups DEF IInv
<1>2. ASSUME NEW t \in Tasks, NEW k \in Keys,
             Open(t, k) \/ Connect(t, k) \/ Remove(t, k) \/ Reconnect(t, k) \/ DropCleanupGuard(t, k) \/
                 Use(t, k)
      PROVE  EndTypes'
  BY <1>2, <1>1 DEF EndTypes, TableTypes, TaskTypes, LocalsFollowControl, HandlePc, OwnPc, Pools, None,
      Open, tableVars, endVars, runtimeVars, poolVars, Connect, Remove, Reconnect, DropCleanupGuard, Use
<1>3. ASSUME NEW t \in Tasks,
             Disconnect(t) \/ CloseDatabasePool(t) \/ WaitForDrain(t) \/ CheckMisses(t) \/ Recheck(t) \/
                 Reuse(t) \/ Probe(t) \/ ProbeOk(t) \/ ProbeFindsStale(t) \/ CreateNative(t) \/ Create(t) \/
                 CreateFails(t) \/ CheckAttempt(t) \/ InsertWait(t) \/ CloseAwaited(t) \/ Verify(t) \/
                 SlotsExhausted(t) \/ NothingReclaimed(t) \/ StopKeepalive(t) \/ Take(t) \/ TakeRefused(t)
                 \/ CloneForKeepalive(t) \/ RestartKeepalive(t) \/ Restore(t) \/ ReleaseDrain(t) \/
                 EndUse(t)
      PROVE  EndTypes'
  BY <1>3, <1>1 DEF EndTypes, TableTypes, TaskTypes, LocalsFollowControl, HandlePc, OwnPc, Pools, None,
      Disconnect, endVars, runtimeVars, poolVars, CloseDatabasePool, WaitForDrain, tableVars, tableAndPools,
      CheckMisses, Recheck, Reuse, Probe, ProbeOk, ProbeFindsStale, CreateNative, Create, CreateFails,
      CheckAttempt, InsertWait, CloseAwaited, Verify, SlotsExhausted, NothingReclaimed, StopKeepalive, Take,
      TakeRefused, CloneForKeepalive, RestartKeepalive, Restore, ReleaseDrain, EndUse, AfterList
<1>4. ASSUME NEW l \in late,
             KeepaliveAborted(l)
      PROVE  EndTypes'
  BY <1>4, <1>1 DEF EndTypes, TableTypes, TaskTypes, LocalsFollowControl, HandlePc, OwnPc, Pools, None,
      KeepaliveAborted, endVars, runtimeVars, poolVars, taskVars
<1>5. ASSUME NEW t \in Tasks, NEW k \in Keys, NEW replace \in BOOLEAN,
             CallDetachByKey(t, k, replace)
      PROVE  EndTypes'
  <2>1. Detaches
    BY <1>5, DetachActions
  <2>2. QED
    BY <2>1, <1>5, <1>1 DEF EndTypes, TableTypes, TaskTypes, LocalsFollowControl, HandlePc, OwnPc, Pools,
        None, CallDetachByKey, At, Calls, runtimeVars, poolVars, Detaches
<1>6. ASSUME NEW t \in Tasks,
             CleanupDetaches(t) \/ CreateReplaces(t) \/ InsertRejected(t) \/ Unroute(t) \/
                 ReclaimReplaces(t)
      PROVE  EndTypes'
  <2>1. Detaches
    BY <1>6, DetachActions
  <2>2. QED
    BY <2>1, <1>6, <1>1 DEF EndTypes, TableTypes, TaskTypes, LocalsFollowControl, HandlePc, OwnPc, Pools,
        None, CleanupDetaches, At, GoTo, runtimeVars, poolVars, CreateReplaces, Current, Fault,
        InsertRejected, Unroute, Target, AfterInsert, ReclaimReplaces, Detaches
<1>7. ASSUME NEW t \in Tasks, ReclaimCloses(t) PROVE EndTypes'
  BY <1>7, <1>1 DEF EndTypes, TableTypes, TaskTypes, LocalsFollowControl, HandlePc, OwnPc, Pools, None,
      ReclaimCloses, At, GoTo, tableVars, runtimeVars, poolVars
<1>8. ASSUME NEW t \in Tasks, NEW k \in Base, BeginDrain(t, k) PROVE EndTypes'
  BY <1>8, <1>1 DEF EndTypes, TableTypes, TaskTypes, LocalsFollowControl, HandlePc, OwnPc, Pools, None,
      BeginDrain, At, GoTo, endVars, runtimeVars, poolVars
<1>9. ASSUME NEW t \in Tasks, NEW replace \in BOOLEAN,
             ProbeFails(t, replace) \/ UseFails(t, replace)
      PROVE  EndTypes'
  <2>1. Detaches
    BY <1>9, DetachActions
  <2>2. QED
    BY <2>1, <1>9, <1>1 DEF EndTypes, TableTypes, TaskTypes, LocalsFollowControl, HandlePc, OwnPc, Pools,
        None, ProbeFails, At, GoTo, Fault, poolVars, UseFails, Routed, runtimeVars, Detaches
<1>10. ASSUME NEW k \in Keys, NEW replace \in BOOLEAN, PingFails(k, replace) PROVE EndTypes'
  BY <1>10, <1>1 DEF EndTypes, TableTypes, TaskTypes, LocalsFollowControl, HandlePc, OwnPc, Pools, None,
      PingFails, Fault, endVars, runtimeVars, poolVars, taskVars
<1>11. ASSUME NEW l \in late, KeepaliveDetaches(l) PROVE EndTypes'
  <2>1. Detaches
    BY <1>11, DetachActions
  <2>2. QED
    BY <2>1, <1>11, <1>1 DEF EndTypes, TableTypes, TaskTypes, LocalsFollowControl, HandlePc, OwnPc, Pools,
        None, KeepaliveDetaches, Routed, runtimeVars, poolVars, taskVars, Detaches
<1>12. ASSUME NEW p \in Pools, Close(p) PROVE EndTypes'
  BY <1>12, <1>1 DEF EndTypes, TableTypes, TaskTypes, LocalsFollowControl, HandlePc, OwnPc, Pools, None,
      Close, tableVars, runtimeVars, poolVars, taskVars
<1>13. ASSUME NEW t \in Tasks, RemoveRoutes(t) PROVE EndTypes'
  <2>1. \A j \in Keys \cap Routed : route[j] \in Pools
    BY <1>1 DEF TableTypes, Routed
  <2>2. todo[t] \subseteq Keys
    BY <1>1 DEF TaskTypes
  <2>3. closing' \subseteq Pools
    BY <1>13, <1>1, <2>1, <2>2 DEF EndTypes, RemoveRoutes
  <2>4. QED
    BY <1>13, <1>1, <2>3 DEF EndTypes, RemoveRoutes
<1>14. ASSUME NEW t \in Tasks, RemoveStale(t) PROVE EndTypes'
  BY <1>14, <1>1 DEF EndTypes, TableTypes, TaskTypes, LocalsFollowControl, HandlePc, OwnPc, Pools, None,
      RemoveStale, At, GoTo, runtimeVars, poolVars
<1>15. ASSUME NEW t \in Tasks, Discard(t) PROVE EndTypes'
  BY <1>15, <1>1 DEF EndTypes, TableTypes, TaskTypes, LocalsFollowControl, HandlePc, OwnPc, Pools, None,
      Discard, At, GoTo, tableVars, runtimeVars, poolVars
<1>16. ASSUME NEW t \in Tasks, Insert(t) PROVE EndTypes'
  BY <1>16, <1>1, ConnectionPoolsAssumption DEF EndTypes, TableTypes, TaskTypes, LocalsFollowControl,
      HandlePc, OwnPc, Pools, None, Insert, At, GoTo, Target, runtimeVars, poolVars, Group
<1>17. ASSUME NEW t \in Tasks, RestoreWithoutConfig(t) PROVE EndTypes'
  BY <1>17, <1>1, ConnectionPoolsAssumption DEF EndTypes, TableTypes, TaskTypes, LocalsFollowControl,
      HandlePc, OwnPc, Pools, None, RestoreWithoutConfig, At, GoTo, runtimeVars, poolVars, Group
<1>18. ASSUME NEW t \in Tasks, Dropped(t) PROVE EndTypes'
  <2>1. \A g \in detached : PoolsOf(g) \subseteq Pools
    BY <1>1 DEF EndTypes, Group, PoolsOf
  <2>2. UNION {PoolsOf(g) : g \in AwaitedBy(t)} \subseteq Pools
    BY <2>1 DEF AwaitedBy
  <2>3. pc[t] \in OwnPc => pool[t] \in Pools
    BY <1>1 DEF TaskTypes, LocalsFollowControl, HandlePc
  <2>4. QED
    BY <1>18, <1>1, <2>2, <2>3 DEF EndTypes, Dropped
<1>19. ASSUME NEW g \in detached, FinishDetach(g) PROVE EndTypes'
  BY <1>19, <1>1, ConnectionPoolsAssumption DEF EndTypes, TableTypes, TaskTypes, LocalsFollowControl,
      HandlePc, OwnPc, Pools, None, FinishDetach, PoolsOf, KeysOf, runtimeVars, poolVars, taskVars, Group
<1>20. ASSUME NEW g \in detached, FinishDetachAborted(g) PROVE EndTypes'
  BY <1>20, <1>1, ConnectionPoolsAssumption DEF EndTypes, TableTypes, TaskTypes, LocalsFollowControl,
      HandlePc, OwnPc, Pools, None, FinishDetachAborted, PoolsOf, KeysOf, runtimeVars, poolVars, taskVars,
      Group
<1>21. ASSUME NEW p \in Pools, CloseReplaces(p) PROVE EndTypes'
  <2>1. Detaches
    BY <1>21, DetachActions
  <2>2. QED
    BY <2>1, <1>21, <1>1, ConnectionPoolsAssumption DEF EndTypes, TableTypes, TaskTypes,
        LocalsFollowControl, HandlePc, OwnPc, Pools, None, CloseReplaces, Fault, poolVars, taskVars, Group,
        Detaches
<1>22. ASSUME RuntimeDies PROVE EndTypes'
  BY <1>22, <1>1 DEF EndTypes, TableTypes, TaskTypes, LocalsFollowControl, HandlePc, OwnPc, Pools, None,
      RuntimeDies, tableVars, endVars, poolVars, taskVars
<1>23. ASSUME NEW t \in Tasks, NEW k \in Keys, ReconnectForwarded(t, k) PROVE EndTypes'
  BY <1>23, <1>1 DEF EndTypes, ReconnectForwarded, At, Calls, tableVars, endVars, runtimeVars, poolVars
<1>24. ASSUME NEW t \in Tasks, ReadKeys(t) PROVE EndTypes'
  BY <1>24, <1>1 DEF EndTypes, ReadKeys, Routed, At, GoTo, tableVars, endVars, runtimeVars, poolVars
<1>25. ASSUME NEW t \in Tasks, StopKeepalives(t) PROVE EndTypes'
  BY <1>25, <1>1 DEF EndTypes, StopKeepalives, At, GoTo, endVars, runtimeVars, poolVars
<1>26. ASSUME NEW t \in Tasks, RemoveAll(t) PROVE EndTypes'
  <2>1. Detaches
    BY <1>26, DetachActions
  <2>2. QED
    BY <2>1, <1>26, <1>1 DEF EndTypes, RemoveAll, AfterList, At, GoTo, runtimeVars, poolVars, Detaches
<1>27. ASSUME NEW t \in Tasks, CloseNext(t) PROVE EndTypes'
  <2>1. PICK p \in Pools : pool' = [pool EXCEPT ![t] = p] /\ closing' = closing \cup {p} /\ detached' \subseteq Group
    BY <1>27, ClosesNext
  <2>2. QED
    BY <2>1, <1>27, <1>1 DEF EndTypes, CloseNext, GoTo, tableVars, runtimeVars, poolVars
<1>28. QED
  BY <1>2, <1>3, <1>4, <1>5, <1>6, <1>7, <1>8, <1>9, <1>10, <1>11, <1>12, <1>13, <1>14, <1>15, <1>16,
      <1>17, <1>18, <1>19, <1>20, <1>21, <1>22, <1>23, <1>24, <1>25, <1>26, <1>27 DEF Next, Begins,
      Goes, Uses, Keepalives, Ends

\* Types of the runtimes.
LEMMA RuntimeTypesPreserved == ASSUME IInv, Next PROVE RuntimeTypes'
<1>1. RuntimeTypes
  BY TypeGroups DEF IInv
<1>2. ASSUME NEW t \in Tasks, NEW k \in Keys,
             Open(t, k) \/ Connect(t, k) \/ Remove(t, k) \/ Reconnect(t, k) \/ DropCleanupGuard(t, k) \/
                 Use(t, k)
      PROVE  RuntimeTypes'
  BY <1>2, <1>1 DEF RuntimeTypes, Open, tableVars, endVars, runtimeVars, poolVars, Connect, Remove,
      Reconnect, DropCleanupGuard, Use
<1>3. ASSUME NEW t \in Tasks,
             Disconnect(t) \/ CloseDatabasePool(t) \/ RemoveRoutes(t) \/ WaitForDrain(t) \/ CheckMisses(t)
                 \/ Recheck(t) \/ Reuse(t) \/ Probe(t) \/ ProbeOk(t) \/ ProbeFindsStale(t) \/ RemoveStale(t)
                 \/ CreateFails(t) \/ CheckAttempt(t) \/ Discard(t) \/ InsertWait(t) \/ Insert(t) \/
                 CloseAwaited(t) \/ Verify(t) \/ SlotsExhausted(t) \/ NothingReclaimed(t) \/
                 StopKeepalive(t) \/ Take(t) \/ TakeRefused(t) \/ CloneForKeepalive(t) \/
                 RestartKeepalive(t) \/ ReclaimCloses(t) \/ Restore(t) \/ RestoreWithoutConfig(t) \/
                 ReleaseDrain(t) \/ EndUse(t) \/ Dropped(t)
      PROVE  RuntimeTypes'
  BY <1>3, <1>1 DEF RuntimeTypes, Disconnect, endVars, runtimeVars, poolVars, CloseDatabasePool,
      RemoveRoutes, WaitForDrain, tableVars, tableAndPools, CheckMisses, Recheck, Reuse, Probe, ProbeOk,
      ProbeFindsStale, RemoveStale, CreateFails, CheckAttempt, Discard, InsertWait, Insert, CloseAwaited,
      Verify, SlotsExhausted, NothingReclaimed, StopKeepalive, Take, TakeRefused, CloneForKeepalive,
      RestartKeepalive, ReclaimCloses, Restore, RestoreWithoutConfig, ReleaseDrain, EndUse, Dropped, AfterList
<1>4. ASSUME NEW l \in late,
             KeepaliveAborted(l)
      PROVE  RuntimeTypes'
  BY <1>4, <1>1 DEF RuntimeTypes, KeepaliveAborted, endVars, runtimeVars, poolVars, taskVars
<1>5. ASSUME NEW g \in detached,
             FinishDetach(g) \/ FinishDetachAborted(g)
      PROVE  RuntimeTypes'
  BY <1>5, <1>1 DEF RuntimeTypes, FinishDetach, runtimeVars, poolVars, taskVars, FinishDetachAborted
<1>6. ASSUME NEW p \in Pools,
             Close(p)
      PROVE  RuntimeTypes'
  BY <1>6, <1>1 DEF RuntimeTypes, Close, tableVars, runtimeVars, poolVars, taskVars
<1>7. ASSUME NEW t \in Tasks, NEW k \in Keys, NEW replace \in BOOLEAN,
             CallDetachByKey(t, k, replace)
      PROVE  RuntimeTypes'
  <2>1. Detaches
    BY <1>7, DetachActions
  <2>2. QED
    BY <2>1, <1>7, <1>1 DEF RuntimeTypes, CallDetachByKey, At, Calls, runtimeVars, poolVars, Detaches
<1>8. ASSUME NEW t \in Tasks,
             CleanupDetaches(t) \/ CreateReplaces(t) \/ InsertRejected(t) \/ Unroute(t) \/
                 ReclaimReplaces(t)
      PROVE  RuntimeTypes'
  <2>1. Detaches
    BY <1>8, DetachActions
  <2>2. QED
    BY <2>1, <1>8, <1>1 DEF RuntimeTypes, CleanupDetaches, At, GoTo, runtimeVars, poolVars, CreateReplaces,
        Current, Fault, InsertRejected, Unroute, Target, AfterInsert, ReclaimReplaces, Detaches
<1>9. ASSUME NEW t \in Tasks, NEW k \in Base, BeginDrain(t, k) PROVE RuntimeTypes'
  BY <1>9, <1>1 DEF RuntimeTypes, BeginDrain, At, GoTo, endVars, runtimeVars, poolVars
<1>10. ASSUME NEW t \in Tasks, NEW replace \in BOOLEAN,
             ProbeFails(t, replace) \/ UseFails(t, replace)
      PROVE  RuntimeTypes'
  <2>1. Detaches
    BY <1>10, DetachActions
  <2>2. QED
    BY <2>1, <1>10, <1>1 DEF RuntimeTypes, ProbeFails, At, GoTo, Fault, poolVars, UseFails, Routed,
        runtimeVars, Detaches
<1>11. ASSUME NEW k \in Keys, NEW replace \in BOOLEAN, PingFails(k, replace) PROVE RuntimeTypes'
  BY <1>11, <1>1 DEF RuntimeTypes, PingFails, Fault, endVars, runtimeVars, poolVars, taskVars
<1>12. ASSUME NEW l \in late, KeepaliveDetaches(l) PROVE RuntimeTypes'
  <2>1. Detaches
    BY <1>12, DetachActions
  <2>2. QED
    BY <2>1, <1>12, <1>1 DEF RuntimeTypes, KeepaliveDetaches, Routed, runtimeVars, poolVars, taskVars,
        Detaches
<1>13. ASSUME NEW p \in Pools, CloseReplaces(p) PROVE RuntimeTypes'
  <2>1. Detaches
    BY <1>13, DetachActions
  <2>2. QED
    BY <2>1, <1>13, <1>1 DEF RuntimeTypes, CloseReplaces, Fault, poolVars, taskVars, Detaches
<1>14. ASSUME NEW t \in Tasks, CreateNative(t) PROVE RuntimeTypes'
  BY <1>14, <1>1, ConnectionPoolsAssumption DEF RuntimeTypes, CreateNative, At, GoTo, Current, tableVars,
      endVars, runtimeVars, Pools, Runtimes, None
<1>15. ASSUME NEW t \in Tasks, Create(t) PROVE RuntimeTypes'
  BY <1>15, <1>1, ConnectionPoolsAssumption DEF RuntimeTypes, Create, At, GoTo, Current, Takes, tableVars,
      endVars, Pools, Runtimes, None
<1>16. ASSUME RuntimeDies PROVE RuntimeTypes'
  BY <1>16, <1>1, ConnectionPoolsAssumption DEF RuntimeTypes, RuntimeDies, Fault, tableVars, endVars,
      poolVars, taskVars, Pools, Runtimes, None
<1>17. ASSUME NEW t \in Tasks, NEW k \in Keys, ReconnectForwarded(t, k) PROVE RuntimeTypes'
  BY <1>17, <1>1 DEF RuntimeTypes, ReconnectForwarded, At, Calls, tableVars, endVars, runtimeVars,
      poolVars
<1>18. ASSUME NEW t \in Tasks, ReadKeys(t) PROVE RuntimeTypes'
  BY <1>18, <1>1 DEF RuntimeTypes, ReadKeys, Routed, At, GoTo, tableVars, endVars, runtimeVars, poolVars
<1>19. ASSUME NEW t \in Tasks, StopKeepalives(t) PROVE RuntimeTypes'
  BY <1>19, <1>1 DEF RuntimeTypes, StopKeepalives, At, GoTo, endVars, runtimeVars, poolVars
<1>20. ASSUME NEW t \in Tasks, RemoveAll(t) PROVE RuntimeTypes'
  <2>1. Detaches
    BY <1>20, DetachActions
  <2>2. QED
    BY <2>1, <1>20, <1>1 DEF RuntimeTypes, RemoveAll, AfterList, At, GoTo, runtimeVars, poolVars,
        Detaches
<1>21. ASSUME NEW t \in Tasks, CloseNext(t) PROVE RuntimeTypes'
  <2>1. PICK p \in Pools : pool' = [pool EXCEPT ![t] = p] /\ closing' = closing \cup {p} /\ detached' \subseteq Group
    BY <1>21, ClosesNext
  <2>2. QED
    BY <2>1, <1>21, <1>1 DEF RuntimeTypes, CloseNext, GoTo, tableVars, runtimeVars, poolVars
<1>22. QED
  BY <1>2, <1>3, <1>4, <1>5, <1>6, <1>7, <1>8, <1>9, <1>10, <1>11, <1>12, <1>13, <1>14, <1>15, <1>16,
      <1>17, <1>18, <1>19, <1>20, <1>21 DEF Next, Begins, Goes, Uses, Keepalives, Ends

\* Types of attempts and bounds.
LEMMA CallTypesPreserved == ASSUME IInv, Next PROVE CallTypes'
<1>1. CallTypes /\ AttemptsAreCalls
  BY TypeGroups DEF IInv
<1>2. MaxOps \in Nat /\ MaxFaults \in Nat
  BY ConnectionPoolsAssumption
<1>3. ASSUME NEW l \in late,
             KeepaliveDetaches(l) \/ KeepaliveAborted(l)
      PROVE  CallTypes'
  BY <1>3, <1>1, <1>2 DEF CallTypes, AttemptsAreCalls, None, KeepaliveDetaches, runtimeVars, poolVars,
      taskVars, KeepaliveAborted, endVars
<1>4. ASSUME NEW g \in detached,
             FinishDetach(g) \/ FinishDetachAborted(g)
      PROVE  CallTypes'
  BY <1>4, <1>1, <1>2 DEF CallTypes, AttemptsAreCalls, None, FinishDetach, runtimeVars, poolVars, taskVars,
      FinishDetachAborted
<1>5. ASSUME NEW p \in Pools,
             Close(p)
      PROVE  CallTypes'
  BY <1>5, <1>1, <1>2 DEF CallTypes, AttemptsAreCalls, None, Close, tableVars, runtimeVars, poolVars,
      taskVars
<1>6. ASSUME NEW t \in Tasks, NEW k \in Keys,
             Open(t, k) \/ Remove(t, k) \/ Reconnect(t, k) \/ DropCleanupGuard(t, k) \/ Use(t, k)
      PROVE  CallTypes'
  BY <1>6, <1>1, <1>2 DEF CallTypes, AttemptsAreCalls, None, Open, At, Calls, tableVars, endVars,
      runtimeVars, poolVars, Remove, Reconnect, DropCleanupGuard, Use
<1>7. ASSUME NEW t \in Tasks, NEW k \in Keys, Connect(t, k) PROVE CallTypes'
  BY <1>7, <1>1, <1>2 DEF CallTypes, AttemptsAreCalls, None, Connect, At, Calls, Routed, endVars,
      runtimeVars, poolVars, tableVars
<1>8. ASSUME NEW t \in Tasks, NEW k \in Keys, NEW replace \in BOOLEAN,
             CallDetachByKey(t, k, replace)
      PROVE  CallTypes'
  BY <1>8, <1>1, <1>2 DEF CallTypes, AttemptsAreCalls, None, CallDetachByKey, At, Calls, runtimeVars,
      poolVars
<1>9. ASSUME NEW t \in Tasks, Disconnect(t) PROVE CallTypes'
  BY <1>9, <1>1, <1>2 DEF CallTypes, AttemptsAreCalls, None, Disconnect, At, Calls, Routed, endVars,
      runtimeVars, poolVars, tableVars
<1>10. ASSUME NEW t \in Tasks, CloseDatabasePool(t) PROVE CallTypes'
  BY <1>10, <1>1, <1>2 DEF CallTypes, AttemptsAreCalls, None, CloseDatabasePool, At, Calls, Routed, endVars,
      runtimeVars, poolVars, tableVars
<1>11. ASSUME NEW t \in Tasks,
             Probe(t) \/ ProbeOk(t) \/ RemoveStale(t) \/ CreateFails(t) \/ CheckAttempt(t) \/ Discard(t)
      PROVE  CallTypes'
  BY <1>11, <1>1, <1>2 DEF CallTypes, AttemptsAreCalls, None, Probe, At, GoTo, tableVars, endVars,
      runtimeVars, poolVars, tableAndPools, ProbeOk, RemoveStale, CreateFails, CheckAttempt, Current,
      Discard
<1>12. ASSUME NEW t \in Tasks,
             SlotsExhausted(t) \/ NothingReclaimed(t) \/ StopKeepalive(t) \/ Take(t) \/ TakeRefused(t) \/
                 CloneForKeepalive(t)
      PROVE  CallTypes'
  BY <1>12, <1>1, <1>2 DEF CallTypes, AttemptsAreCalls, None, SlotsExhausted, At, GoTo, Routed, Current,
      tableVars, endVars, runtimeVars, poolVars, tableAndPools, NothingReclaimed, StopKeepalive, Take,
      InUse, TakeRefused, CloneForKeepalive
<1>13. ASSUME NEW t \in Tasks,
             RestartKeepalive(t) \/ ReclaimCloses(t) \/ Restore(t) \/ RestoreWithoutConfig(t) \/
                 ReleaseDrain(t) \/ EndUse(t)
      PROVE  CallTypes'
  BY <1>13, <1>1, <1>2 DEF CallTypes, AttemptsAreCalls, None, RestartKeepalive, At, GoTo, endVars,
      runtimeVars, poolVars, ReclaimCloses, tableVars, Restore, tableAndPools, RestoreWithoutConfig,
      ReleaseDrain, EndUse
<1>14. ASSUME NEW t \in Tasks,
             ProbeFindsStale(t) \/ CreateReplaces(t) \/ ReclaimReplaces(t) \/ Dropped(t)
      PROVE  CallTypes'
  BY <1>14, <1>1, <1>2 DEF CallTypes, AttemptsAreCalls, None, ProbeFindsStale, At, GoTo, Fault, endVars,
      runtimeVars, poolVars, CreateReplaces, Current, ReclaimReplaces, Dropped, PoolsOf, AwaitedBy, OwnPc,
      ClosePc
<1>15. ASSUME NEW t \in Tasks, NEW k \in Base, BeginDrain(t, k) PROVE CallTypes'
  BY <1>15, <1>1, <1>2 DEF CallTypes, AttemptsAreCalls, None, BeginDrain, At, GoTo, endVars, runtimeVars,
      poolVars
<1>16. ASSUME NEW t \in Tasks, NEW replace \in BOOLEAN,
             ProbeFails(t, replace) \/ UseFails(t, replace)
      PROVE  CallTypes'
  BY <1>16, <1>1, <1>2 DEF CallTypes, AttemptsAreCalls, None, ProbeFails, At, GoTo, Fault, poolVars,
      UseFails, Routed, runtimeVars
<1>17. ASSUME NEW k \in Keys, NEW replace \in BOOLEAN, PingFails(k, replace) PROVE CallTypes'
  BY <1>17, <1>1, <1>2 DEF CallTypes, AttemptsAreCalls, None, PingFails, Fault, endVars, runtimeVars,
      poolVars, taskVars
<1>18. ASSUME NEW p \in Pools, CloseReplaces(p) PROVE CallTypes'
  BY <1>18, <1>1, <1>2 DEF CallTypes, AttemptsAreCalls, None, CloseReplaces, Fault, poolVars, taskVars
<1>19. ASSUME NEW t \in Tasks, RemoveRoutes(t) PROVE CallTypes'
  BY <1>19, <1>1, <1>2 DEF CallTypes, AttemptsAreCalls, None, RemoveRoutes, At, GoTo, Routed, runtimeVars,
      poolVars
<1>20. ASSUME NEW t \in Tasks, CleanupDetaches(t) PROVE CallTypes'
  BY <1>20, <1>1, <1>2 DEF CallTypes, AttemptsAreCalls, None, CleanupDetaches, At, GoTo, runtimeVars,
      poolVars
<1>21. ASSUME NEW t \in Tasks, WaitForDrain(t) PROVE CallTypes'
  BY <1>21, <1>1, <1>2 DEF CallTypes, AttemptsAreCalls, None, WaitForDrain, At, GoTo, tableVars, endVars,
      runtimeVars, poolVars, tableAndPools
<1>22. ASSUME NEW t \in Tasks, CheckMisses(t) PROVE CallTypes'
  BY <1>22, <1>1, <1>2 DEF CallTypes, AttemptsAreCalls, None, CheckMisses, At, GoTo, tableVars, endVars,
      runtimeVars, poolVars, tableAndPools
<1>23. ASSUME NEW t \in Tasks, Recheck(t) PROVE CallTypes'
  BY <1>23, <1>1, <1>2 DEF CallTypes, AttemptsAreCalls, None, Recheck, At, GoTo, tableVars, endVars,
      runtimeVars, poolVars, tableAndPools
<1>24. ASSUME NEW t \in Tasks, Reuse(t) PROVE CallTypes'
  BY <1>24, <1>1, <1>2 DEF CallTypes, AttemptsAreCalls, None, Reuse, At, GoTo, tableVars, endVars,
      runtimeVars, poolVars, tableAndPools
<1>25. ASSUME NEW t \in Tasks, CreateNative(t) PROVE CallTypes'
  BY <1>25, <1>1, <1>2, ConnectionPoolsAssumption DEF CallTypes, AttemptsAreCalls, None, CreateNative, At,
      GoTo, Current, tableVars, endVars, runtimeVars, Pools
<1>26. ASSUME NEW t \in Tasks, Create(t) PROVE CallTypes'
  BY <1>26, <1>1, <1>2, ConnectionPoolsAssumption DEF CallTypes, AttemptsAreCalls, None, Create, At, GoTo,
      Current, Takes, tableVars, endVars, Pools
<1>27. ASSUME NEW t \in Tasks, InsertWait(t) PROVE CallTypes'
  BY <1>27, <1>1, <1>2 DEF CallTypes, AttemptsAreCalls, None, InsertWait, At, GoTo, Target, tableVars,
      endVars, runtimeVars, poolVars, tableAndPools
<1>28. ASSUME NEW t \in Tasks, Insert(t) PROVE CallTypes'
  BY <1>28, <1>1, <1>2 DEF CallTypes, AttemptsAreCalls, None, Insert, At, GoTo, Target, runtimeVars,
      poolVars
<1>29. ASSUME NEW t \in Tasks, InsertRejected(t) PROVE CallTypes'
  BY <1>29, <1>1, <1>2 DEF CallTypes, AttemptsAreCalls, None, InsertRejected, At, GoTo, poolVars
<1>30. ASSUME NEW t \in Tasks, CloseAwaited(t) PROVE CallTypes'
  BY <1>30, <1>1, <1>2 DEF CallTypes, AttemptsAreCalls, None, CloseAwaited, GoTo, AfterInsert, ClosePc,
      Closed, tableVars, endVars, runtimeVars, poolVars, tableAndPools, AfterList
<1>31. ASSUME NEW t \in Tasks, Verify(t) PROVE CallTypes'
  BY <1>31, <1>1, <1>2 DEF CallTypes, AttemptsAreCalls, None, Verify, At, GoTo, Target, AfterInsert,
      tableVars, endVars, runtimeVars, poolVars, tableAndPools
<1>32. ASSUME NEW t \in Tasks, Unroute(t) PROVE CallTypes'
  BY <1>32, <1>1, <1>2 DEF CallTypes, AttemptsAreCalls, None, Unroute, At, GoTo, Target, AfterInsert,
      runtimeVars, poolVars
<1>33. ASSUME RuntimeDies PROVE CallTypes'
  BY <1>33, <1>1, <1>2 DEF CallTypes, AttemptsAreCalls, None, RuntimeDies, Fault, tableVars, endVars,
      poolVars, taskVars
<1>34. ASSUME NEW t \in Tasks, NEW k \in Keys, ReconnectForwarded(t, k) PROVE CallTypes'
  BY <1>34, <1>1, <1>2 DEF CallTypes, AttemptsAreCalls, None, ReconnectForwarded, At, Calls, tableVars,
      endVars, runtimeVars, poolVars
<1>35. ASSUME NEW t \in Tasks, ReadKeys(t) PROVE CallTypes'
  BY <1>35, <1>1, <1>2 DEF CallTypes, AttemptsAreCalls, None, ReadKeys, Routed, At, GoTo, tableVars,
      endVars, runtimeVars, poolVars
<1>36. ASSUME NEW t \in Tasks, StopKeepalives(t) PROVE CallTypes'
  BY <1>36, <1>1, <1>2 DEF CallTypes, AttemptsAreCalls, None, StopKeepalives, At, GoTo, endVars,
      runtimeVars, poolVars
<1>37. ASSUME NEW t \in Tasks, RemoveAll(t) PROVE CallTypes'
  <2>1. Detaches
    BY <1>37, DetachActions
  <2>2. QED
    BY <2>1, <1>37, <1>1, <1>2 DEF CallTypes, AttemptsAreCalls, None, RemoveAll, AfterList, At, GoTo,
        runtimeVars, poolVars, Detaches
<1>38. ASSUME NEW t \in Tasks, CloseNext(t) PROVE CallTypes'
  <2>1. PICK p \in Pools : pool' = [pool EXCEPT ![t] = p] /\ closing' = closing \cup {p} /\ detached' \subseteq Group
    BY <1>38, ClosesNext
  <2>2. QED
    BY <2>1, <1>38, <1>1, <1>2 DEF CallTypes, AttemptsAreCalls, None, CloseNext, GoTo, tableVars,
        runtimeVars, poolVars
<1>39. QED
  BY <1>3, <1>4, <1>5, <1>6, <1>7, <1>8, <1>9, <1>10, <1>11, <1>12, <1>13, <1>14, <1>15, <1>16, <1>17,
      <1>18, <1>19, <1>20, <1>21, <1>22, <1>23, <1>24, <1>25, <1>26, <1>27, <1>28, <1>29, <1>30, <1>31,
      <1>32, <1>33, <1>34, <1>35, <1>36, <1>37, <1>38 DEF Next, Begins, Goes, Uses, Keepalives, Ends

\* Types of the tasks' locals.
LEMMA TaskTypesPreserved == ASSUME IInv, Next PROVE TaskTypes'
<1>1. TaskTypes /\ TableTypes /\ RuntimeTypes /\ LocalsFollowControl
  BY TypeGroups DEF IInv
<1>2. ASSUME NEW l \in late,
             KeepaliveDetaches(l) \/ KeepaliveAborted(l)
      PROVE  TaskTypes'
  BY <1>2, <1>1 DEF TaskTypes, TaskPc, None, KeepaliveDetaches, runtimeVars, poolVars, taskVars,
      KeepaliveAborted, endVars
<1>3. ASSUME NEW g \in detached,
             FinishDetach(g) \/ FinishDetachAborted(g)
      PROVE  TaskTypes'
  BY <1>3, <1>1 DEF TaskTypes, TaskPc, None, FinishDetach, runtimeVars, poolVars, taskVars,
      FinishDetachAborted
<1>4. ASSUME NEW p \in Pools,
             Close(p) \/ CloseReplaces(p)
      PROVE  TaskTypes'
  BY <1>4, <1>1 DEF TaskTypes, TaskPc, None, Close, tableVars, runtimeVars, poolVars, taskVars,
      CloseReplaces
<1>5. ASSUME NEW t \in Tasks, NEW k \in Keys, Open(t, k) \/ DropCleanupGuard(t, k) PROVE TaskTypes'
  BY <1>5, <1>1 DEF TaskTypes, TaskPc, None, Open, At, Calls, tableVars, endVars, runtimeVars, poolVars,
      DropCleanupGuard
<1>6. ASSUME NEW t \in Tasks, NEW k \in Keys, Remove(t, k) \/ Reconnect(t, k) PROVE TaskTypes'
  BY <1>6, <1>1 DEF TaskTypes, TaskPc, None, Remove, At, Calls, endVars, runtimeVars, poolVars, Reconnect
<1>7. ASSUME NEW t \in Tasks, NEW k \in Keys, NEW replace \in BOOLEAN,
             CallDetachByKey(t, k, replace)
      PROVE  TaskTypes'
  BY <1>7, <1>1 DEF TaskTypes, TaskPc, None, CallDetachByKey, At, Calls, runtimeVars, poolVars
<1>8. ASSUME NEW t \in Tasks,
             ProbeOk(t) \/ ProbeFindsStale(t) \/ CloseAwaited(t) \/ RestartKeepalive(t) \/ ReclaimCloses(t)
                 \/ ReclaimReplaces(t)
      PROVE  TaskTypes'
  BY <1>8, <1>1 DEF TaskTypes, TaskPc, None, ProbeOk, At, GoTo, tableVars, endVars, runtimeVars, poolVars,
      tableAndPools, ProbeFindsStale, Fault, CloseAwaited, AfterInsert, ClosePc, Closed, RestartKeepalive,
      ReclaimCloses, ReclaimReplaces, AfterList
<1>9. ASSUME NEW t \in Tasks, RestoreWithoutConfig(t) \/ EndUse(t) PROVE TaskTypes'
  BY <1>9, <1>1 DEF TaskTypes, TaskPc, None, RestoreWithoutConfig, At, GoTo, runtimeVars, poolVars, EndUse,
      tableVars, endVars
<1>10. ASSUME NEW t \in Tasks,
             CreateReplaces(t) \/ CheckAttempt(t) \/ Discard(t) \/ InsertWait(t) \/ InsertRejected(t) \/
                 Verify(t)
      PROVE  TaskTypes'
  BY <1>10, <1>1 DEF TaskTypes, TaskPc, None, CreateReplaces, At, GoTo, Current, Fault, poolVars,
      CheckAttempt, tableVars, endVars, runtimeVars, tableAndPools, Discard, InsertWait, Target,
      InsertRejected, Verify, AfterInsert
<1>11. ASSUME NEW t \in Tasks, ReleaseDrain(t) PROVE TaskTypes'
  BY <1>11, <1>1 DEF TaskTypes, TaskPc, None, ReleaseDrain, At, GoTo, endVars, runtimeVars, poolVars
<1>12. ASSUME NEW t \in Tasks, Dropped(t) PROVE TaskTypes'
  BY <1>12, <1>1 DEF TaskTypes, TaskPc, None, Dropped, GoTo, PoolsOf, AwaitedBy, OwnPc, ClosePc, Fault,
      runtimeVars, poolVars
<1>13. ASSUME NEW t \in Tasks, NEW replace \in BOOLEAN,
             ProbeFails(t, replace) \/ UseFails(t, replace)
      PROVE  TaskTypes'
  BY <1>13, <1>1 DEF TaskTypes, TaskPc, None, ProbeFails, At, GoTo, Fault, poolVars, UseFails, Routed,
      runtimeVars
<1>14. ASSUME NEW k \in Keys, NEW replace \in BOOLEAN, PingFails(k, replace) PROVE TaskTypes'
  BY <1>14, <1>1 DEF TaskTypes, TaskPc, None, PingFails, Fault, endVars, runtimeVars, poolVars, taskVars
<1>15. ASSUME NEW t \in Tasks, NEW k \in Keys, Connect(t, k) PROVE TaskTypes'
  BY <1>15, <1>1 DEF TaskTypes, TaskPc, None, Connect, At, Calls, Routed, endVars, runtimeVars, poolVars,
      TableTypes, tableVars
<1>16. ASSUME NEW t \in Tasks, NEW k \in Keys, Use(t, k) PROVE TaskTypes'
  BY <1>16, <1>1 DEF TaskTypes, TaskPc, None, Use, At, Calls, tableVars, endVars, runtimeVars, poolVars,
      TableTypes
<1>17. ASSUME NEW t \in Tasks, Disconnect(t) PROVE TaskTypes'
  BY <1>17, <1>1 DEF TaskTypes, TaskPc, None, Disconnect, At, Calls, Routed, endVars, runtimeVars, poolVars,
      TableTypes, tableVars
<1>18. ASSUME NEW t \in Tasks, CloseDatabasePool(t) PROVE TaskTypes'
  BY <1>18, <1>1 DEF TaskTypes, TaskPc, None, CloseDatabasePool, At, Calls, Routed, endVars, runtimeVars,
      poolVars, TableTypes, tableVars
<1>19. ASSUME NEW t \in Tasks, RemoveRoutes(t) PROVE TaskTypes'
  BY <1>19, <1>1 DEF TaskTypes, TaskPc, None, RemoveRoutes, At, GoTo, Routed, runtimeVars, poolVars,
      TableTypes, LocalsFollowControl, HandlePc, OwnPc, Pools
<1>20. ASSUME NEW t \in Tasks, CleanupDetaches(t) PROVE TaskTypes'
  BY <1>20, <1>1 DEF TaskTypes, TaskPc, None, CleanupDetaches, At, GoTo, runtimeVars, poolVars
<1>21. ASSUME NEW t \in Tasks, WaitForDrain(t) PROVE TaskTypes'
  BY <1>21, <1>1 DEF TaskTypes, TaskPc, None, WaitForDrain, At, GoTo, tableVars, endVars, runtimeVars,
      poolVars, tableAndPools
<1>22. ASSUME NEW t \in Tasks, CheckMisses(t) PROVE TaskTypes'
  BY <1>22, <1>1 DEF TaskTypes, TaskPc, None, CheckMisses, At, GoTo, tableVars, endVars, runtimeVars,
      poolVars, tableAndPools
<1>23. ASSUME NEW t \in Tasks, Recheck(t) PROVE TaskTypes'
  BY <1>23, <1>1 DEF TaskTypes, TaskPc, None, Recheck, At, GoTo, tableVars, endVars, runtimeVars, poolVars,
      tableAndPools
<1>24. ASSUME NEW t \in Tasks, Reuse(t) PROVE TaskTypes'
  BY <1>24, <1>1 DEF TaskTypes, TaskPc, None, Reuse, At, GoTo, tableVars, endVars, runtimeVars, poolVars,
      tableAndPools
<1>25. ASSUME NEW t \in Tasks, Probe(t) PROVE TaskTypes'
  BY <1>25, <1>1 DEF TaskTypes, TaskPc, None, Probe, At, GoTo, tableVars, endVars, runtimeVars, poolVars,
      tableAndPools, TableTypes, LocalsFollowControl, HandlePc, OwnPc, Pools
<1>26. ASSUME NEW t \in Tasks, RemoveStale(t) PROVE TaskTypes'
  BY <1>26, <1>1 DEF TaskTypes, TaskPc, None, RemoveStale, At, GoTo, runtimeVars, poolVars, TableTypes,
      LocalsFollowControl, HandlePc, OwnPc, Pools
<1>27. ASSUME NEW t \in Tasks, CreateNative(t) PROVE TaskTypes'
  BY <1>27, <1>1, ConnectionPoolsAssumption DEF TaskTypes, TaskPc, None, CreateNative, At, GoTo, Current,
      tableVars, endVars, runtimeVars, RuntimeTypes, Pools
<1>28. ASSUME NEW t \in Tasks, Create(t) PROVE TaskTypes'
  BY <1>28, <1>1, ConnectionPoolsAssumption DEF TaskTypes, TaskPc, None, Create, At, GoTo, Current, Takes,
      tableVars, endVars, RuntimeTypes, Pools
<1>29. ASSUME NEW t \in Tasks, CreateFails(t) PROVE TaskTypes'
  BY <1>29, <1>1 DEF TaskTypes, TaskPc, None, CreateFails, At, GoTo, tableVars, endVars, runtimeVars,
      poolVars, tableAndPools
<1>30. ASSUME NEW t \in Tasks, Insert(t) PROVE TaskTypes'
  BY <1>30, <1>1 DEF TaskTypes, TaskPc, None, Insert, At, GoTo, Target, runtimeVars, poolVars, TableTypes,
      LocalsFollowControl, HandlePc, OwnPc, Pools
<1>31. ASSUME NEW t \in Tasks, Unroute(t) PROVE TaskTypes'
  BY <1>31, <1>1 DEF TaskTypes, TaskPc, None, Unroute, At, GoTo, Target, AfterInsert, runtimeVars, poolVars
<1>32. ASSUME NEW t \in Tasks, SlotsExhausted(t) PROVE TaskTypes'
  BY <1>32, <1>1 DEF TaskTypes, TaskPc, None, SlotsExhausted, At, GoTo, Routed, Current, tableVars, endVars,
      runtimeVars, poolVars, tableAndPools, TableTypes, LocalsFollowControl, HandlePc, OwnPc, Pools
<1>33. ASSUME NEW t \in Tasks, NothingReclaimed(t) PROVE TaskTypes'
  BY <1>33, <1>1 DEF TaskTypes, TaskPc, None, NothingReclaimed, At, GoTo, tableVars, endVars, runtimeVars,
      poolVars, tableAndPools
<1>34. ASSUME NEW t \in Tasks, StopKeepalive(t) PROVE TaskTypes'
  BY <1>34, <1>1 DEF TaskTypes, TaskPc, None, StopKeepalive, At, GoTo, endVars, runtimeVars, poolVars
<1>35. ASSUME NEW t \in Tasks, Take(t) PROVE TaskTypes'
  BY <1>35, <1>1 DEF TaskTypes, TaskPc, None, Take, At, GoTo, InUse, endVars, runtimeVars, poolVars,
      TableTypes, LocalsFollowControl, HandlePc, OwnPc, Pools
<1>36. ASSUME NEW t \in Tasks, TakeRefused(t) PROVE TaskTypes'
  BY <1>36, <1>1 DEF TaskTypes, TaskPc, None, TakeRefused, At, GoTo, tableVars, endVars, runtimeVars,
      poolVars, tableAndPools
<1>37. ASSUME NEW t \in Tasks, CloneForKeepalive(t) PROVE TaskTypes'
  BY <1>37, <1>1 DEF TaskTypes, TaskPc, None, CloneForKeepalive, At, GoTo, tableVars, endVars, runtimeVars,
      poolVars, tableAndPools, TableTypes, LocalsFollowControl, HandlePc, OwnPc, Pools
<1>38. ASSUME NEW t \in Tasks, Restore(t) PROVE TaskTypes'
  BY <1>38, <1>1 DEF TaskTypes, TaskPc, None, Restore, At, GoTo, tableVars, endVars, runtimeVars, poolVars,
      tableAndPools
<1>39. ASSUME NEW t \in Tasks, NEW k \in Base, BeginDrain(t, k) PROVE TaskTypes'
  <2>1. k \in Keys
    BY ConnectionPoolsAssumption
  <2>2. /\ todo' = [todo EXCEPT ![t] = @ \ {k}]
        /\ pool' = pool
        /\ drain' = drain \/ drain' = [drain EXCEPT ![t] = k]
        /\ pc' = pc \/ pc' = [pc EXCEPT ![t] = "stop"]
        /\ key' = key
    BY <1>39 DEF BeginDrain, GoTo
  <2>3. QED
    BY <1>1, <2>1, <2>2 DEF TaskTypes, TaskPc
<1>40. ASSUME RuntimeDies PROVE TaskTypes'
  BY <1>40, <1>1 DEF TaskTypes, TaskPc, None, RuntimeDies, tableVars, endVars, poolVars, taskVars
<1>41. ASSUME NEW t \in Tasks, NEW k \in Keys, ReconnectForwarded(t, k) PROVE TaskTypes'
  BY <1>41, <1>1 DEF TaskTypes, TaskPc, ReconnectForwarded, At, Calls, tableVars, endVars, runtimeVars,
      poolVars
<1>42. ASSUME NEW t \in Tasks, ReadKeys(t) PROVE TaskTypes'
  BY <1>42, <1>1 DEF TaskTypes, TaskPc, ReadKeys, Routed, At, GoTo, tableVars, endVars, runtimeVars,
      poolVars
<1>43. ASSUME NEW t \in Tasks, StopKeepalives(t) PROVE TaskTypes'
  BY <1>43, <1>1 DEF TaskTypes, TaskPc, StopKeepalives, At, GoTo, endVars, runtimeVars, poolVars
<1>44. ASSUME NEW t \in Tasks, RemoveAll(t) PROVE TaskTypes'
  <2>1. Detaches
    BY <1>44, DetachActions
  <2>2. QED
    BY <2>1, <1>44, <1>1 DEF TaskTypes, TaskPc, RemoveAll, AfterList, At, GoTo, runtimeVars, poolVars,
        Detaches
<1>45. ASSUME NEW t \in Tasks, CloseNext(t) PROVE TaskTypes'
  <2>1. PICK p \in Pools : pool' = [pool EXCEPT ![t] = p] /\ closing' = closing \cup {p} /\ detached' \subseteq Group
    BY <1>45, ClosesNext
  <2>2. QED
    BY <2>1, <1>45, <1>1 DEF TaskTypes, TaskPc, CloseNext, GoTo, tableVars, runtimeVars, poolVars
<1>46. QED
  BY <1>2, <1>3, <1>4, <1>5, <1>6, <1>7, <1>8, <1>9, <1>10, <1>11, <1>12, <1>13, <1>14, <1>15, <1>16,
      <1>17, <1>18, <1>19, <1>20, <1>21, <1>22, <1>23, <1>24, <1>25, <1>26, <1>27, <1>28, <1>29, <1>30,
      <1>31, <1>32, <1>33, <1>34, <1>35, <1>36, <1>37, <1>38, <1>39, <1>40, <1>41, <1>42, <1>43, <1>44,
      <1>45 DEF Next, Begins, Goes, Uses, Keepalives, Ends

-----------------------------------------------------------------------------
\* Nothing is routed, detached or drained at the start.
LEMMA InitIInv == Init => IInv
<1> SUFFICES ASSUME Init PROVE IInv
  OBVIOUS
<1> USE ConnectionPoolsAssumption DEF Init, None
<1>1. TypeOK
  BY DEF TypeOK, TaskPc, Pools, Runtimes
<1>2. LocalsFollowControl /\ Numbered /\ AgentPoolHasRuntime /\ AttemptsAreCalls
  BY DEF LocalsFollowControl, Numbered, AgentPoolHasRuntime, AttemptsAreCalls, HandlePc, OwnPc
<1>3. OwnersAreExclusive /\ DrainsAreHeld /\ ReplacedRuntimeHasNoRoute /\ ReclaimedPoolIsUnused
  BY DEF OwnersAreExclusive, OwnPc, DrainsAreHeld, ReplacedRuntimeHasNoRoute, ReclaimedPoolIsUnused
<1>4. QED
  BY <1>1, <1>2, <1>3 DEF IInv

\* Every step preserves the invariant.
LEMMA NextIInv == IInv /\ [Next]_vars => IInv'
<1>1. ASSUME IInv, Next PROVE IInv'
  <2>1. TypeOK'
    BY <1>1, TypeGroups, TableTypesPreserved, EndTypesPreserved, RuntimeTypesPreserved, CallTypesPreserved,
        TaskTypesPreserved, PTL
  <2>2. QED
    BY <1>1, <2>1, LocalsPreserved, NumberedPreserved, RuntimesPreserved, OwnersPreserved, DrainsPreserved,
        AttemptsPreserved, ReplacedPreserved, ReclaimedPreserved DEF IInv
<1>2. ASSUME IInv, UNCHANGED vars PROVE IInv'
  BY <1>2 DEF vars, tableVars, endVars, runtimeVars, poolVars, taskVars, IInv, TypeOK, LocalsFollowControl,
      Numbered, AgentPoolHasRuntime, Target, OwnersAreExclusive, DrainsAreHeld, AttemptsAreCalls,
      ReplacedRuntimeHasNoRoute, ReclaimedPoolIsUnused, InUse
<1>3. QED
  BY <1>1, <1>2

\* The invariant is inductive.
LEMMA IInvHolds == Spec => []IInv
  BY InitIInv, NextIInv, PTL DEF Spec

(***************************************************************************)
(* The routing table, the pools on their way out of it and the locals of   *)
(* all tasks keep their types (AppState of connection.rs).                 *)
(***************************************************************************)
THEOREM TypeCorrect == Spec => []TypeOK
<1>1. IInv => TypeOK
  BY DEF IInv
<1>2. QED
  BY <1>1, IInvHolds, PTL

(***************************************************************************)
(* However opens, probes, detaches, reclaims, restores and closes          *)
(* interleave, a runtime that fail_stop replaced has no route, except for  *)
(* a pool restored without its config.                                     *)
(***************************************************************************)
THEOREM ReplacedRuntimesHaveNoRoute == Spec => []ReplacedRuntimeHasNoRoute
<1>1. IInv => ReplacedRuntimeHasNoRoute
  BY DEF IInv
<1>2. QED
  BY <1>1, IInvHolds, PTL

(***************************************************************************)
(* try_reclaim_idle_agent_pool closes a session only while nobody else has *)
(* a clone of its client, for any number of tasks and keys.                *)
(***************************************************************************)
THEOREM ReclaimedPoolsAreUnused == Spec => []ReclaimedPoolIsUnused
<1>1. IInv => ReclaimedPoolIsUnused
  BY DEF IInv
<1>2. QED
  BY <1>1, IInvHolds, PTL

(***************************************************************************)
(* wait_for_pool_drain never waits for a guard that nobody holds, or whose *)
(* holder waits for a drain itself.                                        *)
(***************************************************************************)
THEOREM DrainsHaveWorkingHolders == Spec => []DrainHasWorkingHolder
<1>1. IInv => DrainHasWorkingHolder
  <2> SUFFICES ASSUME IInv, NEW k \in draining
               PROVE  \E t \in Tasks : /\ drain[t] = k
                                       /\ \A u \in Tasks \ {t} : drain[u] # k
                                       /\ pc[t] \notin {"wait", "wait2", "insertWait"}
    BY DEF DrainHasWorkingHolder
  <2>1. k # None
    BY ConnectionPoolsAssumption DEF IInv, TypeOK, None
  <2>2. PICK t \in Tasks : drain[t] = k
    BY DEF IInv, DrainsAreHeld
  <2>3. \A u \in Tasks \ {t} : drain[u] # k
    BY <2>1, <2>2 DEF IInv, DrainsAreHeld
  <2>4. pc[t] \notin {"wait", "wait2", "insertWait"}
    BY <2>1, <2>2 DEF IInv, LocalsFollowControl, DrainPc
  <2>5. QED
    BY <2>2, <2>3, <2>4
<1>2. QED
  BY <1>1, IInvHolds, PTL

-----------------------------------------------------------------------------
(* Where the pools are.                                                    *)

\* The pool that a task owns.
Own(t) == IF pc[t] \in OwnPc THEN pool[t] ELSE None

TablePools == {p \in Pools : \E k \in Keys : route[k] = p}
OwnedPools == {p \in Pools : \E t \in Tasks : Own(t) = p}
OutPools == {p \in Pools : \E g \in detached : p \in PoolsOf(g)}

\* Five sets without a common element that make up the sixth.
Divides(T, O, D, C, G, M) ==
  /\ T \cap O = {} /\ T \cap D = {} /\ T \cap C = {} /\ T \cap G = {}
  /\ O \cap D = {} /\ O \cap C = {} /\ O \cap G = {}
  /\ D \cap C = {} /\ D \cap G = {}
  /\ C \cap G = {}
  /\ T \cup O \cup D \cup C \cup G = M

\* The pools that were made are divided among the places, and a detached pool is
\* in one group.
Placement ==
  /\ Divides(TablePools, OwnedPools, OutPools, closing, gone, 1..made)
  /\ \A g, h \in detached : \A p \in Pools : p \in PoolsOf(g) /\ p \in PoolsOf(h) => g = h

\* Types that the lemmas about places use.
LEMMA PlaceTypes ==
  ASSUME IInv
  PROVE  /\ route \in [Keys -> Pools \cup {None}]
         /\ pc \in [Tasks -> TaskPc] /\ pool \in [Tasks -> Pools \cup {None}]
         /\ closing \subseteq Pools /\ gone \subseteq Pools
         /\ made \in 0..MaxPools
         /\ None \notin Pools
         /\ \A t \in Tasks : Own(t) \in Pools \cup {None}
         /\ \A t \in Tasks : pc[t] \in OwnPc => Own(t) = pool[t] /\ pool[t] \in Pools
<1>1. /\ route \in [Keys -> Pools \cup {None}]
      /\ pc \in [Tasks -> TaskPc] /\ pool \in [Tasks -> Pools \cup {None}]
      /\ closing \subseteq Pools /\ gone \subseteq Pools
      /\ made \in 0..MaxPools
  BY DEF IInv, TypeOK
<1>2. None \notin Pools
  BY DEF None, Pools
<1>3. \A t \in Tasks : pc[t] \in OwnPc => pool[t] # None
  BY DEF IInv, LocalsFollowControl, HandlePc
<1>4. QED
  BY <1>1, <1>2, <1>3 DEF Own

\* The pools of a detached group are pools.
LEMMA GroupTypes ==
  ASSUME IInv, NEW g \in detached
  PROVE  PoolsOf(g) \subseteq Pools
<1>1. g \in [by : Tasks \cup Pools \cup {None}, pairs : SUBSET (Keys \X Pools)]
  BY DEF IInv, TypeOK
<1>2. QED
  BY <1>1 DEF PoolsOf

\* One task gives up the pool it owns, and perhaps gets another.
LEMMA OwnedChange ==
  ASSUME IInv, NEW t \in Tasks, \A u \in Tasks \ {t} : Own(u)' = Own(u), Own(t)' \in Pools \cup {None}
  PROVE  OwnedPools' = (OwnedPools \ {Own(t)}) \cup ({Own(t)'} \ {None})
<1>1. ASSUME NEW u \in Tasks, u # t, Own(u) # None PROVE Own(u) # Own(t)
  BY <1>1 DEF IInv, OwnersAreExclusive, Own
<1>2. None \notin Pools
  BY PlaceTypes
<1>3. ASSUME NEW p \in OwnedPools' PROVE p \in (OwnedPools \ {Own(t)}) \cup ({Own(t)'} \ {None})
  <2>1. PICK u \in Tasks : Own(u)' = p
    BY DEF OwnedPools
  <2>2. p \in Pools
    BY DEF OwnedPools
  <2>3. QED
    BY <1>1, <1>2, <2>1, <2>2 DEF OwnedPools
<1>4. ASSUME NEW p \in (OwnedPools \ {Own(t)}) \cup ({Own(t)'} \ {None}) PROVE p \in OwnedPools'
  <2>1. CASE p \in OwnedPools \ {Own(t)}
    <3>1. PICK u \in Tasks : Own(u) = p
      BY <2>1 DEF OwnedPools
    <3>2. QED
      BY <2>1, <3>1 DEF OwnedPools
  <2>2. CASE p \in {Own(t)'} \ {None}
    BY <2>2 DEF OwnedPools
  <2>3. QED
    BY <1>4, <2>1, <2>2
<1>5. QED
  BY <1>3, <1>4

\* No task gives up or gets a pool.
LEMMA OwnedSame ==
  ASSUME \A u \in Tasks : Own(u)' = Own(u)
  PROVE  OwnedPools' = OwnedPools
  BY DEF OwnedPools

\* One key gets another pool, or none.
LEMMA TableChange ==
  ASSUME IInv, NEW k \in Keys, NEW q \in Pools \cup {None}, route' = [route EXCEPT ![k] = q]
  PROVE  TablePools' = (TablePools \ {route[k]}) \cup ({q} \ {None})
<1>1. route \in [Keys -> Pools \cup {None}] /\ None \notin Pools
  BY PlaceTypes
<1>2. \A j \in Keys : j # k /\ route[j] # None => route[j] # route[k]
  BY DEF IInv, OwnersAreExclusive
<1>3. route'[k] = q /\ \A j \in Keys : j # k => route'[j] = route[j]
  BY <1>1
<1>4. ASSUME NEW p \in TablePools' PROVE p \in (TablePools \ {route[k]}) \cup ({q} \ {None})
  <2>1. PICK j \in Keys : route'[j] = p
    BY DEF TablePools
  <2>2. p \in Pools
    BY DEF TablePools
  <2>3. QED
    BY <1>1, <1>2, <1>3, <2>1, <2>2 DEF TablePools
<1>5. ASSUME NEW p \in (TablePools \ {route[k]}) \cup ({q} \ {None}) PROVE p \in TablePools'
  <2>1. CASE p \in TablePools \ {route[k]}
    <3>1. PICK j \in Keys : route[j] = p
      BY <2>1 DEF TablePools
    <3>2. QED
      BY <1>3, <2>1, <3>1 DEF TablePools
  <2>2. CASE p \in {q} \ {None}
    BY <1>3, <2>2 DEF TablePools
  <2>3. QED
    BY <1>5, <2>1, <2>2
<1>6. QED
  BY <1>4, <1>5

\* The keys of K lose their pools.
LEMMA TableLoses ==
  ASSUME IInv, NEW K \in SUBSET Keys, route' = [k \in Keys |-> IF k \in K THEN None ELSE route[k]]
  PROVE  TablePools' = TablePools \ {route[k] : k \in K}
<1>1. route \in [Keys -> Pools \cup {None}] /\ None \notin Pools
  BY PlaceTypes
<1>2. \A j, k \in Keys : j # k /\ route[j] # None => route[j] # route[k]
  BY DEF IInv, OwnersAreExclusive
<1>3. ASSUME NEW p \in TablePools' PROVE p \in TablePools \ {route[k] : k \in K}
  <2>1. PICK j \in Keys : route'[j] = p
    BY DEF TablePools
  <2>2. p \in Pools /\ p # None
    BY <1>1 DEF TablePools
  <2>3. j \notin K /\ route[j] = p
    BY <2>1, <2>2
  <2>4. ASSUME NEW k \in K PROVE route[k] # p
    BY <1>2, <2>2, <2>3
  <2>5. QED
    BY <2>2, <2>3, <2>4 DEF TablePools
<1>4. ASSUME NEW p \in TablePools \ {route[k] : k \in K} PROVE p \in TablePools'
  <2>1. PICK j \in Keys : route[j] = p
    BY DEF TablePools
  <2>2. j \notin K
    BY <2>1
  <2>3. QED
    BY <2>1, <2>2 DEF TablePools
<1>5. QED
  BY <1>3, <1>4

\* The pools of K move from the table to a new group.
LEMMA DetachMoves ==
  ASSUME IInv, Placement, NEW K \in SUBSET Routed, NEW by, Detach(K, by)
  PROVE  \E M \in SUBSET TablePools :
           /\ TablePools' = TablePools \ M
           /\ OutPools' = OutPools \cup M
           /\ \A g, h \in detached' : \A p \in Pools : p \in PoolsOf(g) /\ p \in PoolsOf(h) => g = h
<1> DEFINE M == {route[k] : k \in K}
           new == [by |-> by, pairs |-> {<<k, route[k]>> : k \in K}]
<1>1. M \subseteq TablePools
  BY PlaceTypes DEF Routed, TablePools
<1>2. K \in SUBSET Keys
  BY DEF Routed
<1>3. TablePools' = TablePools \ M
  BY <1>2, TableLoses DEF Detach
<1>4. PoolsOf(new) = M
  <2>1. PoolsOf(new) = {pair[2] : pair \in {<<k, route[k]>> : k \in K}}
    BY DEF PoolsOf
  <2>2. ASSUME NEW p \in M PROVE p \in PoolsOf(new)
    <3>1. PICK k \in K : p = route[k]
      OBVIOUS
    <3>2. <<k, route[k]>> \in {<<j, route[j]>> : j \in K} /\ <<k, route[k]>>[2] = p
      BY <3>1
    <3>3. QED
      BY <2>1, <3>2
  <2>3. ASSUME NEW p \in PoolsOf(new) PROVE p \in M
    <3>1. PICK pair \in {<<j, route[j]>> : j \in K} : p = pair[2]
      BY <2>1
    <3>2. PICK k \in K : pair = <<k, route[k]>>
      OBVIOUS
    <3>3. QED
      BY <3>1, <3>2
  <2>4. QED
    BY <2>2, <2>3
<1>5. detached' = IF K = {} THEN detached ELSE detached \cup {new}
  BY DEF Detach
<1>6. TablePools \cap OutPools = {}
  BY DEF Placement, Divides
<1>7. \A g, h \in detached : \A p \in Pools : p \in PoolsOf(g) /\ p \in PoolsOf(h) => g = h
  BY DEF Placement
<1>8. \A g \in detached : \A p \in M : p \notin PoolsOf(g)
  BY <1>1, <1>6 DEF OutPools, TablePools
<1>9. K = {} => M = {}
  OBVIOUS
<1>10. M \subseteq Pools
  BY <1>1 DEF TablePools
<1> HIDE DEF M, new
<1>11. OutPools' = OutPools \cup M
  <2>1. OutPools' = {p \in Pools : \E g \in detached' : p \in PoolsOf(g)}
    BY DEF OutPools
  <2>2. CASE K = {}
    BY <1>5, <1>9, <2>1, <2>2 DEF OutPools
  <2>3. CASE K # {}
    BY <1>4, <1>5, <1>10, <2>1, <2>3 DEF OutPools
  <2>4. QED
    BY <2>2, <2>3
<1>12. \A g, h \in detached' : \A p \in Pools : p \in PoolsOf(g) /\ p \in PoolsOf(h) => g = h
  BY <1>4, <1>5, <1>7, <1>8
<1>13. QED
  BY <1>1, <1>3, <1>11, <1>12

\* A removal from the table, whatever the reason.
SomeDetach == \E K \in SUBSET Routed : \E by \in Tasks \cup Pools \cup {None} : Detach(K, by)

\* The helpers of PoolRoutingControl remove what is in the table.
LEMMA HelpersDetach ==
  ASSUME IInv, NEW by \in Tasks \cup Pools \cup {None}
  PROVE  /\ \A r : ReplaceRuntime(r, by) => SomeDetach
         /\ \A k, replace : \A p \in Pools : DetachIfCurrent(k, p, replace, by) => SomeDetach
         /\ \A k, replace : \A p \in Pools : DetachProbed(k, p, replace, by) => SomeDetach
         /\ \A k \in Keys, replace \in BOOLEAN : DetachByKey(k, replace, by) => SomeDetach
<1>1. ASSUME NEW r, ReplaceRuntime(r, by) PROVE SomeDetach
  <2>1. On(r) \in SUBSET Routed
    BY DEF On, Routed
  <2>2. QED
    BY <1>1, <2>1 DEF ReplaceRuntime, SomeDetach
<1>2. ASSUME NEW k, NEW replace, NEW p \in Pools, DetachIfCurrent(k, p, replace, by) PROVE SomeDetach
  <2> DEFINE K == IF replace THEN On(runtime[p]) ELSE {k} \cap {j \in Keys : route[j] = p}
  <2>1. K \in SUBSET Routed
    BY PlaceTypes DEF On, Routed
  <2>2. Detach(K, by)
    BY <1>2 DEF DetachIfCurrent
  <2> HIDE DEF K
  <2>3. QED
    BY <2>1, <2>2 DEF SomeDetach
<1>3. ASSUME NEW k, NEW replace, NEW p \in Pools, DetachProbed(k, p, replace, by) PROVE SomeDetach
  <2>1. CASE k \in NativeKeys
    <3>1. Detach({k} \cap Routed, by) /\ {k} \cap Routed \in SUBSET Routed
      BY <1>3, <2>1 DEF DetachProbed
    <3>2. QED
      BY <3>1 DEF SomeDetach
  <2>2. CASE k \notin NativeKeys
    BY <1>2, <1>3, <2>2 DEF DetachProbed
  <2>3. QED
    BY <2>1, <2>2
<1>4. ASSUME NEW k \in Keys, NEW replace \in BOOLEAN, DetachByKey(k, replace, by) PROVE SomeDetach
  <2>1. CASE route[k] = None
    <3>1. route' = route /\ detached' = detached
      BY <1>4, <2>1 DEF DetachByKey
    <3>2. Detach({}, by)
      BY <3>1, PlaceTypes DEF Detach
    <3>3. QED
      BY <3>2 DEF SomeDetach
  <2>2. CASE route[k] # None
    <3> DEFINE all == replace /\ k \notin NativeKeys
               K == IF all THEN On(runtime[route[k]]) ELSE {k}
    <3>1. K \in SUBSET Routed
      BY <2>2 DEF On, Routed
    <3>2. Detach(K, by)
      BY <1>4, <2>2 DEF DetachByKey
    <3> HIDE DEF K
    <3>3. QED
      BY <3>1, <3>2 DEF SomeDetach
  <2>3. QED
    BY <2>1, <2>2
<1>5. QED
  BY <1>1, <1>2, <1>3, <1>4

\* The actions that call one of them.
LEMMA ActionsDetach ==
  ASSUME IInv
  PROVE  /\ \A t \in Tasks : CleanupDetaches(t) \/ CreateReplaces(t) \/ InsertRejected(t) \/ Unroute(t) \/ ReclaimReplaces(t)
                               \/ RemoveAll(t) => SomeDetach
         /\ \A t \in Tasks, k \in Keys, replace \in BOOLEAN : CallDetachByKey(t, k, replace) => SomeDetach
         /\ \A t \in Tasks, replace \in BOOLEAN : ProbeFails(t, replace) \/ UseFails(t, replace) => SomeDetach
         /\ \A l \in late : KeepaliveDetaches(l) => SomeDetach
         /\ \A p \in Pools : CloseReplaces(p) => SomeDetach
<1>1. ASSUME NEW t \in Tasks, CleanupDetaches(t) PROVE SomeDetach
  <2>1. key[t] \in Keys
    BY <1>1 DEF CleanupDetaches, At, IInv, LocalsFollowControl
  <2>2. QED
    BY <1>1, <2>1, HelpersDetach DEF CleanupDetaches
<1>2. ASSUME NEW t \in Tasks, CreateReplaces(t) \/ InsertRejected(t) \/ ReclaimReplaces(t) PROVE SomeDetach
  BY <1>2, HelpersDetach DEF CreateReplaces, InsertRejected, ReclaimReplaces
<1>3. ASSUME NEW t \in Tasks, Unroute(t) PROVE SomeDetach
  <2>1. Target(t) \in Keys
    BY <1>3, ConnectionPoolsAssumption DEF Unroute, At, Target, IInv, LocalsFollowControl
  <2>2. QED
    BY <1>3, <2>1, HelpersDetach DEF Unroute
<1>4. ASSUME NEW t \in Tasks, NEW k \in Keys, NEW replace \in BOOLEAN, CallDetachByKey(t, k, replace) PROVE SomeDetach
  BY <1>4, HelpersDetach DEF CallDetachByKey
<1>5. ASSUME NEW t \in Tasks, NEW replace \in BOOLEAN, ProbeFails(t, replace) \/ UseFails(t, replace) PROVE SomeDetach
  <2>1. pool[t] \in Pools
    BY <1>5, PlaceTypes DEF ProbeFails, UseFails, At, IInv, LocalsFollowControl, HandlePc
  <2>2. QED
    BY <1>5, <2>1, HelpersDetach DEF ProbeFails, UseFails
<1>6. ASSUME NEW l \in late, KeepaliveDetaches(l) PROVE SomeDetach
  <2>1. l.pool \in Pools
    BY DEF IInv, TypeOK
  <2>2. QED
    BY <1>6, <2>1, HelpersDetach DEF KeepaliveDetaches
<1>7. ASSUME NEW p \in Pools, CloseReplaces(p) PROVE SomeDetach
  BY <1>7, HelpersDetach DEF CloseReplaces
<1>8. ASSUME NEW t \in Tasks, RemoveAll(t) PROVE SomeDetach
  <2>1. Detach(todo[t] \cap Routed, t) /\ todo[t] \cap Routed \in SUBSET Routed
    BY <1>8 DEF RemoveAll
  <2>2. QED
    BY <2>1 DEF SomeDetach
<1>9. QED
  BY <1>1, <1>2, <1>3, <1>4, <1>5, <1>6, <1>7, <1>8

-----------------------------------------------------------------------------
(* How pools move: one disjunct per action of PoolLifecycle, on the sets.  *)

\* Pools go out of the table, and from there to their end.
Retires ==
  /\ made' = made
  /\ TablePools' \subseteq TablePools
  /\ OwnedPools' \subseteq OwnedPools
  /\ OutPools' \subseteq OutPools \cup TablePools
  /\ closing' \subseteq closing \cup TablePools \cup OwnedPools \cup OutPools
  /\ gone' \subseteq gone \cup OwnedPools \cup OutPools \cup closing

Makes ==
  /\ made < MaxPools /\ made' = made + 1
  /\ OwnedPools' = OwnedPools \cup {made + 1}
  /\ TablePools' = TablePools /\ OutPools' = OutPools /\ closing' = closing /\ gone' = gone

Publishes == \E p \in OwnedPools :
  /\ OwnedPools' = OwnedPools \ {p} /\ TablePools' = TablePools \cup {p}
  /\ made' = made /\ OutPools' = OutPools /\ closing' = closing /\ gone' = gone

Supersedes == \E p \in OwnedPools, q \in TablePools :
  /\ OwnedPools' = OwnedPools \ {p} /\ TablePools' = (TablePools \ {q}) \cup {p}
  /\ made' = made /\ OutPools' = OutPools
  /\ \/ closing' = closing \cup {q} /\ gone' = gone
     \/ closing' = closing /\ gone' = gone \cup {q}

Reclaims == \E p \in TablePools :
  /\ TablePools' = TablePools \ {p} /\ OwnedPools' = OwnedPools \cup {p}
  /\ made' = made /\ OutPools' = OutPools /\ closing' = closing /\ gone' = gone

\* A step moves pools in one of these ways, and every pool is in one place after it.
Moves == Placement' /\ (Retires \/ Makes \/ Publishes \/ Supersedes \/ Reclaims)

\* A step that moves no pool.
LEMMA NothingMoves ==
  ASSUME Placement, UNCHANGED <<route, detached, closing, gone, made>>, \A u \in Tasks : Own(u)' = Own(u)
  PROVE  Moves
<1>1. TablePools' = TablePools /\ OutPools' = OutPools /\ OwnedPools' = OwnedPools
  BY OwnedSame DEF TablePools, OutPools
<1>2. Placement'
  BY <1>1 DEF Placement
<1>3. Retires
  BY <1>1 DEF Retires
<1>4. QED
  BY <1>2, <1>3 DEF Moves

\* A step that moves pools from the table to a group.
LEMMA OnlyDetaches ==
  ASSUME IInv, Placement, SomeDetach, UNCHANGED <<closing, gone, made>>, \A u \in Tasks : Own(u)' = Own(u)
  PROVE  Moves
<1>1. PICK M \in SUBSET TablePools :
        /\ TablePools' = TablePools \ M
        /\ OutPools' = OutPools \cup M
        /\ \A g, h \in detached' : \A p \in Pools : p \in PoolsOf(g) /\ p \in PoolsOf(h) => g = h
  BY DetachMoves DEF SomeDetach
<1>2. OwnedPools' = OwnedPools
  BY OwnedSame
<1>3. Divides(TablePools, OwnedPools, OutPools, closing, gone, 1..made)
  BY DEF Placement
<1>4. Divides(TablePools \ M, OwnedPools, OutPools \cup M, closing, gone, 1..made)
  BY <1>3 DEF Divides
<1>5. Placement'
  BY <1>1, <1>2, <1>4 DEF Placement
<1>6. Retires
  BY <1>1, <1>2 DEF Retires
<1>7. QED
  BY <1>5, <1>6 DEF Moves

\* The actions that move no pool.
LEMMA QuietActions == ASSUME IInv, Placement PROVE
  /\ \A l \in late : KeepaliveAborted(l) => Moves
  /\ \A k \in Keys, replace \in BOOLEAN : PingFails(k, replace) => Moves
  /\ RuntimeDies => Moves
  /\ \A t \in Tasks, k \in Keys : Open(t, k) \/ Connect(t, k) \/ Remove(t, k) \/ Reconnect(t, k) \/ ReconnectForwarded(t, k)
                                   \/ DropCleanupGuard(t, k) \/ Use(t, k) => Moves
  /\ \A t \in Tasks, k \in Base : BeginDrain(t, k) => Moves
  /\ \A t \in Tasks :
       \/ Disconnect(t) \/ CloseDatabasePool(t) \/ EndUse(t) \/ WaitForDrain(t) \/ CheckMisses(t) \/ Recheck(t) \/ Reuse(t)
       \/ Probe(t) \/ ProbeOk(t) \/ CreateFails(t) \/ CheckAttempt(t) \/ InsertWait(t) \/ SlotsExhausted(t) \/ NothingReclaimed(t)
       \/ TakeRefused(t) \/ CloneForKeepalive(t) \/ Restore(t) \/ Verify(t) \/ CloseAwaited(t) \/ ProbeFindsStale(t)
       \/ StopKeepalive(t) \/ RestartKeepalive(t) \/ ReleaseDrain(t) \/ ReadKeys(t) \/ StopKeepalives(t)
       => Moves
<1>1. pc \in [Tasks -> TaskPc] /\ pool \in [Tasks -> Pools \cup {None}]
  BY PlaceTypes
<1>2. ASSUME NEW l \in late, KeepaliveAborted(l) PROVE Moves
  <2>1. UNCHANGED <<route, detached, closing, gone, made>> /\ \A u \in Tasks : Own(u)' = Own(u)
    BY <1>1, <1>2 DEF KeepaliveAborted, endVars, taskVars, poolVars, Own, OwnPc
  <2>2. QED
    BY <2>1, NothingMoves
<1>3. ASSUME NEW k \in Keys, NEW replace \in BOOLEAN, PingFails(k, replace) PROVE Moves
  <2>1. UNCHANGED <<route, detached, closing, gone, made>> /\ \A u \in Tasks : Own(u)' = Own(u)
    BY <1>1, <1>3 DEF PingFails, endVars, poolVars, taskVars, Own, OwnPc
  <2>2. QED
    BY <2>1, NothingMoves
<1>4. ASSUME RuntimeDies PROVE Moves
  <2>1. UNCHANGED <<route, detached, closing, gone, made>> /\ \A u \in Tasks : Own(u)' = Own(u)
    BY <1>1, <1>4 DEF RuntimeDies, tableVars, endVars, poolVars, taskVars, Own, OwnPc
  <2>2. QED
    BY <2>1, NothingMoves
<1>5. ASSUME NEW t \in Tasks, NEW k \in Keys, Open(t, k) PROVE Moves
  <2>1. UNCHANGED <<route, detached, closing, gone, made>> /\ \A u \in Tasks : Own(u)' = Own(u)
    BY <1>1, <1>5 DEF Open, Calls, At, tableVars, endVars, poolVars, Own, OwnPc
  <2>2. QED
    BY <2>1, NothingMoves
<1>6. ASSUME NEW t \in Tasks, NEW k \in Keys, Connect(t, k) PROVE Moves
  <2>1. UNCHANGED <<route, detached, closing, gone, made>> /\ \A u \in Tasks : Own(u)' = Own(u)
    BY <1>1, <1>6 DEF Connect, Calls, At, tableVars, endVars, poolVars, Own, OwnPc
  <2>2. QED
    BY <2>1, NothingMoves
<1>7. ASSUME NEW t \in Tasks, NEW k \in Keys, Remove(t, k) PROVE Moves
  <2>1. UNCHANGED <<route, detached, closing, gone, made>> /\ \A u \in Tasks : Own(u)' = Own(u)
    BY <1>1, <1>7 DEF Remove, Calls, At, endVars, poolVars, Own, OwnPc
  <2>2. QED
    BY <2>1, NothingMoves
<1>8. ASSUME NEW t \in Tasks, NEW k \in Keys, Reconnect(t, k) PROVE Moves
  <2>1. UNCHANGED <<route, detached, closing, gone, made>> /\ \A u \in Tasks : Own(u)' = Own(u)
    BY <1>1, <1>8 DEF Reconnect, Calls, At, endVars, poolVars, Own, OwnPc
  <2>2. QED
    BY <2>1, NothingMoves
<1>9. ASSUME NEW t \in Tasks, NEW k \in Keys, DropCleanupGuard(t, k) PROVE Moves
  <2>1. UNCHANGED <<route, detached, closing, gone, made>> /\ \A u \in Tasks : Own(u)' = Own(u)
    BY <1>1, <1>9 DEF DropCleanupGuard, Calls, At, endVars, poolVars, Own, OwnPc
  <2>2. QED
    BY <2>1, NothingMoves
<1>10. ASSUME NEW t \in Tasks, NEW k \in Keys, Use(t, k) PROVE Moves
  <2>1. UNCHANGED <<route, detached, closing, gone, made>> /\ \A u \in Tasks : Own(u)' = Own(u)
    BY <1>1, <1>10 DEF Use, Calls, At, tableVars, endVars, poolVars, Own, OwnPc
  <2>2. QED
    BY <2>1, NothingMoves
<1>11. ASSUME NEW t \in Tasks, NEW k \in Base, BeginDrain(t, k) PROVE Moves
  <2>1. UNCHANGED <<route, detached, closing, gone, made>> /\ \A u \in Tasks : Own(u)' = Own(u)
    BY <1>1, <1>11 DEF BeginDrain, At, GoTo, endVars, poolVars, Own, OwnPc
  <2>2. QED
    BY <2>1, NothingMoves
<1>12. ASSUME NEW t \in Tasks, Disconnect(t) PROVE Moves
  <2>1. UNCHANGED <<route, detached, closing, gone, made>> /\ \A u \in Tasks : Own(u)' = Own(u)
    BY <1>1, <1>12 DEF Disconnect, Calls, At, tableVars, endVars, poolVars, Own, OwnPc
  <2>2. QED
    BY <2>1, NothingMoves
<1>13. ASSUME NEW t \in Tasks, CloseDatabasePool(t) PROVE Moves
  <2>1. UNCHANGED <<route, detached, closing, gone, made>> /\ \A u \in Tasks : Own(u)' = Own(u)
    BY <1>1, <1>13 DEF CloseDatabasePool, Calls, At, tableVars, endVars, poolVars, Own, OwnPc
  <2>2. QED
    BY <2>1, NothingMoves
<1>14. ASSUME NEW t \in Tasks, EndUse(t) PROVE Moves
  <2>1. UNCHANGED <<route, detached, closing, gone, made>> /\ \A u \in Tasks : Own(u)' = Own(u)
    BY <1>1, <1>14 DEF EndUse, At, GoTo, tableVars, endVars, poolVars, Own, OwnPc
  <2>2. QED
    BY <2>1, NothingMoves
<1>15. ASSUME NEW t \in Tasks, WaitForDrain(t) PROVE Moves
  <2>1. UNCHANGED <<route, detached, closing, gone, made>> /\ \A u \in Tasks : Own(u)' = Own(u)
    BY <1>1, <1>15 DEF WaitForDrain, At, GoTo, tableAndPools, tableVars, endVars, poolVars, Own, OwnPc
  <2>2. QED
    BY <2>1, NothingMoves
<1>16. ASSUME NEW t \in Tasks, CheckMisses(t) PROVE Moves
  <2>1. UNCHANGED <<route, detached, closing, gone, made>> /\ \A u \in Tasks : Own(u)' = Own(u)
    BY <1>1, <1>16 DEF CheckMisses, At, GoTo, tableAndPools, tableVars, endVars, poolVars, Own, OwnPc
  <2>2. QED
    BY <2>1, NothingMoves
<1>17. ASSUME NEW t \in Tasks, Recheck(t) PROVE Moves
  <2>1. UNCHANGED <<route, detached, closing, gone, made>> /\ \A u \in Tasks : Own(u)' = Own(u)
    BY <1>1, <1>17 DEF Recheck, At, GoTo, tableAndPools, tableVars, endVars, poolVars, Own, OwnPc
  <2>2. QED
    BY <2>1, NothingMoves
<1>18. ASSUME NEW t \in Tasks, Reuse(t) PROVE Moves
  <2>1. UNCHANGED <<route, detached, closing, gone, made>> /\ \A u \in Tasks : Own(u)' = Own(u)
    BY <1>1, <1>18 DEF Reuse, At, GoTo, tableAndPools, tableVars, endVars, poolVars, Own, OwnPc
  <2>2. QED
    BY <2>1, NothingMoves
<1>19. ASSUME NEW t \in Tasks, Probe(t) PROVE Moves
  <2>1. UNCHANGED <<route, detached, closing, gone, made>> /\ \A u \in Tasks : Own(u)' = Own(u)
    BY <1>1, <1>19 DEF Probe, At, GoTo, tableAndPools, tableVars, endVars, poolVars, Own, OwnPc
  <2>2. QED
    BY <2>1, NothingMoves
<1>20. ASSUME NEW t \in Tasks, ProbeOk(t) PROVE Moves
  <2>1. UNCHANGED <<route, detached, closing, gone, made>> /\ \A u \in Tasks : Own(u)' = Own(u)
    BY <1>1, <1>20 DEF ProbeOk, At, GoTo, tableAndPools, tableVars, endVars, poolVars, Own, OwnPc
  <2>2. QED
    BY <2>1, NothingMoves
<1>21. ASSUME NEW t \in Tasks, CreateFails(t) PROVE Moves
  <2>1. UNCHANGED <<route, detached, closing, gone, made>> /\ \A u \in Tasks : Own(u)' = Own(u)
    BY <1>1, <1>21 DEF CreateFails, At, GoTo, tableAndPools, tableVars, endVars, poolVars, Own, OwnPc
  <2>2. QED
    BY <2>1, NothingMoves
<1>22. ASSUME NEW t \in Tasks, CheckAttempt(t) PROVE Moves
  <2>1. UNCHANGED <<route, detached, closing, gone, made>> /\ \A u \in Tasks : Own(u)' = Own(u)
    BY <1>1, <1>22 DEF CheckAttempt, At, GoTo, tableAndPools, tableVars, endVars, poolVars, Own, OwnPc
  <2>2. QED
    BY <2>1, NothingMoves
<1>23. ASSUME NEW t \in Tasks, InsertWait(t) PROVE Moves
  <2>1. UNCHANGED <<route, detached, closing, gone, made>> /\ \A u \in Tasks : Own(u)' = Own(u)
    BY <1>1, <1>23 DEF InsertWait, At, GoTo, tableAndPools, tableVars, endVars, poolVars, Own, OwnPc
  <2>2. QED
    BY <2>1, NothingMoves
<1>24. ASSUME NEW t \in Tasks, SlotsExhausted(t) PROVE Moves
  <2>1. UNCHANGED <<route, detached, closing, gone, made>> /\ \A u \in Tasks : Own(u)' = Own(u)
    BY <1>1, <1>24 DEF SlotsExhausted, At, GoTo, tableAndPools, tableVars, endVars, poolVars, Own, OwnPc
  <2>2. QED
    BY <2>1, NothingMoves
<1>25. ASSUME NEW t \in Tasks, NothingReclaimed(t) PROVE Moves
  <2>1. UNCHANGED <<route, detached, closing, gone, made>> /\ \A u \in Tasks : Own(u)' = Own(u)
    BY <1>1, <1>25 DEF NothingReclaimed, At, GoTo, tableAndPools, tableVars, endVars, poolVars, Own, OwnPc
  <2>2. QED
    BY <2>1, NothingMoves
<1>26. ASSUME NEW t \in Tasks, TakeRefused(t) PROVE Moves
  <2>1. UNCHANGED <<route, detached, closing, gone, made>> /\ \A u \in Tasks : Own(u)' = Own(u)
    BY <1>1, <1>26 DEF TakeRefused, At, GoTo, tableAndPools, tableVars, endVars, poolVars, Own, OwnPc
  <2>2. QED
    BY <2>1, NothingMoves
<1>27. ASSUME NEW t \in Tasks, CloneForKeepalive(t) PROVE Moves
  <2>1. UNCHANGED <<route, detached, closing, gone, made>> /\ \A u \in Tasks : Own(u)' = Own(u)
    BY <1>1, <1>27 DEF CloneForKeepalive, At, GoTo, tableAndPools, tableVars, endVars, poolVars, Own, OwnPc
  <2>2. QED
    BY <2>1, NothingMoves
<1>28. ASSUME NEW t \in Tasks, Restore(t) PROVE Moves
  <2>1. UNCHANGED <<route, detached, closing, gone, made>> /\ \A u \in Tasks : Own(u)' = Own(u)
    BY <1>1, <1>28 DEF Restore, At, GoTo, tableAndPools, tableVars, endVars, poolVars, Own, OwnPc
  <2>2. QED
    BY <2>1, NothingMoves
<1>29. ASSUME NEW t \in Tasks, Verify(t) PROVE Moves
  <2>1. UNCHANGED <<route, detached, closing, gone, made>> /\ \A u \in Tasks : Own(u)' = Own(u)
    BY <1>1, <1>29 DEF Verify, At, GoTo, AfterInsert, tableAndPools, tableVars, endVars, poolVars, Own, OwnPc
  <2>2. QED
    BY <2>1, NothingMoves
<1>30. ASSUME NEW t \in Tasks, CloseAwaited(t) PROVE Moves
  <2>1. UNCHANGED <<route, detached, closing, gone, made>> /\ \A u \in Tasks : Own(u)' = Own(u)
    BY <1>1, <1>30 DEF CloseAwaited, ClosePc, GoTo, AfterInsert, AfterList, tableAndPools, tableVars, endVars, poolVars, Own, OwnPc
  <2>2. QED
    BY <2>1, NothingMoves
<1>31. ASSUME NEW t \in Tasks, ProbeFindsStale(t) PROVE Moves
  <2>1. UNCHANGED <<route, detached, closing, gone, made>> /\ \A u \in Tasks : Own(u)' = Own(u)
    BY <1>1, <1>31 DEF ProbeFindsStale, At, GoTo, endVars, poolVars, Own, OwnPc
  <2>2. QED
    BY <2>1, NothingMoves
<1>32. ASSUME NEW t \in Tasks, StopKeepalive(t) PROVE Moves
  <2>1. UNCHANGED <<route, detached, closing, gone, made>> /\ \A u \in Tasks : Own(u)' = Own(u)
    BY <1>1, <1>32 DEF StopKeepalive, At, GoTo, endVars, poolVars, Own, OwnPc
  <2>2. QED
    BY <2>1, NothingMoves
<1>33. ASSUME NEW t \in Tasks, RestartKeepalive(t) PROVE Moves
  <2>1. UNCHANGED <<route, detached, closing, gone, made>> /\ \A u \in Tasks : Own(u)' = Own(u)
    BY <1>1, <1>33 DEF RestartKeepalive, At, GoTo, endVars, poolVars, Own, OwnPc
  <2>2. QED
    BY <2>1, NothingMoves
<1>34. ASSUME NEW t \in Tasks, ReleaseDrain(t) PROVE Moves
  <2>1. UNCHANGED <<route, detached, closing, gone, made>> /\ \A u \in Tasks : Own(u)' = Own(u)
    BY <1>1, <1>34 DEF ReleaseDrain, At, GoTo, endVars, poolVars, Own, OwnPc
  <2>2. QED
    BY <2>1, NothingMoves
<1>35. ASSUME NEW t \in Tasks, NEW k \in Keys, ReconnectForwarded(t, k) PROVE Moves
  <2>1. UNCHANGED <<route, detached, closing, gone, made>> /\ \A u \in Tasks : Own(u)' = Own(u)
    BY <1>1, <1>35 DEF ReconnectForwarded, At, Calls, tableVars, endVars, poolVars, Own, OwnPc
  <2>2. QED
    BY <2>1, NothingMoves
<1>36. ASSUME NEW t \in Tasks, ReadKeys(t) PROVE Moves
  <2>1. UNCHANGED <<route, detached, closing, gone, made>> /\ \A u \in Tasks : Own(u)' = Own(u)
    BY <1>1, <1>36 DEF ReadKeys, At, GoTo, tableVars, endVars, poolVars, Own, OwnPc
  <2>2. QED
    BY <2>1, NothingMoves
<1>37. ASSUME NEW t \in Tasks, StopKeepalives(t) PROVE Moves
  <2>1. UNCHANGED <<route, detached, closing, gone, made>> /\ \A u \in Tasks : Own(u)' = Own(u)
    BY <1>1, <1>37 DEF StopKeepalives, At, GoTo, tableVars, endVars, poolVars, Own, OwnPc
  <2>2. QED
    BY <2>1, NothingMoves
<1>38. QED
  BY <1>2, <1>3, <1>4, <1>5, <1>6, <1>7, <1>8, <1>9, <1>10, <1>11, <1>12, <1>13, <1>14, <1>15, <1>16, <1>17, <1>18, <1>19, <1>20, <1>21, <1>22, <1>23, <1>24, <1>25, <1>26, <1>27, <1>28, <1>29, <1>30, <1>31, <1>32, <1>33, <1>34, <1>35, <1>36, <1>37

\* The actions that only take pools out of the table.
LEMMA DetachingActions == ASSUME IInv, Placement PROVE
  /\ \A t \in Tasks : CleanupDetaches(t) \/ CreateReplaces(t) \/ InsertRejected(t) \/ Unroute(t) \/ RemoveAll(t) => Moves
  /\ \A t \in Tasks, k \in Keys, replace \in BOOLEAN : CallDetachByKey(t, k, replace) => Moves
  /\ \A t \in Tasks, replace \in BOOLEAN : ProbeFails(t, replace) \/ UseFails(t, replace) => Moves
  /\ \A l \in late : KeepaliveDetaches(l) => Moves
<1>1. pc \in [Tasks -> TaskPc] /\ pool \in [Tasks -> Pools \cup {None}]
  BY PlaceTypes
<1>2. ASSUME NEW t \in Tasks, NEW k \in Keys, NEW replace \in BOOLEAN, CallDetachByKey(t, k, replace) PROVE Moves
  <2>1. SomeDetach
    BY <1>2, ActionsDetach
  <2>2. UNCHANGED <<closing, gone, made>> /\ \A u \in Tasks : Own(u)' = Own(u)
    BY <1>1, <1>2 DEF CallDetachByKey, Calls, At, poolVars, Own, OwnPc
  <2>3. QED
    BY <2>1, <2>2, OnlyDetaches
<1>3. ASSUME NEW t \in Tasks, CleanupDetaches(t) PROVE Moves
  <2>1. SomeDetach
    BY <1>3, ActionsDetach
  <2>2. UNCHANGED <<closing, gone, made>> /\ \A u \in Tasks : Own(u)' = Own(u)
    BY <1>1, <1>3 DEF CleanupDetaches, At, GoTo, poolVars, Own, OwnPc
  <2>3. QED
    BY <2>1, <2>2, OnlyDetaches
<1>4. ASSUME NEW t \in Tasks, NEW replace \in BOOLEAN, UseFails(t, replace) PROVE Moves
  <2>1. SomeDetach
    BY <1>4, ActionsDetach
  <2>2. UNCHANGED <<closing, gone, made>> /\ \A u \in Tasks : Own(u)' = Own(u)
    BY <1>1, <1>4 DEF UseFails, At, GoTo, poolVars, Own, OwnPc
  <2>3. QED
    BY <2>1, <2>2, OnlyDetaches
<1>5. ASSUME NEW t \in Tasks, NEW replace \in BOOLEAN, ProbeFails(t, replace) PROVE Moves
  <2>1. SomeDetach
    BY <1>5, ActionsDetach
  <2>2. UNCHANGED <<closing, gone, made>> /\ \A u \in Tasks : Own(u)' = Own(u)
    BY <1>1, <1>5 DEF ProbeFails, At, GoTo, poolVars, Own, OwnPc
  <2>3. QED
    BY <2>1, <2>2, OnlyDetaches
<1>6. ASSUME NEW t \in Tasks, CreateReplaces(t) PROVE Moves
  <2>1. SomeDetach
    BY <1>6, ActionsDetach
  <2>2. UNCHANGED <<closing, gone, made>> /\ \A u \in Tasks : Own(u)' = Own(u)
    BY <1>1, <1>6 DEF CreateReplaces, At, GoTo, poolVars, Own, OwnPc
  <2>3. QED
    BY <2>1, <2>2, OnlyDetaches
<1>7. ASSUME NEW t \in Tasks, InsertRejected(t) PROVE Moves
  <2>1. SomeDetach
    BY <1>7, ActionsDetach
  <2>2. UNCHANGED <<closing, gone, made>> /\ \A u \in Tasks : Own(u)' = Own(u)
    BY <1>1, <1>7 DEF InsertRejected, At, GoTo, poolVars, Own, OwnPc
  <2>3. QED
    BY <2>1, <2>2, OnlyDetaches
<1>8. ASSUME NEW t \in Tasks, Unroute(t) PROVE Moves
  <2>1. SomeDetach
    BY <1>8, ActionsDetach
  <2>2. UNCHANGED <<closing, gone, made>> /\ \A u \in Tasks : Own(u)' = Own(u)
    BY <1>1, <1>8 DEF Unroute, At, GoTo, AfterInsert, poolVars, Own, OwnPc
  <2>3. QED
    BY <2>1, <2>2, OnlyDetaches
<1>9. ASSUME NEW l \in late, KeepaliveDetaches(l) PROVE Moves
  <2>1. SomeDetach
    BY <1>9, ActionsDetach
  <2>2. UNCHANGED <<closing, gone, made>> /\ \A u \in Tasks : Own(u)' = Own(u)
    BY <1>1, <1>9 DEF KeepaliveDetaches, poolVars, taskVars, Own, OwnPc
  <2>3. QED
    BY <2>1, <2>2, OnlyDetaches
<1>10. ASSUME NEW t \in Tasks, RemoveAll(t) PROVE Moves
  <2>1. SomeDetach
    BY <1>10, ActionsDetach
  <2>2. UNCHANGED <<closing, gone, made>> /\ \A u \in Tasks : Own(u)' = Own(u)
    BY <1>1, <1>10 DEF RemoveAll, At, GoTo, AfterList, poolVars, Own, OwnPc
  <2>3. QED
    BY <2>1, <2>2, OnlyDetaches
<1>11. QED
  BY <1>2, <1>3, <1>4, <1>5, <1>6, <1>7, <1>8, <1>9, <1>10

\* One group is closed in the background, or dropped.
LEMMA GroupEnds == ASSUME IInv, Placement, NEW g \in detached, FinishDetach(g) \/ FinishDetachAborted(g) PROVE Moves
<1>1. /\ UNCHANGED <<route, made, pc, pool>>
      /\ detached' = detached \ {g}
      /\ \/ closing' = closing \cup PoolsOf(g) /\ gone' = gone
         \/ closing' = closing /\ gone' = gone \cup PoolsOf(g)
  BY DEF FinishDetach, FinishDetachAborted, poolVars, taskVars
<1>2. TablePools' = TablePools /\ OwnedPools' = OwnedPools
  BY <1>1 DEF TablePools, OwnedPools, Own
<1>3. PoolsOf(g) \subseteq Pools
  BY GroupTypes
<1>4. \A h, i \in detached : \A p \in Pools : p \in PoolsOf(h) /\ p \in PoolsOf(i) => h = i
  BY DEF Placement
<1>5. PoolsOf(g) \subseteq OutPools
  BY <1>3 DEF OutPools
<1>6. OutPools' = OutPools \ PoolsOf(g)
  <2>1. ASSUME NEW p \in Pools
        PROVE  (\E h \in detached' : p \in PoolsOf(h)) <=> (\E h \in detached : p \in PoolsOf(h)) /\ p \notin PoolsOf(g)
    BY <1>1, <1>4
  <2>2. OutPools' = {p \in Pools : \E h \in detached' : p \in PoolsOf(h)}
    BY DEF OutPools
  <2>3. QED
    BY <2>1, <2>2 DEF OutPools
<1>7. Divides(TablePools, OwnedPools, OutPools, closing, gone, 1..made)
  BY DEF Placement
<1>8. Divides(TablePools', OwnedPools', OutPools', closing', gone', 1..made')
  BY <1>1, <1>2, <1>5, <1>6, <1>7 DEF Divides
<1>9. \A h, i \in detached' : \A p \in Pools : p \in PoolsOf(h) /\ p \in PoolsOf(i) => h = i
  BY <1>1, <1>4
<1>10. Placement'
  BY <1>8, <1>9 DEF Placement
<1>11. Retires
  BY <1>1, <1>2, <1>5, <1>6 DEF Retires
<1>12. QED
  BY <1>10, <1>11 DEF Moves

\* One pool of a list is closed by the task that removed the list.
LEMMA CloseNextMoves == ASSUME IInv, Placement, NEW t \in Tasks, CloseNext(t) PROVE Moves
<1>1. PICK g \in detached, p \in Pools :
        /\ p \in PoolsOf(g)
        /\ detached' = (detached \ {g}) \cup {h \in {Without(g, p)} : h.pairs # {}}
        /\ closing' = closing \cup {p}
        /\ pool' = [pool EXCEPT ![t] = p]
  BY ClosesNext
<1>2. UNCHANGED <<route, made, gone>> /\ pc' = [pc EXCEPT ![t] = "closeEach"] /\ pc[t] = "closeAll"
  BY DEF CloseNext, GoTo, tableVars, poolVars
<1>3. TablePools' = TablePools
  BY <1>2 DEF TablePools
<1>4. OwnedPools' = OwnedPools
  <2>1. \A u \in Tasks : Own(u)' = Own(u)
    BY <1>1, <1>2, PlaceTypes DEF Own, OwnPc
  <2>2. QED
    BY <2>1, OwnedSame
<1>5. \A h, i \in detached : \A q \in Pools : q \in PoolsOf(h) /\ q \in PoolsOf(i) => h = i
  BY DEF Placement
<1>6. PoolsOf(Without(g, p)) = PoolsOf(g) \ {p}
  BY DEF PoolsOf, Without
<1>7. ASSUME NEW q \in PoolsOf(Without(g, p)) PROVE Without(g, p) \in detached'
  <2>1. Without(g, p).pairs # {}
    BY <1>7 DEF PoolsOf
  <2>2. QED
    BY <1>1, <2>1
<1> DEFINE w == Without(g, p)
<1>8. \A h \in detached' : h = w \/ (h \in detached /\ h # g)
  BY <1>1
<1>9. \A h \in detached : h # g => h \in detached'
  BY <1>1
<1> HIDE DEF w
<1>10. OutPools' = OutPools \ {p}
  <2>1. ASSUME NEW q \in Pools
        PROVE  (\E h \in detached' : q \in PoolsOf(h)) <=> (\E h \in detached : q \in PoolsOf(h)) /\ q # p
    <3>1. ASSUME NEW h \in detached', q \in PoolsOf(h) PROVE (\E i \in detached : q \in PoolsOf(i)) /\ q # p
      <4>1. CASE h = w
        BY <1>6, <3>1, <4>1 DEF w
      <4>2. CASE h \in detached /\ h # g
        BY <1>1, <1>5, <3>1, <4>2
      <4>3. QED
        BY <1>8, <4>1, <4>2
    <3>2. ASSUME NEW h \in detached, q \in PoolsOf(h), q # p PROVE \E i \in detached' : q \in PoolsOf(i)
      <4>1. CASE h = g
        BY <1>6, <1>7, <3>2, <4>1
      <4>2. CASE h # g
        BY <1>9, <3>2, <4>2
      <4>3. QED
        BY <4>1, <4>2
    <3>3. QED
      BY <3>1, <3>2
  <2>2. OutPools' = {q \in Pools : \E h \in detached' : q \in PoolsOf(h)}
    BY DEF OutPools
  <2>3. QED
    BY <2>1, <2>2 DEF OutPools
<1>11. p \in OutPools
  BY <1>1 DEF OutPools
<1>12. Divides(TablePools, OwnedPools, OutPools, closing, gone, 1..made)
  BY DEF Placement
<1>13. Divides(TablePools', OwnedPools', OutPools', closing', gone', 1..made')
  BY <1>1, <1>2, <1>3, <1>4, <1>10, <1>11, <1>12 DEF Divides
<1>14. ASSUME NEW h \in detached', NEW i \in detached', NEW q \in Pools, q \in PoolsOf(h), q \in PoolsOf(i) PROVE h = i
  <2>1. \A j \in detached' : q \in PoolsOf(j) => j = w \/ (j \in detached /\ j # g)
    BY <1>8
  <2>2. q \in PoolsOf(w) => q \in PoolsOf(g)
    BY <1>6 DEF w
  <2>3. QED
    BY <1>5, <1>14, <2>1, <2>2
<1>15. Placement'
  BY <1>13, <1>14 DEF Placement
<1>16. Retires
  BY <1>1, <1>2, <1>3, <1>4, <1>10, <1>11 DEF Retires
<1>17. QED
  BY <1>15, <1>16 DEF Moves

\* A close is over.
LEMMA CloseMoves == ASSUME IInv, Placement, NEW p \in Pools, Close(p) PROVE Moves
<1>1. /\ UNCHANGED <<route, detached, made, pc, pool>> /\ p \in closing
      /\ closing' = closing \ {p} /\ gone' = gone \cup {p}
  BY DEF Close, tableVars, poolVars, taskVars
<1>2. TablePools' = TablePools /\ OwnedPools' = OwnedPools /\ OutPools' = OutPools
  BY <1>1 DEF TablePools, OwnedPools, OutPools, Own
<1>3. Divides(TablePools, OwnedPools, OutPools, closing, gone, 1..made)
  BY DEF Placement
<1>4. Divides(TablePools', OwnedPools', OutPools', closing', gone', 1..made')
  BY <1>1, <1>2, <1>3 DEF Divides
<1>5. Placement'
  BY <1>1, <1>4 DEF Placement
<1>6. Retires
  BY <1>1, <1>2 DEF Retires
<1>7. QED
  BY <1>5, <1>6 DEF Moves

\* A close is over and takes the other pools of its runtime out of the table.
LEMMA CloseReplacesMoves == ASSUME IInv, Placement, NEW p \in Pools, CloseReplaces(p) PROVE Moves
<1>1. /\ UNCHANGED <<made, pc, pool>> /\ p \in closing
      /\ closing' = closing \ {p} /\ gone' = gone \cup {p}
  BY DEF CloseReplaces, poolVars, taskVars
<1>2. OwnedPools' = OwnedPools
  BY <1>1 DEF OwnedPools, Own
<1>3. PICK M \in SUBSET TablePools :
        /\ TablePools' = TablePools \ M
        /\ OutPools' = OutPools \cup M
        /\ \A g, h \in detached' : \A q \in Pools : q \in PoolsOf(g) /\ q \in PoolsOf(h) => g = h
  BY ActionsDetach, DetachMoves DEF SomeDetach
<1>4. Divides(TablePools, OwnedPools, OutPools, closing, gone, 1..made)
  BY DEF Placement
<1>5. Divides(TablePools', OwnedPools', OutPools', closing', gone', 1..made')
  BY <1>1, <1>2, <1>3, <1>4 DEF Divides
<1>6. Placement'
  BY <1>3, <1>5 DEF Placement
<1>7. Retires
  BY <1>1, <1>2, <1>3 DEF Retires
<1>8. QED
  BY <1>6, <1>7 DEF Moves

\* The pool that a task could not restore ends, with the other pools of its runtime
\* detached.
LEMMA ReclaimReplacesMoves == ASSUME IInv, Placement, NEW t \in Tasks, ReclaimReplaces(t) PROVE Moves
<1>1. /\ UNCHANGED <<made, closing>> /\ pc[t] \in OwnPc
      /\ gone' = gone \cup {pool[t]}
      /\ pool' = [pool EXCEPT ![t] = None] /\ pc' = [pc EXCEPT ![t] = "released"]
  BY DEF ReclaimReplaces, At, GoTo, OwnPc, poolVars
<1>2. Own(t) = pool[t] /\ pool[t] \in Pools /\ None \notin Pools
  BY <1>1, PlaceTypes
<1>3. Own(t)' = None /\ \A u \in Tasks \ {t} : Own(u)' = Own(u)
  BY <1>1, PlaceTypes DEF Own, OwnPc
<1>4. OwnedPools' = OwnedPools \ {pool[t]}
  BY <1>2, <1>3, OwnedChange
<1>5. pool[t] \in OwnedPools
  BY <1>2 DEF OwnedPools
<1>6. PICK M \in SUBSET TablePools :
        /\ TablePools' = TablePools \ M
        /\ OutPools' = OutPools \cup M
        /\ \A g, h \in detached' : \A q \in Pools : q \in PoolsOf(g) /\ q \in PoolsOf(h) => g = h
  BY ActionsDetach, DetachMoves DEF SomeDetach
<1>7. Divides(TablePools, OwnedPools, OutPools, closing, gone, 1..made)
  BY DEF Placement
<1>8. Divides(TablePools', OwnedPools', OutPools', closing', gone', 1..made')
  BY <1>1, <1>4, <1>5, <1>6, <1>7 DEF Divides
<1>9. Placement'
  BY <1>6, <1>8 DEF Placement
<1>10. Retires
  BY <1>1, <1>4, <1>5, <1>6 DEF Retires
<1>11. QED
  BY <1>9, <1>10 DEF Moves

\* Routes are removed and their pools closed.
LEMMA RemovalsMove == ASSUME IInv, Placement, NEW t \in Tasks, RemoveRoutes(t) \/ RemoveStale(t) PROVE Moves
<1>1. CASE RemoveRoutes(t)
  <2> DEFINE M == {route[j] : j \in todo[t] \cap Routed}
             K == todo[t] \cap Keys
  <2>1. /\ UNCHANGED <<made, detached, gone>>
        /\ closing' = closing \cup M
        /\ route' = [j \in Keys |-> IF j \in K THEN None ELSE route[j]]
    BY <1>1 DEF RemoveRoutes, poolVars
  <2>2. \A u \in Tasks : Own(u)' = Own(u)
    BY <1>1, PlaceTypes DEF RemoveRoutes, At, GoTo, Own, OwnPc
  <2>3. OwnedPools' = OwnedPools /\ OutPools' = OutPools
    BY <2>1, <2>2, OwnedSame DEF OutPools
  <2>4. TablePools' = TablePools \ {route[j] : j \in K}
    BY <2>1, TableLoses
  <2>5. TablePools \ {route[j] : j \in K} = TablePools \ M /\ M \subseteq TablePools
    BY PlaceTypes DEF Routed, TablePools
  <2> HIDE DEF M, K
  <2>6. Divides(TablePools, OwnedPools, OutPools, closing, gone, 1..made)
    BY DEF Placement
  <2>7. Divides(TablePools', OwnedPools', OutPools', closing', gone', 1..made')
    BY <2>1, <2>3, <2>4, <2>5, <2>6 DEF Divides
  <2>8. Placement'
    BY <2>1, <2>7 DEF Placement
  <2>9. Retires
    BY <2>1, <2>3, <2>4, <2>5 DEF Retires
  <2>10. QED
    BY <2>8, <2>9 DEF Moves
<1>2. CASE RemoveStale(t)
  <2> DEFINE k == key[t]
             M == {route[k]} \ {None}
  <2>1. /\ UNCHANGED <<made, detached, gone>>
        /\ closing' = closing \cup M
        /\ route' = [route EXCEPT ![k] = None]
    BY <1>2 DEF RemoveStale, poolVars
  <2>2. k \in Keys
    BY <1>2 DEF RemoveStale, At, IInv, LocalsFollowControl
  <2>3. \A u \in Tasks : Own(u)' = Own(u)
    BY <1>2, PlaceTypes DEF RemoveStale, At, GoTo, Own, OwnPc
  <2>4. OwnedPools' = OwnedPools /\ OutPools' = OutPools
    BY <2>1, <2>3, OwnedSame DEF OutPools
  <2>5. TablePools' = TablePools \ {route[k]}
    BY <2>1, <2>2, TableChange
  <2>6. TablePools \ {route[k]} = TablePools \ M /\ M \subseteq TablePools
    BY <2>2, PlaceTypes DEF TablePools
  <2> HIDE DEF M, k
  <2>7. Divides(TablePools, OwnedPools, OutPools, closing, gone, 1..made)
    BY DEF Placement
  <2>8. Divides(TablePools', OwnedPools', OutPools', closing', gone', 1..made')
    BY <2>1, <2>4, <2>5, <2>6, <2>7 DEF Divides
  <2>9. Placement'
    BY <2>1, <2>8 DEF Placement
  <2>10. Retires
    BY <2>1, <2>4, <2>5, <2>6 DEF Retires
  <2>11. QED
    BY <2>9, <2>10 DEF Moves
<1>3. QED
  BY <1>1, <1>2

\* A pool that is made is its maker's.
LEMMA CreationMoves == ASSUME IInv, Placement, NEW t \in Tasks, CreateNative(t) \/ Create(t) PROVE Moves
<1>1. /\ UNCHANGED <<route, detached, closing, gone>>
      /\ made < MaxPools /\ made' = made + 1 /\ pc[t] \notin OwnPc
      /\ pool' = [pool EXCEPT ![t] = made + 1] /\ pc' = [pc EXCEPT ![t] = "created"]
  BY DEF CreateNative, Create, At, GoTo, OwnPc, tableVars, endVars
<1>2. made + 1 \in Pools /\ made \in Nat
  BY <1>1, PlaceTypes, ConnectionPoolsAssumption DEF Pools
<1>3. Own(t) = None /\ Own(t)' = made + 1 /\ \A u \in Tasks \ {t} : Own(u)' = Own(u)
  BY <1>1, PlaceTypes DEF Own, OwnPc
<1>4. OwnedPools' = OwnedPools \cup {made + 1}
  <2>1. None \notin OwnedPools /\ made + 1 # None
    BY <1>2, PlaceTypes DEF OwnedPools, None
  <2>2. OwnedPools' = (OwnedPools \ {None}) \cup ({made + 1} \ {None})
    BY <1>2, <1>3, OwnedChange
  <2>3. QED
    BY <2>1, <2>2
<1>5. TablePools' = TablePools /\ OutPools' = OutPools
  BY <1>1 DEF TablePools, OutPools
<1>6. 1..made' = (1..made) \cup {made + 1} /\ made + 1 \notin 1..made
  BY <1>1, <1>2
<1>7. Divides(TablePools, OwnedPools, OutPools, closing, gone, 1..made)
  BY DEF Placement
<1>8. Divides(TablePools, OwnedPools \cup {made + 1}, OutPools, closing, gone, (1..made) \cup {made + 1})
  <2> DEFINE new == made + 1
             S == 1..made
  <2>1. new \notin S
    BY <1>6
  <2> HIDE DEF new, S
  <2>2. Divides(TablePools, OwnedPools, OutPools, closing, gone, S)
    BY <1>7 DEF S
  <2>3. Divides(TablePools, OwnedPools \cup {new}, OutPools, closing, gone, S \cup {new})
    BY <2>1, <2>2 DEF Divides
  <2>4. QED
    BY <2>3 DEF new, S
<1>9. Divides(TablePools', OwnedPools', OutPools', closing', gone', 1..made')
  BY <1>1, <1>4, <1>5, <1>6, <1>8
<1>10. Placement'
  BY <1>1, <1>9 DEF Placement
<1>11. Makes
  BY <1>1, <1>4, <1>5 DEF Makes
<1>12. QED
  BY <1>10, <1>11 DEF Moves

\* A task ends the pool it owns.
LEMMA OwnerEnds == ASSUME IInv, Placement, NEW t \in Tasks, Discard(t) \/ ReclaimCloses(t) PROVE Moves
<1>1. /\ UNCHANGED <<route, detached, made>> /\ pc[t] \in OwnPc
      /\ \/ closing' = closing \cup {pool[t]} /\ gone' = gone
         \/ closing' = closing /\ gone' = gone \cup {pool[t]}
  BY DEF Discard, ReclaimCloses, At, OwnPc, tableVars, poolVars
<1>2. Own(t)' = None /\ \A u \in Tasks \ {t} : Own(u)' = Own(u)
  BY PlaceTypes DEF Discard, ReclaimCloses, At, GoTo, Own, OwnPc
<1>3. Own(t) = pool[t] /\ pool[t] \in Pools /\ pool[t] \in OwnedPools
  BY <1>1, PlaceTypes DEF OwnedPools
<1>4. OwnedPools' = OwnedPools \ {pool[t]}
  BY <1>2, <1>3, OwnedChange
<1>5. TablePools' = TablePools /\ OutPools' = OutPools
  BY <1>1 DEF TablePools, OutPools
<1>6. Divides(TablePools, OwnedPools, OutPools, closing, gone, 1..made)
  BY DEF Placement
<1>7. Divides(TablePools', OwnedPools', OutPools', closing', gone', 1..made')
  BY <1>1, <1>3, <1>4, <1>5, <1>6 DEF Divides
<1>8. Placement'
  BY <1>1, <1>7 DEF Placement
<1>9. Retires
  BY <1>1, <1>3, <1>4, <1>5 DEF Retires
<1>10. QED
  BY <1>8, <1>9 DEF Moves

\* A task puts the pool it owns into the table; the one that was there is closed
\* or dropped.
LEMMA InsertMoves == ASSUME IInv, Placement, NEW t \in Tasks, Insert(t) \/ RestoreWithoutConfig(t) PROVE Moves
<1>1. PICK k \in Keys :
        /\ UNCHANGED <<detached, made>> /\ pc[t] \in OwnPc
        /\ route' = [route EXCEPT ![k] = pool[t]]
        /\ \/ closing' = closing \cup ({route[k]} \ {None}) /\ gone' = gone
           \/ closing' = closing /\ gone' = gone \cup ({route[k]} \ {None})
  <2>1. CASE Insert(t)
    <3>1. Target(t) \in Keys
      BY <2>1, ConnectionPoolsAssumption DEF Insert, At, Target, IInv, LocalsFollowControl
    <3>2. QED
      BY <2>1, <3>1 DEF Insert, At, OwnPc, poolVars
  <2>2. CASE RestoreWithoutConfig(t)
    <3>1. drain[t] \in Keys
      BY <2>2, ConnectionPoolsAssumption DEF RestoreWithoutConfig, At, IInv, LocalsFollowControl
    <3>2. QED
      BY <2>2, <3>1 DEF RestoreWithoutConfig, At, OwnPc, poolVars
  <2>3. QED
    BY <2>1, <2>2
<1>2. Own(t)' = None /\ \A u \in Tasks \ {t} : Own(u)' = Own(u)
  BY PlaceTypes DEF Insert, RestoreWithoutConfig, At, GoTo, Own, OwnPc
<1>3. Own(t) = pool[t] /\ pool[t] \in Pools /\ pool[t] \in OwnedPools
  BY <1>1, PlaceTypes DEF OwnedPools
<1>4. OwnedPools' = OwnedPools \ {pool[t]}
  BY <1>2, <1>3, OwnedChange
<1>5. TablePools' = (TablePools \ {route[k]}) \cup {pool[t]}
  <2>1. TablePools' = (TablePools \ {route[k]}) \cup ({pool[t]} \ {None})
    BY <1>1, <1>3, TableChange
  <2>2. pool[t] # None
    BY <1>3, PlaceTypes
  <2>3. QED
    BY <2>1, <2>2
<1>6. route[k] # None => route[k] \in TablePools
  BY PlaceTypes DEF TablePools
<1>7. None \notin TablePools
  BY PlaceTypes DEF TablePools
<1>8. OutPools' = OutPools
  BY <1>1 DEF OutPools
<1>9. Divides(TablePools, OwnedPools, OutPools, closing, gone, 1..made)
  BY DEF Placement
<1>10. Divides(TablePools', OwnedPools', OutPools', closing', gone', 1..made')
  BY <1>1, <1>3, <1>4, <1>5, <1>6, <1>7, <1>8, <1>9 DEF Divides
<1>11. Placement'
  BY <1>1, <1>10 DEF Placement
<1>12. CASE route[k] = None
  <2>1. TablePools' = TablePools \cup {pool[t]} /\ closing' = closing /\ gone' = gone
    BY <1>1, <1>5, <1>7, <1>12
  <2>2. Publishes
    BY <1>1, <1>3, <1>4, <1>8, <2>1 DEF Publishes
  <2>3. QED
    BY <1>11, <2>2 DEF Moves
<1>13. CASE route[k] # None
  <2>1. {route[k]} \ {None} = {route[k]} /\ route[k] \in TablePools
    BY <1>6, <1>13
  <2>2. Supersedes
    BY <1>1, <1>3, <1>4, <1>5, <1>8, <2>1 DEF Supersedes
  <2>3. QED
    BY <1>11, <2>2 DEF Moves
<1>14. QED
  BY <1>12, <1>13

\* A reclaim takes the pool out of the table and owns it.
LEMMA TakeMoves == ASSUME IInv, Placement, NEW t \in Tasks, Take(t) PROVE Moves
<1> DEFINE k == drain[t]
<1>1. /\ UNCHANGED <<detached, closing, gone, made>>
      /\ route[k] # None /\ pc[t] \notin OwnPc
      /\ route' = [route EXCEPT ![k] = None]
      /\ pool' = [pool EXCEPT ![t] = route[k]] /\ pc' = [pc EXCEPT ![t] = "closeReclaimed"]
  BY DEF Take, At, GoTo, OwnPc, endVars, poolVars
<1>2. k \in Keys
  BY ConnectionPoolsAssumption DEF Take, At, IInv, LocalsFollowControl
<1> HIDE DEF k
<1>3. Own(t) = None /\ Own(t)' = route[k] /\ \A u \in Tasks \ {t} : Own(u)' = Own(u)
  BY <1>1, PlaceTypes DEF Own, OwnPc
<1>4. route[k] \in Pools /\ route[k] \in TablePools /\ None \notin Pools
  BY <1>1, <1>2, PlaceTypes DEF TablePools
<1>5. OwnedPools' = OwnedPools \cup {route[k]}
  <2>1. OwnedPools' = (OwnedPools \ {None}) \cup ({route[k]} \ {None})
    BY <1>3, <1>4, OwnedChange
  <2>2. None \notin OwnedPools
    BY <1>4 DEF OwnedPools
  <2>3. QED
    BY <1>1, <2>1, <2>2
<1>6. TablePools' = TablePools \ {route[k]}
  BY <1>1, <1>2, TableChange
<1>7. OutPools' = OutPools
  BY <1>1 DEF OutPools
<1>8. Divides(TablePools, OwnedPools, OutPools, closing, gone, 1..made)
  BY DEF Placement
<1>9. Divides(TablePools', OwnedPools', OutPools', closing', gone', 1..made')
  BY <1>1, <1>4, <1>5, <1>6, <1>7, <1>8 DEF Divides
<1>10. Placement'
  BY <1>1, <1>9 DEF Placement
<1>11. Reclaims
  BY <1>1, <1>4, <1>5, <1>6, <1>7 DEF Reclaims
<1>12. QED
  BY <1>10, <1>11 DEF Moves

\* The future of a call is dropped: with it what it owns, closes and waits for.
LEMMA DroppedMoves == ASSUME IInv, Placement, NEW t \in Tasks, Dropped(t) PROVE Moves
<1> DEFINE own == {Own(t)} \ {None}
           inline == IF pc[t] \in ClosePc THEN closing \cap {pool[t]} ELSE {}
           A == AwaitedBy(t)
           B == UNION {PoolsOf(g) : g \in A}
<1>1. /\ UNCHANGED <<route, made>>
      /\ detached' = detached \ A
      /\ closing' = closing \ inline
  BY DEF Dropped, poolVars
<1>2. gone' = gone \cup own \cup inline \cup B
  <2>1. own = IF pc[t] \in OwnPc THEN {pool[t]} ELSE {}
    BY PlaceTypes DEF Own
  <2>2. QED
    BY <2>1 DEF Dropped
<1>3. Own(t)' = None /\ \A u \in Tasks \ {t} : Own(u)' = Own(u)
  BY PlaceTypes DEF Dropped, GoTo, Own, OwnPc
<1>4. own \subseteq OwnedPools
  BY PlaceTypes DEF OwnedPools
<1>5. OwnedPools' = OwnedPools \ own
  <2>1. OwnedPools' = OwnedPools \ {Own(t)}
    BY <1>3, OwnedChange
  <2>2. None \notin OwnedPools
    BY PlaceTypes DEF OwnedPools
  <2>3. QED
    BY <2>1, <2>2
<1>6. A \subseteq detached /\ inline \subseteq closing
  BY DEF AwaitedBy
<1>7. \A g \in A : PoolsOf(g) \subseteq Pools
  BY <1>6, GroupTypes
<1>8. \A h, i \in detached : \A p \in Pools : p \in PoolsOf(h) /\ p \in PoolsOf(i) => h = i
  BY DEF Placement
<1> HIDE DEF own, inline, A
<1>9. B \subseteq OutPools
  BY <1>6, <1>7 DEF OutPools
<1>10. OutPools' = OutPools \ B
  <2>1. ASSUME NEW p \in Pools
        PROVE  (\E h \in detached' : p \in PoolsOf(h)) <=> (\E h \in detached : p \in PoolsOf(h)) /\ p \notin B
    <3>1. ASSUME NEW h \in detached', p \in PoolsOf(h) PROVE p \notin B
      <4>1. ASSUME NEW i \in A PROVE p \notin PoolsOf(i)
        BY <1>1, <1>6, <1>8, <3>1, <4>1
      <4>2. QED
        BY <4>1
    <3>2. ASSUME NEW h \in detached, p \in PoolsOf(h), p \notin B PROVE h \in detached'
      BY <1>1, <3>2
    <3>3. QED
      BY <1>1, <3>1, <3>2
  <2>2. OutPools' = {p \in Pools : \E h \in detached' : p \in PoolsOf(h)}
    BY DEF OutPools
  <2> HIDE DEF B
  <2>3. QED
    BY <2>1, <2>2 DEF OutPools
<1>11. TablePools' = TablePools
  BY <1>1 DEF TablePools
<1> HIDE DEF B
<1>12. Divides(TablePools, OwnedPools, OutPools, closing, gone, 1..made)
  BY DEF Placement
<1>13. Divides(TablePools', OwnedPools', OutPools', closing', gone', 1..made')
  BY <1>1, <1>2, <1>4, <1>5, <1>6, <1>9, <1>10, <1>11, <1>12 DEF Divides
<1>14. \A h, i \in detached' : \A p \in Pools : p \in PoolsOf(h) /\ p \in PoolsOf(i) => h = i
  BY <1>1, <1>8
<1>15. Placement'
  BY <1>13, <1>14 DEF Placement
<1>16. Retires
  BY <1>1, <1>2, <1>4, <1>5, <1>6, <1>9, <1>10, <1>11 DEF Retires
<1>17. QED
  BY <1>15, <1>16 DEF Moves

-----------------------------------------------------------------------------
\* Nothing was made at the start.
LEMMA InitPlacement == Init => Placement
<1> SUFFICES ASSUME Init PROVE Placement
  OBVIOUS
<1>1. TablePools = {} /\ OwnedPools = {} /\ OutPools = {}
  BY DEF Init, TablePools, OwnedPools, OutPools, Own, OwnPc, Pools, None
<1>2. closing = {} /\ gone = {} /\ detached = {} /\ 1..made = {}
  BY DEF Init
<1>3. QED
  BY <1>1, <1>2 DEF Placement, Divides

\* Every step moves pools in one of the ways, and keeps every pool in one place.
LEMMA NextMoves == IInv /\ Placement /\ [Next]_vars => Moves
<1>1. ASSUME IInv, Placement, Next PROVE Moves
  <2>1. ASSUME NEW t \in Tasks, Begins(t) PROVE Moves
    BY <1>1, <2>1, QuietActions, DetachingActions DEF Begins
  <2>2. ASSUME NEW t \in Tasks, Goes(t) PROVE Moves
    BY <1>1, <2>2, QuietActions, DetachingActions, ReclaimReplacesMoves, RemovalsMove, CreationMoves, OwnerEnds,
        InsertMoves, TakeMoves, CloseNextMoves DEF Goes
  <2>3. ASSUME NEW t \in Tasks, Uses(t) PROVE Moves
    BY <1>1, <2>3, QuietActions, DetachingActions DEF Uses
  <2>4. ASSUME NEW t \in Tasks, Dropped(t) PROVE Moves
    BY <1>1, <2>4, DroppedMoves
  <2>5. ASSUME Keepalives PROVE Moves
    BY <1>1, <2>5, QuietActions, DetachingActions DEF Keepalives
  <2>6. ASSUME Ends PROVE Moves
    BY <1>1, <2>6, GroupEnds, CloseMoves, CloseReplacesMoves DEF Ends
  <2>7. ASSUME RuntimeDies PROVE Moves
    BY <1>1, <2>7, QuietActions
  <2>8. QED
    BY <1>1, <2>1, <2>2, <2>3, <2>4, <2>5, <2>6, <2>7 DEF Next
<1>2. ASSUME IInv, Placement, UNCHANGED vars PROVE Moves
  <2>1. UNCHANGED <<route, detached, closing, gone, made>> /\ \A u \in Tasks : Own(u)' = Own(u)
    BY <1>2 DEF vars, tableVars, endVars, poolVars, taskVars, Own
  <2>2. QED
    BY <1>2, <2>1, NothingMoves
<1>3. QED
  BY <1>1, <1>2

\* The pools are divided among the places at all times.
LEMMA PlacementHolds == Spec => []Placement
<1>1. IInv /\ Placement /\ [Next]_vars => Placement'
  BY NextMoves DEF Moves
<1>2. QED
  BY <1>1, InitPlacement, IInvHolds, PTL DEF Spec

\* A pool that the division puts somewhere has that place and no other.
LEMMA PlacesOfPool ==
  ASSUME IInv, Placement, NEW p \in Pools
  PROVE  Cardinality(Places(p)) = IF p <= made THEN 1 ELSE 0
<1> DEFINE T == {<<"routed", k>> : k \in {k \in Keys : route[k] = p}}
           O == {<<"owned", t>> : t \in {t \in Tasks : pool[t] = p /\ pc[t] \in OwnPc}}
           D == {<<"detached", g>> : g \in {g \in detached : p \in PoolsOf(g)}}
           C == {<<"closing", p>> : q \in closing \cap {p}}
           G == {<<"gone", p>> : q \in gone \cap {p}}
<1>1. Places(p) = T \cup O \cup D \cup C \cup G
  BY DEF Places
<1>2. Divides(TablePools, OwnedPools, OutPools, closing, gone, 1..made)
  BY DEF Placement
<1>3. p \in Nat /\ p >= 1 /\ made \in Nat
  BY PlaceTypes, ConnectionPoolsAssumption DEF Pools
<1>4. p \notin TablePools => T = {}
  BY DEF TablePools
<1>5. p \notin OwnedPools => O = {}
  BY DEF OwnedPools, Own
<1>6. p \notin OutPools => D = {}
  BY DEF OutPools
<1>7. p \notin closing => C = {}
  OBVIOUS
<1>8. p \notin gone => G = {}
  OBVIOUS
<1>9. p \in TablePools => \E x : T = {x}
  <2> SUFFICES ASSUME p \in TablePools PROVE \E x : T = {x}
    OBVIOUS
  <2>1. PICK k \in Keys : route[k] = p
    BY DEF TablePools
  <2>2. \A j \in Keys : route[j] = p => j = k
    BY <2>1, PlaceTypes DEF IInv, OwnersAreExclusive
  <2>3. T = {<<"routed", k>>}
    BY <2>1, <2>2
  <2>4. QED
    BY <2>3
<1>10. p \in OwnedPools => \E x : O = {x}
  <2> SUFFICES ASSUME p \in OwnedPools PROVE \E x : O = {x}
    OBVIOUS
  <2>1. PICK t \in Tasks : pool[t] = p /\ pc[t] \in OwnPc
    BY PlaceTypes DEF OwnedPools, Own
  <2>2. \A u \in Tasks : pool[u] = p /\ pc[u] \in OwnPc => u = t
    BY <2>1 DEF IInv, OwnersAreExclusive
  <2>3. O = {<<"owned", t>>}
    BY <2>1, <2>2
  <2>4. QED
    BY <2>3
<1>11. p \in OutPools => \E x : D = {x}
  <2> SUFFICES ASSUME p \in OutPools PROVE \E x : D = {x}
    OBVIOUS
  <2>1. PICK g \in detached : p \in PoolsOf(g)
    BY DEF OutPools
  <2>2. \A h \in detached : p \in PoolsOf(h) => h = g
    BY <2>1 DEF Placement
  <2>3. D = {<<"detached", g>>}
    BY <2>1, <2>2
  <2>4. QED
    BY <2>3
<1>12. p \in closing => \E x : C = {x}
  <2>1. p \in closing => C = {<<"closing", p>>}
    OBVIOUS
  <2>2. QED
    BY <2>1
<1>13. p \in gone => \E x : G = {x}
  <2>1. p \in gone => G = {<<"gone", p>>}
    OBVIOUS
  <2>2. QED
    BY <2>1
<1> HIDE DEF T, O, D, C, G
<1>14. CASE p <= made
  <2>1. p \in 1..made
    BY <1>3, <1>14
  <2>2. p \in TablePools \/ p \in OwnedPools \/ p \in OutPools \/ p \in closing \/ p \in gone
    BY <1>2, <2>1 DEF Divides
  <2>3. \E x : Places(p) = {x}
    <3>1. CASE p \in TablePools
      <4>1. Places(p) = T
        BY <1>1, <1>2, <1>5, <1>6, <1>7, <1>8, <3>1 DEF Divides
      <4>2. QED
        BY <1>9, <3>1, <4>1
    <3>2. CASE p \in OwnedPools
      <4>1. Places(p) = O
        BY <1>1, <1>2, <1>4, <1>6, <1>7, <1>8, <3>2 DEF Divides
      <4>2. QED
        BY <1>10, <3>2, <4>1
    <3>3. CASE p \in OutPools
      <4>1. Places(p) = D
        BY <1>1, <1>2, <1>4, <1>5, <1>7, <1>8, <3>3 DEF Divides
      <4>2. QED
        BY <1>11, <3>3, <4>1
    <3>4. CASE p \in closing
      <4>1. Places(p) = C
        BY <1>1, <1>2, <1>4, <1>5, <1>6, <1>8, <3>4 DEF Divides
      <4>2. QED
        BY <1>12, <3>4, <4>1
    <3>5. CASE p \in gone
      <4>1. Places(p) = G
        BY <1>1, <1>2, <1>4, <1>5, <1>6, <1>7, <3>5 DEF Divides
      <4>2. QED
        BY <1>13, <3>5, <4>1
    <3>6. QED
      BY <2>2, <3>1, <3>2, <3>3, <3>4, <3>5
  <2>4. PICK x : Places(p) = {x}
    BY <2>3
  <2>5. Cardinality(Places(p)) = 1
    BY <2>4, FS_Singleton
  <2>6. QED
    BY <1>14, <2>5
<1>15. CASE ~(p <= made)
  <2>1. p \notin 1..made
    BY <1>3, <1>15
  <2>2. p \notin TablePools /\ p \notin OwnedPools /\ p \notin OutPools /\ p \notin closing /\ p \notin gone
    BY <1>2, <2>1 DEF Divides
  <2>3. Places(p) = {}
    BY <1>1, <1>4, <1>5, <1>6, <1>7, <1>8, <2>2
  <2>4. Cardinality(Places(p)) = 0
    BY <2>3, FS_EmptySet
  <2>5. QED
    BY <1>15, <2>4
<1>16. QED
  BY <1>14, <1>15

(***************************************************************************)
(* No pool is closed twice or routed after its end, and none leaves the    *)
(* table without somebody who closes or drops it: for any keys and tasks,  *)
(* and through every detach, reclaim, restore, replacement and dropped     *)
(* future, each pool that was made is in one place (connections,           *)
(* PoolRoutingControl and close_pool_with_timeout of connection.rs).       *)
(***************************************************************************)
THEOREM PoolsAreInOnePlace == Spec => []PoolIsInOnePlace
<1>1. IInv /\ Placement => PoolIsInOnePlace
  BY PlacesOfPool DEF PoolIsInOnePlace
<1>2. QED
  BY <1>1, IInvHolds, PlacementHolds, PTL

-----------------------------------------------------------------------------
(* The pools implement PoolLifecycle.                                      *)

\* The mapping of the refinement.
PlaceMap == [p \in Pools |-> Place(p)]

\* The set a pool is in decides where it is.
LEMMA PlaceIs ==
  Placement => \A p \in Pools :
    /\ p \in TablePools => Place(p) = "routed"
    /\ p \in OwnedPools => Place(p) = "owned"
    /\ p \in OutPools => Place(p) = "detached"
    /\ p \in closing => Place(p) = "closing"
    /\ p \in gone => Place(p) = "gone"
    /\ p \notin 1..made => Place(p) = "unmade"
<1> SUFFICES ASSUME Placement, NEW p \in Pools
             PROVE  /\ p \in TablePools => Place(p) = "routed"
                    /\ p \in OwnedPools => Place(p) = "owned"
                    /\ p \in OutPools => Place(p) = "detached"
                    /\ p \in closing => Place(p) = "closing"
                    /\ p \in gone => Place(p) = "gone"
                    /\ p \notin 1..made => Place(p) = "unmade"
  OBVIOUS
<1>1. p \in TablePools <=> \E k \in Keys : route[k] = p
  BY DEF TablePools
<1>2. p \in OwnedPools <=> \E t \in Tasks : pool[t] = p /\ pc[t] \in OwnPc
  BY DEF OwnedPools, Own, Pools, None
<1>3. p \in OutPools <=> \E g \in detached : p \in PoolsOf(g)
  BY DEF OutPools
<1>4. Place(p) = CASE p \in TablePools -> "routed"
                   [] p \in OwnedPools -> "owned"
                   [] p \in OutPools   -> "detached"
                   [] p \in closing    -> "closing"
                   [] p \in gone       -> "gone"
                   [] OTHER            -> "unmade"
  BY <1>1, <1>2, <1>3 DEF Place
<1>5. Divides(TablePools, OwnedPools, OutPools, closing, gone, 1..made)
  BY DEF Placement
<1>6. QED
  BY <1>4, <1>5 DEF Divides

\* The same after a step.
LEMMA PlaceIsNext ==
  Placement' => \A p \in Pools :
    /\ p \in TablePools' => Place(p)' = "routed"
    /\ p \in OwnedPools' => Place(p)' = "owned"
    /\ p \in OutPools' => Place(p)' = "detached"
    /\ p \in closing' => Place(p)' = "closing"
    /\ p \in gone' => Place(p)' = "gone"
    /\ p \notin 1..made' => Place(p)' = "unmade"
<1>1. (Placement => \A p \in Pools :
         /\ p \in TablePools => Place(p) = "routed"
         /\ p \in OwnedPools => Place(p) = "owned"
         /\ p \in OutPools => Place(p) = "detached"
         /\ p \in closing => Place(p) = "closing"
         /\ p \in gone => Place(p) = "gone"
         /\ p \notin 1..made => Place(p) = "unmade")'
  BY PlaceIs, PTL
<1>2. QED
  BY <1>1

\* A pool is in one of the sets, or was not made.
LEMMA SomewhereOrUnmade ==
  ASSUME Placement, NEW p \in Pools
  PROVE  p \in TablePools \/ p \in OwnedPools \/ p \in OutPools \/ p \in closing \/ p \in gone \/ p \notin 1..made
  BY DEF Placement, Divides

\* Pools that go out go one of the ways out.
LEMMA RetiresIsRetire == Placement /\ Placement' /\ Retires => Lifecycle!Retire
<1> SUFFICES ASSUME Placement, Placement', Retires PROVE Lifecycle!Retire
  OBVIOUS
<1>1. Divides(TablePools, OwnedPools, OutPools, closing, gone, 1..made)
  BY DEF Placement
<1>2. Divides(TablePools', OwnedPools', OutPools', closing', gone', 1..made')
  BY DEF Placement
<1>3. ASSUME NEW p \in Pools PROVE Place(p)' = Place(p) \/ Place(p)' \in Lifecycle!Out(Place(p))
  <2>1. CASE p \in TablePools
    <3>1. p \in TablePools' \/ p \in OutPools' \/ p \in closing'
      BY <1>1, <1>2, <2>1 DEF Divides, Retires
    <3>2. QED
      BY <2>1, <3>1, PlaceIs, PlaceIsNext DEF Lifecycle!Out
  <2>2. CASE p \in OwnedPools
    <3>1. p \in OwnedPools' \/ p \in closing' \/ p \in gone'
      BY <1>1, <1>2, <2>2 DEF Divides, Retires
    <3>2. QED
      BY <2>2, <3>1, PlaceIs, PlaceIsNext DEF Lifecycle!Out
  <2>3. CASE p \in OutPools
    <3>1. p \in OutPools' \/ p \in closing' \/ p \in gone'
      BY <1>1, <1>2, <2>3 DEF Divides, Retires
    <3>2. QED
      BY <2>3, <3>1, PlaceIs, PlaceIsNext DEF Lifecycle!Out
  <2>4. CASE p \in closing
    <3>1. p \in closing' \/ p \in gone'
      BY <1>1, <1>2, <2>4 DEF Divides, Retires
    <3>2. QED
      BY <2>4, <3>1, PlaceIs, PlaceIsNext DEF Lifecycle!Out
  <2>5. CASE p \in gone
    <3>1. p \in gone'
      BY <1>1, <1>2, <2>5 DEF Divides, Retires
    <3>2. QED
      BY <2>5, <3>1, PlaceIs, PlaceIsNext
  <2>6. CASE p \notin 1..made
    <3>1. p \notin 1..made'
      BY <2>6 DEF Retires
    <3>2. QED
      BY <2>6, <3>1, PlaceIs, PlaceIsNext
  <2>7. QED
    BY <2>1, <2>2, <2>3, <2>4, <2>5, <2>6, SomewhereOrUnmade
<1>4. QED
  BY <1>3 DEF Lifecycle!Retire

\* A pool that stays in its set stays in its place.
LEMMA StaysPut ==
  ASSUME Placement, Placement', NEW p \in Pools,
         \/ p \in TablePools /\ p \in TablePools'
         \/ p \in OwnedPools /\ p \in OwnedPools'
         \/ p \in OutPools /\ p \in OutPools'
         \/ p \in closing /\ p \in closing'
         \/ p \in gone /\ p \in gone'
         \/ p \notin 1..made /\ p \notin 1..made'
  PROVE  Place(p)' = Place(p)
  BY PlaceIs, PlaceIsNext

\* The pool that is made is the next one, and its maker owns it.
LEMMA MakesIsMake == Placement /\ Placement' /\ made \in 0..MaxPools /\ Makes => \E p \in Pools : Lifecycle!Make(p)
<1> SUFFICES ASSUME Placement, Placement', made \in 0..MaxPools, Makes PROVE \E p \in Pools : Lifecycle!Make(p)
  OBVIOUS
<1>0. PICK p : p = made + 1
  OBVIOUS
<1>1. p \in Pools /\ p \notin 1..made /\ p \in OwnedPools' /\ 1..made' = (1..made) \cup {p}
  BY <1>0, ConnectionPoolsAssumption DEF Makes, Pools
<1>2. \A q \in Pools \ {p} : \/ q \in TablePools /\ q \in TablePools'
                             \/ q \in OwnedPools /\ q \in OwnedPools'
                             \/ q \in OutPools /\ q \in OutPools'
                             \/ q \in closing /\ q \in closing'
                             \/ q \in gone /\ q \in gone'
                             \/ q \notin 1..made /\ q \notin 1..made'
  BY <1>0, <1>1, SomewhereOrUnmade DEF Makes
<1>3. Place(p) = "unmade" /\ Place(p)' = "owned"
  BY <1>1, PlaceIs, PlaceIsNext
<1>4. \A q \in Pools \ {p} : Place(q)' = Place(q)
  BY <1>2, StaysPut
<1>5. QED
  BY <1>1, <1>3, <1>4 DEF Lifecycle!Make

\* An insert under a key without a pool.
LEMMA PublishesIsPublish == Placement /\ Placement' /\ Publishes => \E p \in Pools : Lifecycle!Publish(p)
<1> SUFFICES ASSUME Placement, Placement', Publishes PROVE \E p \in Pools : Lifecycle!Publish(p)
  OBVIOUS
<1>1. PICK p \in OwnedPools :
        /\ OwnedPools' = OwnedPools \ {p} /\ TablePools' = TablePools \cup {p}
        /\ made' = made /\ OutPools' = OutPools /\ closing' = closing /\ gone' = gone
  BY DEF Publishes
<1>2. p \in Pools
  BY DEF OwnedPools
<1>3. Place(p) = "owned" /\ Place(p)' = "routed"
  BY <1>1, <1>2, PlaceIs, PlaceIsNext
<1>4. \A q \in Pools \ {p} : \/ q \in TablePools /\ q \in TablePools'
                             \/ q \in OwnedPools /\ q \in OwnedPools'
                             \/ q \in OutPools /\ q \in OutPools'
                             \/ q \in closing /\ q \in closing'
                             \/ q \in gone /\ q \in gone'
                             \/ q \notin 1..made /\ q \notin 1..made'
  BY <1>1, SomewhereOrUnmade
<1>5. \A q \in Pools \ {p} : Place(q)' = Place(q)
  BY <1>4, StaysPut
<1>6. QED
  BY <1>2, <1>3, <1>5 DEF Lifecycle!Publish

\* A reclaim takes one pool.
LEMMA ReclaimsIsReclaim == Placement /\ Placement' /\ Reclaims => \E p \in Pools : Lifecycle!Reclaim(p)
<1> SUFFICES ASSUME Placement, Placement', Reclaims PROVE \E p \in Pools : Lifecycle!Reclaim(p)
  OBVIOUS
<1>1. PICK p \in TablePools :
        /\ TablePools' = TablePools \ {p} /\ OwnedPools' = OwnedPools \cup {p}
        /\ made' = made /\ OutPools' = OutPools /\ closing' = closing /\ gone' = gone
  BY DEF Reclaims
<1>2. p \in Pools
  BY DEF TablePools
<1>3. Place(p) = "routed" /\ Place(p)' = "owned"
  BY <1>1, <1>2, PlaceIs, PlaceIsNext
<1>4. \A q \in Pools \ {p} : \/ q \in TablePools /\ q \in TablePools'
                             \/ q \in OwnedPools /\ q \in OwnedPools'
                             \/ q \in OutPools /\ q \in OutPools'
                             \/ q \in closing /\ q \in closing'
                             \/ q \in gone /\ q \in gone'
                             \/ q \notin 1..made /\ q \notin 1..made'
  BY <1>1, SomewhereOrUnmade
<1>5. \A q \in Pools \ {p} : Place(q)' = Place(q)
  BY <1>4, StaysPut
<1>6. QED
  BY <1>2, <1>3, <1>5 DEF Lifecycle!Reclaim

\* An insert in the place of another pool.
LEMMA SupersedesIsSupersede == Placement /\ Placement' /\ Supersedes => \E p, q \in Pools : Lifecycle!Supersede(p, q)
<1> SUFFICES ASSUME Placement, Placement', Supersedes PROVE \E p, q \in Pools : Lifecycle!Supersede(p, q)
  OBVIOUS
<1>1. PICK p \in OwnedPools, q \in TablePools :
        /\ OwnedPools' = OwnedPools \ {p} /\ TablePools' = (TablePools \ {q}) \cup {p}
        /\ made' = made /\ OutPools' = OutPools
        /\ \/ closing' = closing \cup {q} /\ gone' = gone
           \/ closing' = closing /\ gone' = gone \cup {q}
  BY DEF Supersedes
<1>2. p \in Pools /\ q \in Pools /\ p # q
  BY DEF OwnedPools, TablePools, Placement, Divides
<1>3. Place(p) = "owned" /\ Place(p)' = "routed" /\ Place(q) = "routed"
  BY <1>1, <1>2, PlaceIs, PlaceIsNext
<1>4. Place(q)' = "closing" \/ Place(q)' = "gone"
  BY <1>1, <1>2, PlaceIsNext
<1>5. \A r \in Pools \ {p, q} : \/ r \in TablePools /\ r \in TablePools'
                                \/ r \in OwnedPools /\ r \in OwnedPools'
                                \/ r \in OutPools /\ r \in OutPools'
                                \/ r \in closing /\ r \in closing'
                                \/ r \in gone /\ r \in gone'
                                \/ r \notin 1..made /\ r \notin 1..made'
  BY <1>1, SomewhereOrUnmade
<1>6. \A r \in Pools \ {p, q} : Place(r)' = Place(r)
  BY <1>5, StaysPut
<1>7. QED
  BY <1>2, <1>3, <1>4, <1>6 DEF Lifecycle!Supersede

(***************************************************************************)
(* The pools of connection.rs live the life that PoolLifecycle states, for *)
(* any keys, tasks and bounds: made and published by one owner, never back *)
(* from the way out, whose end is a close or the drop of the handle.       *)
(* Every step of the tasks, of PoolRoutingControl and of the keepalives is *)
(* a step of PoolLifecycle.                                                *)
(***************************************************************************)
THEOREM PoolsFollowLifecycle == Spec => PoolsLiveOnce
<1>1. Init => Lifecycle!LifecycleInit
  <2> SUFFICES ASSUME Init PROVE Lifecycle!LifecycleInit
    OBVIOUS
  <2>1. Placement /\ 1..made = {}
    BY InitPlacement DEF Init
  <2>2. \A p \in Pools : Place(p) = "unmade"
    BY <2>1, PlaceIs
  <2>3. QED
    BY <2>2 DEF Lifecycle!LifecycleInit
<1>2. IInv /\ Placement /\ [Next]_vars => [Lifecycle!LifecycleNext]_PlaceMap
  <2> SUFFICES ASSUME IInv, Placement, [Next]_vars PROVE Lifecycle!LifecycleNext
    OBVIOUS
  <2>1. Moves
    BY NextMoves
  <2>2. Placement'
    BY <2>1 DEF Moves
  <2>3. made \in 0..MaxPools
    BY PlaceTypes
  <2>4. CASE Retires
    BY <2>2, <2>4, RetiresIsRetire DEF Lifecycle!LifecycleNext
  <2>5. CASE Makes
    BY <2>2, <2>3, <2>5, MakesIsMake DEF Lifecycle!LifecycleNext
  <2>6. CASE Publishes
    BY <2>2, <2>6, PublishesIsPublish DEF Lifecycle!LifecycleNext
  <2>7. CASE Supersedes
    BY <2>2, <2>7, SupersedesIsSupersede DEF Lifecycle!LifecycleNext
  <2>8. CASE Reclaims
    BY <2>2, <2>8, ReclaimsIsReclaim DEF Lifecycle!LifecycleNext
  <2>9. QED
    BY <2>1, <2>4, <2>5, <2>6, <2>7, <2>8 DEF Moves
<1>3. QED
  BY <1>1, <1>2, IInvHolds, PlacementHolds, PTL DEF Spec, PoolsLiveOnce, Lifecycle!LifecycleSpec, PlaceMap
=============================================================================
