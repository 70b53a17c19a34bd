----------------------- MODULE TransportTunnelsProofs -----------------------
(***************************************************************************)
(* TLAPS proofs about TransportTunnels, for any tasks, layers, tunnels and *)
(* reconnect attempts: the start locks let one task at a time work on an   *)
(* SSH layer, and no running tunnel is lost.                               *)
(***************************************************************************)
EXTENDS TransportTunnels, FiniteSetTheorems, FunctionTheorems, TLAPS

\* A call begins at the first layer; the layer a task works on is an SSH layer
\* where start locks are used, and there the task has a clone of one from
\* start_lock on.
LocksFollowControl ==
  \A t \in Tasks :
    /\ pc[t] = "idle" => layer[t] = 0
    /\ pc[t] \in {"getLock", "lock", "recheck", "stopGetLock", "stopLock", "dropLock"} => ssh[layer[t]]
    /\ lock[t] # None <=>
         pc[t] \in {"lock", "stopLock"} \/ (pc[t] \in HoldPc /\ ssh[layer[t]])

\* The lock a task has a clone of is the one in the map, unless the map was
\* cleared while a lock of the layer was in use.
LockIsCurrent ==
  \A t \in Tasks : lock[t] # None => startLock[layer[t]] = lock[t] \/ split[layer[t]]

\* A start lock has one holder.
OneHolder ==
  \A t, u \in Tasks :
    lock[t] # None /\ lock[t] = lock[u] /\ pc[t] \in HoldPc /\ pc[u] \in HoldPc => t = u

\* A start has a tunnel in hand from the spawn to the insert, one of its layer.
MadeFollowsControl ==
  \A t \in Tasks : made[t] # None =>
    /\ pc[t] = "insert"
    /\ made[t] <= spawned
    /\ Live(made[t]) => layerOf[made[t]] = layer[t]

\* The SSH start that dials found no tunnel and nobody else inserts one meanwhile.
NothingToReplace ==
  \A t \in Tasks :
    pc[t] \in {"dial", "insert"} /\ ssh[layer[t]] => tunnels[layer[t]] = None \/ split[layer[t]]

IInv ==
  /\ TypeOK
  /\ LocksFollowControl
  /\ LockIsCurrent
  /\ OneHolder
  /\ MadeFollowsControl
  /\ NothingToReplace
  /\ EveryTunnelIsKept

\* The parts of the invariant about the start locks, and about the tunnels.
LocksInv == LocksFollowControl /\ LockIsCurrent /\ OneHolder
TunnelsInv == MadeFollowsControl /\ NothingToReplace /\ EveryTunnelIsKept

\* The types of the two halves of the state.
TaskTypes ==
  /\ pc \in [Tasks -> Pcs]
  /\ layer \in [Tasks -> Layers]
  /\ port \in [Tasks -> Tunnels \cup {None}]
  /\ lock \in [Tasks -> Locks \cup {None}]
  /\ made \in [Tasks -> Tunnels \cup {None}]

TunnelTypes ==
  /\ tun \in [Tunnels -> {"none", "up", "retry", "ended"}]
  /\ layerOf \in [Tunnels -> Layers]
  /\ upstream \in [Tunnels -> Tunnels \cup {None}]
  /\ attempts \in [Tunnels -> 0..MaxAttempts]

ManagerTypes ==
  /\ ssh \in [Layers -> BOOLEAN]
  /\ spawned \in 0..MaxTunnels
  /\ tunnels \in [Layers -> Tunnels \cup {None}]
  /\ startLock \in [Layers -> Locks \cup {None}]
  /\ down \subseteq {"ssh", "lazy"}
  /\ split \in [Layers -> BOOLEAN]
  /\ lost \subseteq Tunnels

\* A step of task t leaves the locals of the others alone.
OthersStay(t) ==
  \A u \in Tasks : u # t =>
    pc'[u] = pc[u] /\ layer'[u] = layer[u] /\ lock'[u] = lock[u] /\ made'[u] = made[u]

\* Task t is done with its layer.
Leaves(t) ==
  /\ TaskTypes'
  /\ OthersStay(t)
  /\ lock'[t] = None /\ made'[t] = None
  /\ pc'[t] \in {"idle", "check", "stopGetLock", "remove"}
  /\ pc'[t] = "idle" => layer'[t] = 0
  /\ pc'[t] = "stopGetLock" => ssh[layer'[t]]
  /\ pc'[t] = "remove" => ~ssh[layer'[t]]

-----------------------------------------------------------------------------
\* Type correctness is that of the parts.
LEMMA TypesSplit == TypeOK' <=> TaskTypes' /\ TunnelTypes' /\ ManagerTypes'
  BY DEF TypeOK, TaskTypes, TunnelTypes, ManagerTypes

\* Return ends the work on a layer.
LEMMA ReturnLeaves ==
  ASSUME TypeOK, NEW t \in Tasks, Return(t)
  PROVE  Leaves(t)
  BY TransportTunnelsAssumption
     DEF TypeOK, TaskTypes, Return, Goto, Leaves, OthersStay, Pcs, HoldPc, Layers, None

\* NextLayer ends the work on a layer.
LEMMA NextLayerLeaves ==
  ASSUME TypeOK, NEW t \in Tasks, NEW n \in Tunnels \cup {None}, NextLayer(t, n)
  PROVE  Leaves(t)
  <1> USE TransportTunnelsAssumption
  <1>1. CASE layer[t] = MaxLayer
    BY <1>1, ReturnLeaves DEF NextLayer
  <1>2. CASE layer[t] # MaxLayer
    <2>1. layer[t] \in 0..MaxLayer /\ layer[t] + 1 \in Layers
      BY <1>2 DEF TypeOK, Layers
    <2> QED BY <1>2, <2>1 DEF TypeOK, TaskTypes, NextLayer, Goto, Leaves, OthersStay, Pcs, HoldPc
  <1> QED BY <1>1, <1>2

\* NextStop ends the work on a layer.
LEMMA NextStopLeaves ==
  ASSUME TypeOK, NEW t \in Tasks, made[t] = None, NextStop(t)
  PROVE  Leaves(t)
  <1> USE TransportTunnelsAssumption
  <1>1. CASE layer[t] = MaxLayer
    BY <1>1, ReturnLeaves DEF NextStop
  <1>2. CASE layer[t] # MaxLayer
    <2>1. layer[t] \in 0..MaxLayer /\ layer[t] + 1 \in Layers
      BY <1>2 DEF TypeOK, Layers
    <2>2. ssh[layer[t] + 1] \in BOOLEAN
      BY <2>1 DEF TypeOK
    <2> QED BY <1>2, <2>1, <2>2
            DEF TypeOK, TaskTypes, NextStop, StopEntry, Goto, Leaves, OthersStay, Pcs, HoldPc
  <1> QED BY <1>1, <1>2

\* A task that leaves its layer keeps the locks in order.
LEMMA LeavingKeepsLocks ==
  ASSUME IInv, NEW t \in Tasks, Leaves(t), UNCHANGED <<ssh, startLock, split>>
  PROVE  LocksInv'
  <1>1. LocksFollowControl'
    BY DEF IInv, LocksFollowControl, Leaves, OthersStay, HoldPc, None
  <1>2. LockIsCurrent'
    BY DEF IInv, LockIsCurrent, Leaves, OthersStay
  <1>3. OneHolder'
    BY DEF IInv, OneHolder, Leaves, OthersStay
  <1> QED BY <1>1, <1>2, <1>3 DEF LocksInv

\* A task with no tunnel in hand that does not dial keeps the tunnels in order.
LEMMA MovingKeepsTunnels ==
  ASSUME IInv, NEW t \in Tasks, OthersStay(t), UNCHANGED <<ssh, tunnels, spawned, split, lost, tun, layerOf>>,
         made[t] = None, made'[t] = None, pc'[t] \notin {"dial", "insert"}
  PROVE  TunnelsInv'
  <1>1. MadeFollowsControl'
    BY DEF IInv, MadeFollowsControl, OthersStay, Live
  <1>2. NothingToReplace'
    BY DEF IInv, NothingToReplace, OthersStay
  <1>3. EveryTunnelIsKept'
    <2> SUFFICES ASSUME NEW n \in Tunnels, Live(n)
                 PROVE  tunnels[layerOf[n]] = n \/ (\E u \in Tasks : made'[u] = n) \/ split[layerOf[n]] \/ n \in lost
      BY DEF EveryTunnelIsKept, Live
    <2>1. n # None
      BY TransportTunnelsAssumption DEF Tunnels, None
    <2>2. ASSUME NEW u \in Tasks, made[u] = n PROVE made'[u] = n
      BY <2>1, <2>2 DEF OthersStay
    <2> QED BY <2>2 DEF IInv, EveryTunnelIsKept
  <1> QED BY <1>1, <1>2, <1>3 DEF TunnelsInv

\* The parts make the whole.
LEMMA Whole == TypeOK' /\ LocksInv' /\ TunnelsInv' => IInv'
  BY DEF IInv, LocksInv, TunnelsInv

-----------------------------------------------------------------------------
\* There is always a start lock that nobody uses: the tasks other than t use at
\* most one each, and the map holds at most one per layer.
LEMMA FreshLock ==
  ASSUME TypeOK, NEW t \in Tasks, lock[t] = None
  PROVE  \E l \in Locks : ~InUse(l) /\ \A j \in Layers : startLock[j] # l
  <1> SUFFICES ASSUME \A l \in Locks : InUse(l) \/ \E j \in Layers : startLock[j] = l
               PROVE  FALSE
    OBVIOUS
  <1> DEFINE Others == Tasks \ {t}
             f == [u \in Others |-> lock[u]]
             A == Range(f)
             B == Range(startLock)
  <1>1. IsFiniteSet(Others) /\ Cardinality(Others) = Cardinality(Tasks) - 1 /\ Cardinality(Tasks) \in Nat
    BY TransportTunnelsAssumption, FS_RemoveElement, FS_CardinalityType
  <1>2. IsFiniteSet(A) /\ Cardinality(A) <= Cardinality(Others) /\ Cardinality(A) \in Nat
    <2>1. f \in [Others -> Locks \cup {None}]
      BY DEF TypeOK
    <2>2. f \in Surjection(Others, A)
      BY <2>1, Fun_RangeProperties
    <2> QED BY <1>1, <2>2, FS_Surjection, FS_CardinalityType
  <1>3. IsFiniteSet(Layers) /\ Cardinality(Layers) = MaxLayer + 1
    BY TransportTunnelsAssumption, FS_Interval DEF Layers
  <1>4. IsFiniteSet(B) /\ Cardinality(B) <= MaxLayer + 1 /\ Cardinality(B) \in Nat
    <2>1. startLock \in Surjection(Layers, B)
      BY Fun_RangeProperties DEF TypeOK
    <2> QED BY <1>3, <2>1, FS_Surjection, FS_CardinalityType
  <1>5. IsFiniteSet(A \cup B) /\ Cardinality(A \cup B) <= Cardinality(A) + Cardinality(B)
    <2>1. IsFiniteSet(A \cap B)
      BY <1>2, FS_Subset, A \cap B \in SUBSET A
    <2>2. Cardinality(A \cap B) \in Nat
      BY <2>1, FS_CardinalityType
    <2>3. IsFiniteSet(A \cup B) /\ Cardinality(A \cup B) = Cardinality(A) + Cardinality(B) - Cardinality(A \cap B)
      BY <1>2, <1>4, FS_Union
    <2> HIDE DEF A, B
    <2> QED BY <1>2, <1>4, <2>2, <2>3
  <1>6. Locks \in SUBSET (A \cup B)
    <2> SUFFICES ASSUME NEW l \in Locks PROVE l \in A \cup B
      OBVIOUS
    <2>1. CASE InUse(l)
      <3>1. PICK u \in Tasks : lock[u] = l
        BY <2>1 DEF InUse
      <3>2. u \in Others /\ f[u] = l
        BY <3>1, TransportTunnelsAssumption DEF Locks, None
      <3> QED BY <3>2 DEF Range
    <2>2. CASE \E j \in Layers : startLock[j] = l
      BY <2>2 DEF TypeOK, Range
    <2> QED BY <2>1, <2>2
  <1>7. Cardinality(Locks) = Cardinality(Tasks) + MaxLayer + 1
    BY <1>1, TransportTunnelsAssumption, FS_Interval DEF Locks
  <1>8. Cardinality(Locks) <= Cardinality(A \cup B)
    BY <1>5, <1>6, FS_Subset
  <1>9. Cardinality(A \cup B) \in Nat
    BY <1>5, FS_CardinalityType
  <1> QED BY <1>1, <1>2, <1>4, <1>5, <1>7, <1>8, <1>9, TransportTunnelsAssumption

\* start_lock gives the task a lock, the one in the map from now on.
LEMMA TakeLockEffect ==
  ASSUME IInv, NEW t \in Tasks, lock[t] = None, TakeLock(t)
  PROVE  \E l \in Locks :
           /\ startLock' = [startLock EXCEPT ![layer[t]] = l]
           /\ lock' = [lock EXCEPT ![t] = l]
           /\ startLock[layer[t]] = None \/ startLock[layer[t]] = l
  <1> DEFINE Free(l) == ~InUse(l) /\ \A j \in Layers : startLock[j] # l
  <1>1. (CHOOSE l \in Locks : Free(l)) \in Locks
    BY FreshLock DEF IInv
  <1>2. layer[t] \in Layers /\ startLock[layer[t]] \in Locks \cup {None}
    BY DEF IInv, TypeOK
  <1> QED BY <1>1, <1>2 DEF TakeLock

-----------------------------------------------------------------------------
\* A call begins: nothing but the control of an idle task moves.
LEMMA CallPreserves ==
  ASSUME IInv, NEW t \in Tasks, StartLayers(t) \/ StopLayers(t)
  PROVE  IInv'
  <1> USE TransportTunnelsAssumption
  <1>1. pc[t] = "idle" /\ lock[t] = None /\ made[t] = None
    BY DEF IInv, LocksFollowControl, MadeFollowsControl, StartLayers, StopLayers, HoldPc
  <1>2. UNCHANGED <<managerVars, tunnelVars, layer, port, lock, made>>
    BY DEF StartLayers, StopLayers
  <1>3. Leaves(t)
    <2>1. CASE StartLayers(t)
      BY <1>1, <2>1 DEF IInv, TypeOK, TaskTypes, Leaves, OthersStay, StartLayers, Goto, Pcs, HoldPc
    <2>2. CASE StopLayers(t)
      <3>1. ssh[0] \in BOOLEAN
        BY DEF IInv, TypeOK, Layers
      <3>2. layer[t] = 0
        BY <1>1 DEF IInv, LocksFollowControl
      <3> QED BY <1>1, <2>2, <3>1, <3>2
              DEF IInv, TypeOK, TaskTypes, Leaves, OthersStay, StopLayers, StopEntry, Goto, Pcs, HoldPc
    <2> QED BY <2>1, <2>2
  <1>4. TypeOK'
    BY <1>2, <1>3, TypesSplit DEF IInv, TypeOK, TunnelTypes, ManagerTypes, Leaves, managerVars, tunnelVars
  <1>5. LocksInv'
    BY <1>2, <1>3, LeavingKeepsLocks DEF managerVars
  <1>6. TunnelsInv'
    BY <1>1, <1>2, <1>3, MovingKeepsTunnels DEF Leaves, managerVars, tunnelVars
  <1> QED BY <1>4, <1>5, <1>6, Whole

\* What End does to the tunnels: these end, the others go on as they were.
LEMMA EndEffect ==
  ASSUME IInv, NEW ns, End(ns)
  PROVE  /\ TunnelTypes'
         /\ \A n \in Tunnels : tun'[n] \in {"up", "retry"} =>
              n \notin ns /\ Live(n) /\ layerOf'[n] = layerOf[n]
  BY TransportTunnelsAssumption DEF IInv, TypeOK, TunnelTypes, End, Live, Layers, None

\* A known tunnel is used; otherwise a stale entry is removed, and the task goes
\* for the lock or dials.
LEMMA CheckPreserves ==
  ASSUME IInv, NEW t \in Tasks, Check(t)
  PROVE  IInv'
  <1> USE TransportTunnelsAssumption
  <1> DEFINE i == layer[t]
  <1>1. /\ pc[t] \in {"check", "recheck"} /\ made[t] = None /\ i \in Layers
        /\ tunnels[i] \in Tunnels \cup {None} /\ ssh[i] \in BOOLEAN
    BY DEF IInv, TypeOK, MadeFollowsControl, Check
  <1>2. UNCHANGED <<ssh, spawned, startLock, down, split, lost, tunnelVars>>
    BY DEF Check
  <1>3. CASE Known(i)
    <2>1. Leaves(t) /\ UNCHANGED tunnels
      BY <1>1, <1>3, NextLayerLeaves DEF Check, IInv
    <2>2. TypeOK'
      BY <1>2, <2>1, TypesSplit DEF IInv, TypeOK, TunnelTypes, ManagerTypes, Leaves, tunnelVars
    <2>3. LocksInv'
      BY <1>2, <2>1, LeavingKeepsLocks
    <2>4. TunnelsInv'
      BY <1>1, <1>2, <2>1, MovingKeepsTunnels DEF Leaves, tunnelVars
    <2> QED BY <2>2, <2>3, <2>4, Whole
  <1>4. CASE ~Known(i)
    <2>1. /\ tunnels' = [tunnels EXCEPT ![i] = None]
          /\ Goto(t, IF ssh[i] /\ pc[t] = "check" THEN "getLock" ELSE "dial")
          /\ UNCHANGED <<layer, port, lock, made>>
      BY <1>4 DEF Check
    <2>2. /\ OthersStay(t)
          /\ pc' \in [Tasks -> Pcs]
          /\ pc'[t] = "getLock" \/ pc'[t] = "dial"
          /\ pc'[t] = "getLock" => ssh[i] /\ pc[t] = "check"
          /\ pc'[t] = "dial" => ~ssh[i] \/ pc[t] = "recheck"
      BY <1>1, <2>1 DEF IInv, TypeOK, OthersStay, Goto, Pcs, HoldPc
    <2>3. TypeOK'
      BY <1>1, <1>2, <2>1, <2>2 DEF IInv, TypeOK, tunnelVars
    <2>4. LocksInv'
      <3>1. LocksFollowControl'
        BY <1>1, <1>2, <2>1, <2>2 DEF IInv, LocksFollowControl, OthersStay, HoldPc
      <3>2. LockIsCurrent'
        BY <1>2, <2>1 DEF IInv, LockIsCurrent
      <3>3. OneHolder'
        BY <1>1, <1>2, <2>1, <2>2 DEF IInv, OneHolder, LocksFollowControl, OthersStay, HoldPc
      <3> QED BY <3>1, <3>2, <3>3 DEF LocksInv
    <2>5. \A j \in Layers : tunnels'[j] = tunnels[j] \/ tunnels'[j] = None
      BY <2>1 DEF IInv, TypeOK
    <2>6. TunnelsInv'
      <3>1. MadeFollowsControl'
        BY <1>1, <1>2, <2>1, <2>2 DEF IInv, MadeFollowsControl, OthersStay, Live, tunnelVars
      <3>2. NothingToReplace'
        BY <1>1, <1>2, <2>1, <2>2, <2>5 DEF IInv, TypeOK, NothingToReplace, OthersStay
      <3>3. EveryTunnelIsKept'
        <4> SUFFICES ASSUME NEW n \in Tunnels, Live(n)
                     PROVE  tunnels'[layerOf[n]] = n \/ (\E u \in Tasks : made[u] = n) \/ split[layerOf[n]] \/ n \in lost
          BY <1>2, <2>1 DEF EveryTunnelIsKept, Live, tunnelVars
        <4>1. layerOf[n] \in Layers /\ n # None
          BY DEF IInv, TypeOK, Tunnels, None
        <4>2. tunnels[i] # n
          BY <1>1, <1>4, <4>1 DEF Known, Active
        <4>3. tunnels[layerOf[n]] = n => tunnels'[layerOf[n]] = n
          BY <2>1, <4>1, <4>2 DEF IInv, TypeOK
        <4> QED BY <4>3 DEF IInv, EveryTunnelIsKept
      <3> QED BY <3>1, <3>2, <3>3 DEF TunnelsInv
    <2> QED BY <2>3, <2>4, <2>6, Whole
  <1> QED BY <1>3, <1>4

\* start_lock: a lock that is not in the map any more belongs to a split layer.
LEMMA GetLockPreserves ==
  ASSUME IInv, NEW t \in Tasks, GetLock(t)
  PROVE  IInv'
  <1> USE TransportTunnelsAssumption
  <1>1. pc[t] \in {"getLock", "stopGetLock"} /\ lock[t] = None /\ made[t] = None /\ layer[t] \in Layers
        /\ ssh[layer[t]]
    BY DEF IInv, TypeOK, MadeFollowsControl, LocksFollowControl, GetLock, HoldPc
  <1>2. PICK l \in Locks : /\ startLock' = [startLock EXCEPT ![layer[t]] = l]
                           /\ lock' = [lock EXCEPT ![t] = l]
                           /\ startLock[layer[t]] = None \/ startLock[layer[t]] = l
    BY <1>1, TakeLockEffect DEF GetLock
  <1>3. UNCHANGED <<ssh, spawned, tunnels, down, split, lost, tunnelVars, layer, port, made>>
    BY DEF GetLock
  <1>4. /\ OthersStay(t)
        /\ pc' \in [Tasks -> Pcs]
        /\ pc'[t] \in {"lock", "stopLock"} /\ lock'[t] = l /\ l # None
    BY <1>1, <1>2, <1>3 DEF IInv, TypeOK, GetLock, OthersStay, Goto, Pcs, HoldPc, Locks, None
  <1>5. TypeOK'
    BY <1>1, <1>2, <1>3, <1>4 DEF IInv, TypeOK, tunnelVars
  <1>6. LocksInv'
    <2>1. LocksFollowControl'
      BY <1>1, <1>3, <1>4 DEF IInv, LocksFollowControl, OthersStay, HoldPc
    <2>2. startLock'[layer[t]] = l /\ \A j \in Layers : j # layer[t] => startLock'[j] = startLock[j]
      BY <1>1, <1>2 DEF IInv, TypeOK
    <2>3. ASSUME NEW u \in Tasks, u # t, lock[u] # None
          PROVE  startLock'[layer[u]] = lock[u] \/ split[layer[u]]
      <3>1. layer[u] \in Layers
        BY DEF IInv, TypeOK
      <3>2. startLock[layer[u]] = lock[u] \/ split[layer[u]]
        BY <2>3 DEF IInv, LockIsCurrent
      <3> QED BY <1>2, <2>2, <2>3, <3>1, <3>2
    <2>4. LockIsCurrent'
      BY <1>3, <1>4, <2>2, <2>3 DEF LockIsCurrent, OthersStay
    <2>5. OneHolder'
      BY <1>4 DEF IInv, OneHolder, OthersStay, HoldPc
    <2> QED BY <2>1, <2>4, <2>5 DEF LocksInv
  <1>7. TunnelsInv'
    BY <1>1, <1>3, <1>4, MovingKeepsTunnels DEF tunnelVars
  <1> QED BY <1>5, <1>6, <1>7, Whole

\* The lock is taken only when nobody holds it.
LEMMA LockPreserves ==
  ASSUME IInv, NEW t \in Tasks, Lock(t)
  PROVE  IInv'
  <1> USE TransportTunnelsAssumption
  <1>1. pc[t] \in {"lock", "stopLock"} /\ lock[t] # None /\ made[t] = None
    BY DEF IInv, MadeFollowsControl, LocksFollowControl, Lock, HoldPc
  <1>2. UNCHANGED <<managerVars, tunnelVars, layer, port, lock, made>>
    BY DEF Lock
  <1>3. /\ OthersStay(t)
        /\ pc' \in [Tasks -> Pcs]
        /\ pc'[t] \in {"recheck", "remove"} /\ (pc'[t] = "recheck" => pc[t] = "lock")
    BY <1>1, <1>2 DEF IInv, TypeOK, Lock, OthersStay, Goto, Pcs, HoldPc
  <1>4. TypeOK'
    BY <1>2, <1>3 DEF IInv, TypeOK, managerVars, tunnelVars
  <1>5. ssh[layer[t]]
    BY <1>1 DEF IInv, LocksFollowControl
  <1>6. LocksInv'
    <2>1. LocksFollowControl'
      BY <1>1, <1>2, <1>3, <1>5 DEF IInv, LocksFollowControl, OthersStay, HoldPc, managerVars
    <2>2. LockIsCurrent'
      BY <1>2 DEF IInv, LockIsCurrent, managerVars
    <2>3. \A u \in Tasks : lock[u] = lock[t] => pc[u] \notin HoldPc
      BY DEF Lock, Held
    <2>4. OneHolder'
      BY <1>2, <1>3, <2>3 DEF IInv, OneHolder, OthersStay
    <2> QED BY <2>1, <2>2, <2>4 DEF LocksInv
  <1>7. TunnelsInv'
    BY <1>1, <1>2, <1>3, MovingKeepsTunnels DEF managerVars, tunnelVars
  <1> QED BY <1>4, <1>6, <1>7, Whole

\* The new tunnel is in the hands of the start.
LEMMA DialPreserves ==
  ASSUME IInv, NEW t \in Tasks, Dial(t)
  PROVE  IInv'
  <1> USE TransportTunnelsAssumption
  <1> DEFINE m == spawned + 1
  <1>1. pc[t] = "dial" /\ made[t] = None /\ layer[t] \in Layers /\ m \in Tunnels /\ spawned \in Nat /\ m # None
    BY DEF IInv, TypeOK, MadeFollowsControl, Dial, Tunnels, None
  <1>2. UNCHANGED <<ssh, tunnels, startLock, down, split, lost, attempts, layer, port, lock>>
    BY DEF Dial
  <1>3. /\ OthersStay(t)
        /\ pc' \in [Tasks -> Pcs] /\ made' \in [Tasks -> Tunnels \cup {None}]
        /\ pc'[t] = "insert" /\ made'[t] = m
    BY <1>1, <1>2 DEF IInv, TypeOK, Dial, OthersStay, Goto, Pcs, HoldPc
  <1>4. /\ tun' \in [Tunnels -> {"none", "up", "retry", "ended"}]
        /\ layerOf' \in [Tunnels -> Layers] /\ layerOf'[m] = layer[t]
        /\ upstream' \in [Tunnels -> Tunnels \cup {None}]
        /\ \A n \in Tunnels : n # m => tun'[n] = tun[n] /\ layerOf'[n] = layerOf[n]
    BY <1>1 DEF IInv, TypeOK, Dial
  <1>5. spawned' = m /\ m \in 0..MaxTunnels
    BY <1>1 DEF Dial, Tunnels
  <1>6. TypeOK'
    BY <1>2, <1>3, <1>4, <1>5 DEF IInv, TypeOK
  <1>7. LocksInv'
    <2>1. LocksFollowControl'
      BY <1>1, <1>2, <1>3 DEF IInv, LocksFollowControl, OthersStay, HoldPc
    <2>2. LockIsCurrent'
      BY <1>2 DEF IInv, LockIsCurrent
    <2>3. OneHolder'
      BY <1>1, <1>2, <1>3 DEF IInv, OneHolder, OthersStay, HoldPc
    <2> QED BY <2>1, <2>2, <2>3 DEF LocksInv
  <1>8. TunnelsInv'
    <2>1. ASSUME NEW u \in Tasks, u # t, made[u] # None
          PROVE  made[u] \in Tunnels /\ made[u] # m /\ made[u] <= m
      BY <1>1, <2>1 DEF IInv, TypeOK, MadeFollowsControl, Tunnels
    <2>2. MadeFollowsControl'
      BY <1>1, <1>2, <1>3, <1>4, <1>5, <2>1 DEF IInv, MadeFollowsControl, OthersStay, Live
    <2>3. NothingToReplace'
      BY <1>1, <1>2, <1>3 DEF IInv, NothingToReplace, OthersStay
    <2>4. EveryTunnelIsKept'
      <3> SUFFICES ASSUME NEW n \in Tunnels, Live(n)'
                   PROVE  tunnels[layerOf'[n]] = n \/ (\E u \in Tasks : made'[u] = n) \/ split[layerOf'[n]] \/ n \in lost
        BY <1>2 DEF EveryTunnelIsKept
      <3>1. CASE n = m
        BY <1>3, <3>1
      <3>2. CASE n # m
        <4>1. Live(n) /\ layerOf'[n] = layerOf[n] /\ n # None
          BY <1>4, <3>2 DEF Live, Tunnels, None
        <4>2. ASSUME NEW u \in Tasks, made[u] = n PROVE made'[u] = n
          BY <1>1, <1>3, <4>1, <4>2 DEF OthersStay
        <4> QED BY <4>1, <4>2 DEF IInv, EveryTunnelIsKept
      <3> QED BY <3>1, <3>2
    <2> QED BY <2>2, <2>3, <2>4 DEF TunnelsInv
  <1> QED BY <1>6, <1>7, <1>8, Whole

\* A start that fails has no tunnel in hand.
LEMMA DialFailsPreserves ==
  ASSUME IInv, NEW t \in Tasks, DialFails(t)
  PROVE  IInv'
  <1>1. pc[t] = "dial" /\ made[t] = None
    BY DEF IInv, MadeFollowsControl, DialFails
  <1>2. Leaves(t) /\ UNCHANGED <<managerVars, tunnelVars>>
    BY ReturnLeaves DEF IInv, DialFails
  <1>3. TypeOK'
    BY <1>2, TypesSplit DEF IInv, TypeOK, TunnelTypes, ManagerTypes, Leaves, managerVars, tunnelVars
  <1>4. LocksInv'
    BY <1>2, LeavingKeepsLocks DEF managerVars
  <1>5. TunnelsInv'
    BY <1>1, <1>2, MovingKeepsTunnels DEF Leaves, managerVars, tunnelVars
  <1> QED BY <1>3, <1>4, <1>5, Whole

\* No two tasks work on an SSH layer at once, unless its locks were cleared.
LEMMA HandshakeFromLocks == IInv => OneHandshake
  <1> SUFFICES ASSUME IInv, NEW t \in Tasks, NEW u \in Tasks, t # u,
                      layer[t] = layer[u], ssh[layer[t]], pc[t] \in HoldPc, pc[u] \in HoldPc
               PROVE  split[layer[t]]
    BY DEF OneHandshake
  <1>1. lock[t] # None /\ lock[u] # None
    BY DEF IInv, LocksFollowControl
  <1> QED BY <1>1 DEF IInv, LockIsCurrent, OneHolder

\* The insert: the tunnel goes from the hands of the start into the map, where
\* nothing is to be replaced; a lazy start that comes second ends its own.
LEMMA InsertPreserves ==
  ASSUME IInv, NEW t \in Tasks, Insert(t)
  PROVE  IInv'
  <1> USE TransportTunnelsAssumption
  <1> DEFINE i == layer[t]
  <1>1. pc[t] = "insert" /\ i \in Layers /\ made[t] \in Tunnels \cup {None} /\ tunnels[i] \in Tunnels \cup {None}
        /\ ssh[i] \in BOOLEAN
    BY DEF IInv, TypeOK, Insert
  <1>2. UNCHANGED <<ssh, spawned, startLock, down, split, lost>>
    BY DEF Insert
  <1>3. Leaves(t)
    BY <1>1, NextLayerLeaves DEF Insert, IInv
  <1>4. LocksInv'
    BY <1>2, <1>3, LeavingKeepsLocks
  <1>5. CASE ~ssh[i] /\ tunnels[i] # None
    <2>1. End({made[t]}) /\ UNCHANGED tunnels
      BY <1>5 DEF Insert
    <2>2. TunnelTypes' /\ \A n \in Tunnels : tun'[n] \in {"up", "retry"} =>
            n # made[t] /\ Live(n) /\ layerOf'[n] = layerOf[n]
      BY <2>1, EndEffect
    <2>3. TypeOK'
      BY <1>2, <1>3, <2>1, <2>2, TypesSplit DEF IInv, TypeOK, ManagerTypes, Leaves
    <2>4. MadeFollowsControl'
      BY <1>2, <1>3, <2>2 DEF IInv, TypeOK, MadeFollowsControl, Leaves, OthersStay, Live
    <2>5. NothingToReplace'
      BY <1>2, <1>3, <2>1 DEF IInv, NothingToReplace, Leaves, OthersStay
    <2>6. EveryTunnelIsKept'
      <3> SUFFICES ASSUME NEW n \in Tunnels, Live(n)'
                   PROVE  tunnels[layerOf'[n]] = n \/ (\E u \in Tasks : made'[u] = n) \/ split[layerOf'[n]] \/ n \in lost
        BY <1>2, <2>1 DEF EveryTunnelIsKept
      <3>1. n # made[t] /\ Live(n) /\ layerOf'[n] = layerOf[n]
        BY <2>2 DEF Live
      <3> QED BY <1>3, <3>1 DEF IInv, EveryTunnelIsKept, Leaves, OthersStay
    <2> QED BY <1>4, <2>3, <2>4, <2>5, <2>6, Whole DEF TunnelsInv
  <1>6. CASE ssh[i] \/ tunnels[i] = None
    <2>1. tunnels' = [tunnels EXCEPT ![i] = made[t]] /\ UNCHANGED tunnelVars
      BY <1>1, <1>6 DEF Insert
    <2>2. tunnels' \in [Layers -> Tunnels \cup {None}] /\ tunnels'[i] = made[t]
          /\ \A j \in Layers : j # i => tunnels'[j] = tunnels[j]
      BY <1>1, <2>1 DEF IInv, TypeOK
    <2>3. tunnels[i] = None \/ split[i]
      BY <1>1, <1>6 DEF IInv, NothingToReplace
    <2>4. TypeOK'
      BY <1>2, <1>3, <2>1, <2>2, TypesSplit DEF IInv, TypeOK, ManagerTypes, TunnelTypes, Leaves, tunnelVars
    <2>5. MadeFollowsControl'
      BY <1>2, <1>3, <2>1 DEF IInv, MadeFollowsControl, Leaves, OthersStay, Live, tunnelVars
    <2>6. NothingToReplace'
      <3> SUFFICES ASSUME NEW u \in Tasks, pc'[u] \in {"dial", "insert"}, ssh[layer'[u]]
                   PROVE  tunnels'[layer'[u]] = None \/ split[layer'[u]]
        BY <1>2 DEF NothingToReplace
      <3>1. u # t /\ pc[u] \in {"dial", "insert"} /\ layer'[u] = layer[u] /\ layer[u] \in Layers
        BY <1>3 DEF Leaves, OthersStay, IInv, TypeOK
      <3>2. CASE layer[u] = i
        <4>1. pc[t] \in HoldPc /\ pc[u] \in HoldPc
          BY <1>1, <3>1 DEF HoldPc
        <4> QED BY <3>1, <3>2, <4>1, HandshakeFromLocks DEF OneHandshake
      <3>3. CASE layer[u] # i
        BY <2>2, <3>1, <3>3 DEF IInv, NothingToReplace
      <3> QED BY <3>2, <3>3
    <2>7. EveryTunnelIsKept'
      <3> SUFFICES ASSUME NEW n \in Tunnels, Live(n)
                   PROVE  tunnels'[layerOf[n]] = n \/ (\E u \in Tasks : made'[u] = n) \/ split[layerOf[n]] \/ n \in lost
        BY <1>2, <2>1 DEF EveryTunnelIsKept, Live, tunnelVars
      <3>1. n # None /\ layerOf[n] \in Layers
        BY DEF IInv, TypeOK, Tunnels, None
      <3>2. CASE made[t] = n
        BY <2>2, <3>1, <3>2 DEF IInv, MadeFollowsControl
      <3>3. CASE tunnels[layerOf[n]] = n
        BY <2>2, <2>3, <3>1, <3>3
      <3>4. ASSUME NEW u \in Tasks, made[u] = n, u # t PROVE made'[u] = n
        BY <1>3, <3>4 DEF Leaves, OthersStay
      <3> QED BY <3>2, <3>3, <3>4 DEF IInv, EveryTunnelIsKept
    <2> QED BY <1>4, <2>4, <2>5, <2>6, <2>7, Whole DEF TunnelsInv
  <1> QED BY <1>1, <1>5, <1>6

\* Taking tunnels out of the map and ending them loses none that runs.
LEMMA EmptyingKeepsTunnels ==
  ASSUME IInv, NEW t \in Tasks, NEW J \in SUBSET Layers,
         End({tunnels[j] : j \in J}),
         tunnels' = [j \in Layers |-> IF j \in J THEN None ELSE tunnels[j]],
         OthersStay(t), UNCHANGED <<ssh, spawned, split, lost>>,
         made[t] = None, made'[t] = None, pc'[t] \notin {"dial", "insert"}
  PROVE  TunnelTypes' /\ tunnels' \in [Layers -> Tunnels \cup {None}] /\ TunnelsInv'
  <1> USE TransportTunnelsAssumption
  <1>1. TunnelTypes' /\ \A n \in Tunnels : tun'[n] \in {"up", "retry"} =>
          n \notin {tunnels[j] : j \in J} /\ Live(n) /\ layerOf'[n] = layerOf[n]
    BY EndEffect
  <1>2. tunnels' \in [Layers -> Tunnels \cup {None}]
    BY DEF IInv, TypeOK
  <1>3. MadeFollowsControl'
    BY <1>1 DEF IInv, TypeOK, MadeFollowsControl, OthersStay, Live
  <1>4. NothingToReplace'
    BY DEF IInv, TypeOK, NothingToReplace, OthersStay
  <1>5. EveryTunnelIsKept'
    <2> SUFFICES ASSUME NEW n \in Tunnels, Live(n)'
                 PROVE  tunnels'[layerOf'[n]] = n \/ (\E u \in Tasks : made'[u] = n) \/ split[layerOf'[n]] \/ n \in lost
      BY DEF EveryTunnelIsKept
    <2>1. n \notin {tunnels[j] : j \in J} /\ Live(n) /\ layerOf'[n] = layerOf[n] /\ layerOf[n] \in Layers /\ n # None
      BY <1>1 DEF Live, IInv, TypeOK, Tunnels, None
    <2>2. ASSUME NEW u \in Tasks, made[u] = n PROVE made'[u] = n
      BY <2>1, <2>2 DEF OthersStay
    <2>3. tunnels[layerOf[n]] = n => tunnels'[layerOf[n]] = n
      BY <2>1
    <2> QED BY <2>1, <2>2, <2>3 DEF IInv, EveryTunnelIsKept
  <1> QED BY <1>1, <1>2, <1>3, <1>4, <1>5 DEF TunnelsInv

\* stop_tunnel takes the tunnel of its layer out of the map and ends it.
LEMMA RemoveTunnelPreserves ==
  ASSUME IInv, NEW t \in Tasks, RemoveTunnel(t)
  PROVE  IInv'
  <1> USE TransportTunnelsAssumption
  <1> DEFINE i == layer[t]
  <1>1. pc[t] = "remove" /\ made[t] = None /\ i \in Layers /\ ssh[i] \in BOOLEAN
    BY DEF IInv, TypeOK, MadeFollowsControl, RemoveTunnel
  <1>2. /\ UNCHANGED <<ssh, spawned, startLock, down, split, lost>>
        /\ End({tunnels[j] : j \in {i}})
        /\ tunnels' = [j \in Layers |-> IF j \in {i} THEN None ELSE tunnels[j]]
    <2>1. {tunnels[j] : j \in {i}} = {tunnels[i]}
      OBVIOUS
    <2> QED BY <1>1, <2>1 DEF IInv, TypeOK, RemoveTunnel
  <1>3. CASE ssh[i]
    <2>1. /\ OthersStay(t) /\ pc' \in [Tasks -> Pcs] /\ pc'[t] = "dropLock"
          /\ UNCHANGED <<layer, port, lock, made>>
      BY <1>3 DEF IInv, TypeOK, RemoveTunnel, OthersStay, Goto, Pcs, HoldPc
    <2>2. TunnelTypes' /\ tunnels' \in [Layers -> Tunnels \cup {None}] /\ TunnelsInv'
      BY <1>1, <1>2, <2>1, EmptyingKeepsTunnels
    <2>3. TypeOK'
      BY <1>2, <2>1, <2>2, TypesSplit DEF IInv, TypeOK, TaskTypes, ManagerTypes
    <2>4. LocksInv'
      <3>1. LocksFollowControl'
        BY <1>1, <1>2, <1>3, <2>1 DEF IInv, LocksFollowControl, OthersStay, HoldPc
      <3>2. LockIsCurrent'
        BY <1>2, <2>1 DEF IInv, LockIsCurrent
      <3>3. OneHolder'
        BY <1>1, <2>1 DEF IInv, OneHolder, OthersStay, HoldPc
      <3> QED BY <3>1, <3>2, <3>3 DEF LocksInv
    <2> QED BY <2>2, <2>3, <2>4, Whole
  <1>4. CASE ~ssh[i]
    <2>1. Leaves(t)
      BY <1>1, <1>4, NextStopLeaves DEF IInv, RemoveTunnel
    <2>2. TunnelTypes' /\ tunnels' \in [Layers -> Tunnels \cup {None}] /\ TunnelsInv'
      BY <1>1, <1>2, <2>1, EmptyingKeepsTunnels DEF Leaves
    <2>3. TypeOK'
      BY <1>2, <2>1, <2>2, TypesSplit DEF IInv, TypeOK, ManagerTypes, Leaves
    <2>4. LocksInv'
      BY <1>2, <2>1, LeavingKeepsLocks
    <2> QED BY <2>2, <2>3, <2>4, Whole
  <1> QED BY <1>1, <1>3, <1>4

\* stop_tunnel drops a start lock nobody else has a clone of.
LEMMA DropLockPreserves ==
  ASSUME IInv, NEW t \in Tasks, DropLock(t)
  PROVE  IInv'
  <1> USE TransportTunnelsAssumption
  <1> DEFINE i == layer[t]
             idle == startLock[i] = lock[t] /\ \A u \in Tasks \ {t} : lock[u] # lock[t]
  <1>1. pc[t] = "dropLock" /\ made[t] = None /\ i \in Layers
    BY DEF IInv, TypeOK, MadeFollowsControl, DropLock
  <1>2. Leaves(t)
    BY <1>1, NextStopLeaves DEF IInv, DropLock
  <1>3. UNCHANGED <<ssh, spawned, tunnels, down, split, lost, tunnelVars>>
        /\ startLock' = [startLock EXCEPT ![i] = IF idle THEN None ELSE @]
    BY DEF DropLock
  <1>4. startLock' \in [Layers -> Locks \cup {None}]
        /\ \A j \in Layers : startLock'[j] = startLock[j] \/ (j = i /\ idle)
    BY <1>1, <1>3 DEF IInv, TypeOK
  <1>5. TypeOK'
    BY <1>2, <1>3, <1>4, TypesSplit DEF IInv, TypeOK, ManagerTypes, TunnelTypes, Leaves, tunnelVars
  <1>6. LocksInv'
    <2>1. LocksFollowControl'
      BY <1>2, <1>3 DEF IInv, LocksFollowControl, Leaves, OthersStay, HoldPc, None
    <2>2. ASSUME NEW u \in Tasks, lock'[u] # None
          PROVE  startLock'[layer'[u]] = lock'[u] \/ split[layer'[u]]
      <3>1. u # t /\ lock'[u] = lock[u] /\ layer'[u] = layer[u] /\ layer[u] \in Layers
        BY <1>2, <2>2 DEF Leaves, OthersStay, IInv, TypeOK
      <3>2. startLock[layer[u]] = lock[u] \/ split[layer[u]]
        BY <2>2, <3>1 DEF IInv, LockIsCurrent
      <3> QED BY <1>4, <3>1, <3>2
    <2>3. LockIsCurrent'
      BY <1>3, <2>2 DEF LockIsCurrent
    <2>4. OneHolder'
      BY <1>2 DEF IInv, OneHolder, Leaves, OthersStay
    <2> QED BY <2>1, <2>3, <2>4 DEF LocksInv
  <1>7. TunnelsInv'
    BY <1>1, <1>2, <1>3, MovingKeepsTunnels DEF Leaves, tunnelVars
  <1> QED BY <1>5, <1>6, <1>7, Whole

\* stop_all_tunnels empties the map of a manager and ends its tunnels.
LEMMA TakeAllPreserves ==
  ASSUME IInv, NEW t \in Tasks, TakeAll(t)
  PROVE  IInv'
  <1> USE TransportTunnelsAssumption
  <1>1. pc[t] = "idle" /\ made[t] = None /\ lock[t] = None
    BY DEF IInv, MadeFollowsControl, LocksFollowControl, TakeAll, HoldPc
  <1>2. PICK m \in {"ssh", "lazy"} \ down :
          LET mine == {i \in Layers : ssh[i] <=> m = "ssh"} IN
            /\ down' = down \cup {m}
            /\ End({tunnels[i] : i \in mine})
            /\ tunnels' = [i \in Layers |-> IF i \in mine THEN None ELSE tunnels[i]]
            /\ Goto(t, IF m = "ssh" THEN "clearLocks" ELSE "idle")
    BY DEF TakeAll
  <1> DEFINE mine == {i \in Layers : ssh[i] <=> m = "ssh"}
  <1>3. UNCHANGED <<ssh, spawned, startLock, split, lost, layer, port, lock, made>>
    BY DEF TakeAll
  <1>4. /\ OthersStay(t) /\ pc' \in [Tasks -> Pcs] /\ pc'[t] \in {"clearLocks", "idle"}
    BY <1>2, <1>3 DEF IInv, TypeOK, OthersStay, Goto, Pcs
  <1>5. TunnelTypes' /\ tunnels' \in [Layers -> Tunnels \cup {None}] /\ TunnelsInv'
    <2>1. mine \in SUBSET Layers
      OBVIOUS
    <2>2. End({tunnels[j] : j \in mine}) /\ tunnels' = [j \in Layers |-> IF j \in mine THEN None ELSE tunnels[j]]
      BY <1>2
    <2> HIDE DEF mine
    <2> QED BY <1>1, <1>3, <1>4, <2>1, <2>2, EmptyingKeepsTunnels
  <1>6. TypeOK'
    BY <1>2, <1>3, <1>4, <1>5, TypesSplit DEF IInv, TypeOK, TaskTypes, ManagerTypes
  <1>7. LocksInv'
    <2>1. LocksFollowControl'
      BY <1>1, <1>3, <1>4 DEF IInv, LocksFollowControl, OthersStay, HoldPc
    <2>2. LockIsCurrent'
      BY <1>3 DEF IInv, LockIsCurrent
    <2>3. OneHolder'
      BY <1>1, <1>3, <1>4 DEF IInv, OneHolder, OthersStay, HoldPc
    <2> QED BY <2>1, <2>2, <2>3 DEF LocksInv
  <1> QED BY <1>5, <1>6, <1>7, Whole

\* stop_all_tunnels clears the start locks: a layer whose lock is in use is split.
LEMMA ClearLocksPreserves ==
  ASSUME IInv, NEW t \in Tasks, ClearLocks(t)
  PROVE  IInv'
  <1> USE TransportTunnelsAssumption
  <1>1. pc[t] = "clearLocks" /\ made[t] = None
    BY DEF IInv, MadeFollowsControl, ClearLocks
  <1>2. Leaves(t) /\ UNCHANGED <<ssh, spawned, tunnels, down, lost, tunnelVars>>
    BY ReturnLeaves DEF IInv, ClearLocks
  <1>3. /\ startLock' \in [Layers -> Locks \cup {None}]
        /\ split' \in [Layers -> BOOLEAN]
        /\ \A j \in Layers : split[j] \/ (startLock[j] # None /\ InUse(startLock[j])) => split'[j]
    BY DEF IInv, TypeOK, ClearLocks
  <1>4. TypeOK'
    BY <1>2, <1>3, TypesSplit DEF IInv, TypeOK, ManagerTypes, TunnelTypes, Leaves, tunnelVars
  <1>5. LocksInv'
    <2>1. LocksFollowControl'
      BY <1>2 DEF IInv, LocksFollowControl, Leaves, OthersStay, HoldPc, None
    <2>2. ASSUME NEW u \in Tasks, lock'[u] # None PROVE split'[layer'[u]]
      <3>1. lock[u] # None /\ lock'[u] = lock[u] /\ layer'[u] = layer[u] /\ layer[u] \in Layers
        BY <1>2, <2>2 DEF Leaves, OthersStay, IInv, TypeOK
      <3>2. startLock[layer[u]] = lock[u] \/ split[layer[u]]
        BY <3>1 DEF IInv, LockIsCurrent
      <3> QED BY <1>3, <3>1, <3>2 DEF InUse
    <2>3. LockIsCurrent'
      BY <2>2 DEF LockIsCurrent
    <2>4. OneHolder'
      BY <1>2 DEF IInv, OneHolder, Leaves, OthersStay
    <2> QED BY <2>1, <2>3, <2>4 DEF LocksInv
  <1>6. TunnelsInv'
    <2>1. MadeFollowsControl'
      BY <1>2 DEF IInv, MadeFollowsControl, Leaves, OthersStay, Live, tunnelVars
    <2>2. NothingToReplace'
      BY <1>2, <1>3 DEF IInv, TypeOK, NothingToReplace, Leaves, OthersStay
    <2>3. EveryTunnelIsKept'
      <3> SUFFICES ASSUME NEW n \in Tunnels, Live(n)
                   PROVE  tunnels[layerOf[n]] = n \/ (\E u \in Tasks : made'[u] = n) \/ split'[layerOf[n]] \/ n \in lost
        BY <1>2 DEF EveryTunnelIsKept, Live, tunnelVars
      <3>1. n # None /\ layerOf[n] \in Layers
        BY DEF IInv, TypeOK, Tunnels, None
      <3>2. ASSUME NEW u \in Tasks, made[u] = n PROVE made'[u] = n
        BY <1>1, <1>2, <3>1, <3>2 DEF Leaves, OthersStay
      <3> QED BY <1>3, <3>1, <3>2 DEF IInv, EveryTunnelIsKept
    <2> QED BY <2>1, <2>2, <2>3 DEF TunnelsInv
  <1> QED BY <1>4, <1>5, <1>6, Whole

\* A dropped call gives up its lock, and a tunnel it had in hand is recorded.
LEMMA DroppedPreserves ==
  ASSUME IInv, NEW t \in Tasks, Dropped(t)
  PROVE  IInv'
  <1> USE TransportTunnelsAssumption
  <1>1. /\ Leaves(t)
        /\ lost' = lost \cup ({made[t]} \ {None})
        /\ UNCHANGED <<ssh, spawned, tunnels, startLock, down, split, tunnelVars>>
    BY ReturnLeaves DEF IInv, Dropped
  <1>2. TypeOK'
    <2>1. made[t] \in Tunnels \cup {None} /\ lost \subseteq Tunnels
      BY DEF IInv, TypeOK
    <2> QED BY <1>1, <2>1, TypesSplit DEF IInv, TypeOK, TunnelTypes, ManagerTypes, Leaves, tunnelVars
  <1>3. LocksInv'
    BY <1>1, LeavingKeepsLocks
  <1>4. MadeFollowsControl'
    BY <1>1 DEF IInv, MadeFollowsControl, Leaves, OthersStay, Live, tunnelVars
  <1>5. NothingToReplace'
    BY <1>1 DEF IInv, NothingToReplace, Leaves, OthersStay
  <1>6. EveryTunnelIsKept'
    <2> SUFFICES ASSUME NEW n \in Tunnels, Live(n)
                 PROVE  \/ tunnels[layerOf[n]] = n \/ (\E u \in Tasks : made'[u] = n)
                        \/ split[layerOf[n]] \/ n \in lost'
      BY <1>1 DEF EveryTunnelIsKept, Live, tunnelVars
    <2>1. n # None
      BY DEF Tunnels, None
    <2>2. made[t] = n => n \in lost'
      BY <1>1, <2>1
    <2>3. ASSUME NEW u \in Tasks, made[u] = n, u # t PROVE made'[u] = n
      BY <1>1, <2>3 DEF Leaves, OthersStay
    <2> QED BY <1>1, <2>2, <2>3 DEF IInv, EveryTunnelIsKept
  <1> QED BY <1>2, <1>3, <1>4, <1>5, <1>6, Whole DEF TunnelsInv

-----------------------------------------------------------------------------
\* A tunnel that loses its session, reconnects or gives up stays where it is.
LEMMA TunnelStepPreserves ==
  ASSUME IInv, NEW n \in Tunnels, TunnelStep(n)
  PROVE  IInv'
  <1> USE TransportTunnelsAssumption
  <1>1. UNCHANGED <<managerVars, taskVars>>
    BY DEF TunnelStep, SessionLost, Reconnect, ReconnectFails, GiveUp
  <1>2. TunnelTypes' /\ \A k \in Tunnels : tun'[k] \in {"up", "retry"} => Live(k) /\ layerOf'[k] = layerOf[k]
    <2>1. CASE SessionLost(n)
      BY <2>1 DEF IInv, TypeOK, TunnelTypes, SessionLost, Live
    <2>2. CASE Reconnect(n)
      BY <2>2 DEF IInv, TypeOK, TunnelTypes, Reconnect, Live
    <2>3. CASE ReconnectFails(n)
      <3>1. attempts[n] + 1 \in 0..MaxAttempts
        BY <2>3 DEF IInv, TypeOK, ReconnectFails
      <3> QED BY <2>3, <3>1 DEF IInv, TypeOK, TunnelTypes, ReconnectFails, Live
    <2>4. CASE GiveUp(n)
      BY <2>4, EndEffect DEF GiveUp
    <2> QED BY <2>1, <2>2, <2>3, <2>4 DEF TunnelStep
  <1>3. TypeOK'
    BY <1>1, <1>2, TypesSplit DEF IInv, TypeOK, ManagerTypes, TaskTypes, managerVars, taskVars
  <1>4. LocksInv'
    BY <1>1 DEF IInv, LocksInv, LocksFollowControl, LockIsCurrent, OneHolder, managerVars, taskVars
  <1>5. TunnelsInv'
    <2>1. MadeFollowsControl'
      BY <1>1, <1>2 DEF IInv, TypeOK, MadeFollowsControl, Live, managerVars, taskVars
    <2>2. NothingToReplace'
      BY <1>1 DEF IInv, NothingToReplace, managerVars, taskVars
    <2>3. EveryTunnelIsKept'
      BY <1>1, <1>2 DEF IInv, EveryTunnelIsKept, Live, managerVars, taskVars
    <2> QED BY <2>1, <2>2, <2>3 DEF TunnelsInv
  <1> QED BY <1>3, <1>4, <1>5, Whole

\* Nothing is started at first.
LEMMA InitIInv == Init => IInv
  BY TransportTunnelsAssumption DEF Init, IInv, TypeOK, LocksFollowControl, LockIsCurrent, OneHolder,
     MadeFollowsControl, NothingToReplace, EveryTunnelIsKept, Live, HoldPc, Pcs, Layers, None

\* Every step preserves the invariant.
LEMMA NextIInv == IInv /\ [Next]_vars => IInv'
  <1> SUFFICES ASSUME IInv, [Next]_vars PROVE IInv'
    OBVIOUS
  <1>1. ASSUME NEW t \in Tasks, Calls(t) PROVE IInv'
    BY <1>1, CallPreserves, TakeAllPreserves DEF Calls
  <1>2. ASSUME NEW t \in Tasks, TaskStep(t) PROVE IInv'
    BY <1>2, CheckPreserves, GetLockPreserves, LockPreserves, DialPreserves, DialFailsPreserves, InsertPreserves,
       RemoveTunnelPreserves, DropLockPreserves, ClearLocksPreserves, DroppedPreserves DEF TaskStep
  <1>3. CASE UNCHANGED vars
    BY <1>3 DEF vars, managerVars, tunnelVars, taskVars, IInv, TypeOK, LocksFollowControl, LockIsCurrent, OneHolder,
       MadeFollowsControl, NothingToReplace, EveryTunnelIsKept, Live
  <1> QED BY <1>1, <1>2, <1>3, TunnelStepPreserves DEF Next

\* The inductive invariant holds in every reachable state.
LEMMA IInvHolds == Spec => []IInv
  BY InitIInv, NextIInv, PTL DEF Spec

\* The maps, the tunnels and the tasks stay well typed; in particular start_lock
\* always finds a lock that nobody uses.
THEOREM TypeCorrect == Spec => []TypeOK
  <1>1. IInv => TypeOK
    BY DEF IInv
  <1> QED BY IInvHolds, <1>1, PTL

\* One start or stop at a time works on an SSH layer, whatever the tasks do to
\* start_locks, unless stop_all_tunnels cleared a lock in use.
THEOREM HandshakesAreSingle == Spec => []OneHandshake
  BY IInvHolds, HandshakeFromLocks, PTL

\* A running tunnel can be found and stopped: it is in the map, or in the hands of
\* the start that spawned it, unless stop_all_tunnels cleared a lock in use or
\* that start was dropped before its insert.
THEOREM TunnelsAreKept == Spec => []EveryTunnelIsKept
  <1>1. IInv => EveryTunnelIsKept
    BY DEF IInv
  <1> QED BY IInvHolds, <1>1, PTL
=============================================================================
