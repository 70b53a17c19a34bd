------------------------ MODULE TaskSupervisorProofs ------------------------
(***************************************************************************)
(* TLAPS proofs about TaskSupervisor, for any keys, callers and number of  *)
(* tasks: no spawned task escapes the supervisor, not even one whose spawn *)
(* races shutdown.                                                         *)
(***************************************************************************)
EXTENDS TaskSupervisor, TLAPS

Drained == phase \in {"waiting", "down"}

\* Exactly the first `spawned` tasks exist, each with a key.
BornHasKey ==
  \A t \in Tasks : IF t <= spawned THEN state[t] # "unborn" /\ keyOf[t] \in Keys ELSE state[t] = "unborn"

\* A handle in the map is the handle of a task of that key.
MapOwner == \A k \in Keys : tasks[k] # None => tasks[k] <= spawned /\ keyOf[tasks[k]] = k

\* The caller between the test of `accepting` and the insertion holds the
\* mutex, so the map is not drained under it and the key stays inactive.
InserterHoldsLock ==
  \A c \in Callers : pc[c] = "insert" =>
    /\ lock = c
    /\ ~Drained
    /\ argKey[c] \in Keys
    /\ argKey[c] \in OnceKeys => tasks[argKey[c]] = None
    /\ spawned < MaxTasks

\* `accepting` is cleared by the first step of shutdown; the drain empties the
\* map for good, and fills `handles`.
DrainIsFinal ==
  /\ accepting <=> phase = "up"
  /\ Drained => \A k \in Keys : tasks[k] = None
  /\ ~Drained => handles = {}
  /\ \A t \in handles : t <= spawned

\* A live one-shot is in the map until the drain and in `handles` after it.
OneShotTracked ==
  \A t \in Tasks : Live(t) /\ keyOf[t] \in OnceKeys =>
    IF Drained THEN t \in handles ELSE tasks[keyOf[t]] = t

\* Only a one-shot runs the cleanup step.
OnceCleanup == \A t \in Tasks : state[t] \in {"gated", "cleanup"} => keyOf[t] \in OnceKeys

\* `handles` has one task for each key.
HandlesHaveOwnKeys == \A t, u \in handles : t # u => keyOf[t] # keyOf[u]

\* shutdown returns with its handles over, or aborted.
DownMeansAborted == phase = "down" => \A t \in handles : abort[t] \/ ~Live(t)

IInv ==
  /\ TypeOK
  /\ BornHasKey
  /\ MapOwner
  /\ InserterHoldsLock
  /\ DrainIsFinal
  /\ OneShotTracked
  /\ OnceCleanup
  /\ HandlesHaveOwnKeys
  /\ DownMeansAborted
  /\ NoUntrackedTask

-----------------------------------------------------------------------------
\* Nothing is spawned and the map is empty at the start.
LEMMA InitIInv == Init => IInv
  <1> SUFFICES ASSUME Init PROVE IInv
    OBVIOUS
  <1> USE SupervisorAssumption DEF Init, Keys, Tasks, None
  <1>1. TypeOK
    <2>1. accepting \in BOOLEAN /\ cancelled \in BOOLEAN
      OBVIOUS
    <2>2. tasks \in [Keys -> Tasks \cup {None}] /\ spawned \in 0..MaxTasks /\ handles \in SUBSET Tasks
      OBVIOUS
    <2> QED BY <2>1, <2>2 DEF TypeOK, TaskState, CallerPc, Phase
  <1>2. \A t \in Tasks : ~Live(t) /\ ~(t <= spawned)
    BY DEF Live
  <1>3. BornHasKey /\ MapOwner /\ InserterHoldsLock
    BY <1>2 DEF BornHasKey, MapOwner, InserterHoldsLock
  <1>4. DrainIsFinal /\ OneShotTracked /\ OnceCleanup /\ HandlesHaveOwnKeys /\ DownMeansAborted /\ NoUntrackedTask
    BY <1>2 DEF DrainIsFinal, Drained, OneShotTracked, OnceCleanup, HandlesHaveOwnKeys, DownMeansAborted, NoUntrackedTask, InHand
  <1> QED BY <1>1, <1>3, <1>4 DEF IInv

\* SpawnChecks preserves the invariant.
LEMMA SpawnChecksPreserves ==
  ASSUME IInv, NEW c \in Callers, NEW k \in Keys, SpawnChecks(c, k)
  PROVE  IInv'
  <1> USE SupervisorAssumption DEF Keys, Tasks, None
  <1>1. TypeOK'
    BY DEF IInv, TypeOK, SpawnChecks, BornHasKey, InserterHoldsLock, TaskState, CallerPc, Phase, callerVars
  <1>2. InserterHoldsLock'
    BY <1>1 DEF IInv, TypeOK, TaskState, CallerPc, Phase, SpawnChecks, InserterHoldsLock, DrainIsFinal,
       Drained, callerVars
  <1>3. BornHasKey' /\ MapOwner' /\ DrainIsFinal' /\ OneShotTracked' /\ OnceCleanup' /\ HandlesHaveOwnKeys' /\ DownMeansAborted' /\ NoUntrackedTask'
    BY <1>1 DEF IInv, TypeOK, TaskState, CallerPc, Phase, SpawnChecks, BornHasKey, InserterHoldsLock, MapOwner,
       DrainIsFinal, Drained, OneShotTracked, Live, OnceCleanup, HandlesHaveOwnKeys, DownMeansAborted,
       NoUntrackedTask, InHand, callerVars
  <1> QED BY <1>1, <1>2, <1>3 DEF IInv

\* SpawnInserts preserves the invariant.
LEMMA SpawnInsertsPreserves ==
  ASSUME IInv, NEW c \in Callers, SpawnInserts(c)
  PROVE  IInv'
  <1> USE SupervisorAssumption DEF Keys, Tasks, None
  <1>1. TypeOK'
    BY DEF IInv, TypeOK, SpawnInserts, BornHasKey, InserterHoldsLock, TaskState, CallerPc, Phase, callerVars
  <1>2. BornHasKey'
    BY <1>1 DEF IInv, TypeOK, TaskState, CallerPc, Phase, SpawnInserts, BornHasKey, InserterHoldsLock,
       callerVars
  <1>3. MapOwner'
    BY <1>1 DEF IInv, TypeOK, TaskState, CallerPc, Phase, SpawnInserts, MapOwner, BornHasKey,
       InserterHoldsLock, callerVars
  <1>4. InserterHoldsLock'
    BY <1>1 DEF IInv, TypeOK, TaskState, CallerPc, Phase, SpawnInserts, InserterHoldsLock, DrainIsFinal,
       Drained, callerVars
  <1>5. DrainIsFinal'
    BY <1>1 DEF IInv, TypeOK, TaskState, CallerPc, Phase, SpawnInserts, DrainIsFinal, Drained,
       InserterHoldsLock, MapOwner, callerVars
  <1>6. OneShotTracked'
    BY <1>1 DEF IInv, TypeOK, TaskState, CallerPc, Phase, SpawnInserts, OneShotTracked, Drained, Live,
       BornHasKey, MapOwner, InserterHoldsLock, DrainIsFinal, callerVars
  <1>7. OnceCleanup'
    BY <1>1 DEF IInv, TypeOK, TaskState, CallerPc, Phase, SpawnInserts, OnceCleanup, BornHasKey,
       InserterHoldsLock, callerVars
  <1>8. HandlesHaveOwnKeys'
    BY <1>1 DEF IInv, TypeOK, TaskState, CallerPc, Phase, SpawnInserts, HandlesHaveOwnKeys, MapOwner,
       DrainIsFinal, InserterHoldsLock, callerVars
  <1>9. DownMeansAborted'
    BY <1>1 DEF IInv, TypeOK, TaskState, CallerPc, Phase, SpawnInserts, DownMeansAborted, Live, Drained,
       DrainIsFinal, InserterHoldsLock, callerVars
  <1>10. NoUntrackedTask'
    <2> DEFINE k == argKey[c]
    <2>1. k \in Keys /\ spawned + 1 \in Tasks /\ handles' = handles
      BY DEF IInv, TypeOK, InserterHoldsLock, SpawnInserts
    <2>2. tasks'[k] = spawned + 1 /\ keyOf'[spawned + 1] = k
      BY <2>1 DEF IInv, TypeOK, SpawnInserts
    <2>3. ASSUME NEW t \in Tasks, t # spawned + 1, Live(t)'
          PROVE  tasks'[keyOf'[t]] = t \/ t \in handles' \/ InHand(t)' \/ abort'[t]
      <3>1. keyOf'[t] = keyOf[t] /\ Live(t) /\ keyOf[t] \in Keys /\ (abort[t] => abort'[t])
        BY <2>1, <2>3 DEF IInv, TypeOK, TaskState, BornHasKey, SpawnInserts, Live
      <3>2. CASE keyOf[t] # k
        BY <2>1, <3>1, <3>2 DEF IInv, TypeOK, NoUntrackedTask, InHand, SpawnInserts
      <3>3. CASE keyOf[t] = k
        BY <2>1, <3>1, <3>3 DEF IInv, TypeOK, NoUntrackedTask, InHand, SpawnInserts
      <3> QED BY <3>2, <3>3
    <2> QED BY <2>1, <2>2, <2>3 DEF NoUntrackedTask, InHand
  <1> QED BY <1>1, <1>2, <1>3, <1>4, <1>5, <1>6, <1>7, <1>8, <1>9, <1>10 DEF IInv

\* SendStart preserves the invariant.
LEMMA SendStartPreserves ==
  ASSUME IInv, NEW c \in Callers, SendStart(c)
  PROVE  IInv'
  <1> USE SupervisorAssumption DEF Keys, Tasks, None
  <1>1. TypeOK'
    BY DEF IInv, TypeOK, SendStart, BornHasKey, InserterHoldsLock, TaskState, CallerPc, Phase, callerVars
  <1>2. BornHasKey'
    BY <1>1 DEF IInv, TypeOK, TaskState, CallerPc, Phase, SendStart, BornHasKey, InserterHoldsLock, callerVars
  <1>3. OneShotTracked'
    BY <1>1 DEF IInv, TypeOK, TaskState, CallerPc, Phase, SendStart, OneShotTracked, Drained, Live, BornHasKey,
       MapOwner, InserterHoldsLock, DrainIsFinal, callerVars
  <1>4. DownMeansAborted'
    BY <1>1 DEF IInv, TypeOK, TaskState, CallerPc, Phase, SendStart, DownMeansAborted, Live, Drained,
       DrainIsFinal, InserterHoldsLock, callerVars
  <1>5. NoUntrackedTask'
    BY <1>1 DEF IInv, TypeOK, TaskState, CallerPc, Phase, SendStart, NoUntrackedTask, InHand, Live, Drained,
       BornHasKey, MapOwner, InserterHoldsLock, DrainIsFinal, OneShotTracked, callerVars
  <1>6. InserterHoldsLock'
    BY <1>1 DEF IInv, TypeOK, TaskState, CallerPc, Phase, SendStart, InserterHoldsLock, DrainIsFinal, Drained,
       callerVars
  <1>7. MapOwner' /\ DrainIsFinal' /\ OnceCleanup' /\ HandlesHaveOwnKeys'
    BY <1>1 DEF IInv, TypeOK, TaskState, CallerPc, Phase, SendStart, MapOwner, BornHasKey, InserterHoldsLock,
       DrainIsFinal, Drained, OnceCleanup, HandlesHaveOwnKeys, callerVars
  <1> QED BY <1>1, <1>2, <1>3, <1>4, <1>5, <1>6, <1>7 DEF IInv

\* Stop preserves the invariant.
LEMMA StopPreserves ==
  ASSUME IInv, NEW c \in Callers, NEW k \in ReplaceKeys, Stop(c, k)
  PROVE  IInv'
  <1> USE SupervisorAssumption DEF Keys, Tasks, None
  <1>1. TypeOK'
    BY DEF IInv, TypeOK, Stop, BornHasKey, InserterHoldsLock, TaskState, CallerPc, Phase, callerVars
  <1>2. MapOwner'
    BY <1>1 DEF IInv, TypeOK, TaskState, CallerPc, Phase, Stop, MapOwner, BornHasKey, InserterHoldsLock,
       callerVars
  <1>3. DrainIsFinal'
    BY <1>1 DEF IInv, TypeOK, TaskState, CallerPc, Phase, Stop, DrainIsFinal, Drained, InserterHoldsLock,
       MapOwner, callerVars
  <1>4. OneShotTracked'
    BY <1>1 DEF IInv, TypeOK, TaskState, CallerPc, Phase, Stop, OneShotTracked, Drained, Live, BornHasKey,
       MapOwner, InserterHoldsLock, DrainIsFinal, callerVars
  <1>5. NoUntrackedTask'
    BY <1>1 DEF IInv, TypeOK, TaskState, CallerPc, Phase, Stop, NoUntrackedTask, InHand, Live, Drained, BornHasKey,
       MapOwner, InserterHoldsLock, DrainIsFinal, OneShotTracked, callerVars
  <1>6. BornHasKey' /\ InserterHoldsLock' /\ OnceCleanup' /\ HandlesHaveOwnKeys' /\ DownMeansAborted'
    BY <1>1 DEF IInv, TypeOK, TaskState, CallerPc, Phase, Stop, BornHasKey, InserterHoldsLock, DrainIsFinal,
       Drained, OnceCleanup, HandlesHaveOwnKeys, MapOwner, DownMeansAborted, Live, callerVars
  <1> QED BY <1>1, <1>2, <1>3, <1>4, <1>5, <1>6 DEF IInv

\* StopAndWait preserves the invariant.
LEMMA StopAndWaitPreserves ==
  ASSUME IInv, NEW c \in Callers, NEW k \in ReplaceKeys, StopAndWait(c, k)
  PROVE  IInv'
  <1> USE SupervisorAssumption DEF Keys, Tasks, None
  <1>1. TypeOK'
    BY DEF IInv, TypeOK, StopAndWait, BornHasKey, InserterHoldsLock, TaskState, CallerPc, Phase, callerVars
  <1>2. MapOwner'
    BY <1>1 DEF IInv, TypeOK, TaskState, CallerPc, Phase, StopAndWait, MapOwner, BornHasKey, InserterHoldsLock,
       callerVars
  <1>3. InserterHoldsLock'
    BY <1>1 DEF IInv, TypeOK, TaskState, CallerPc, Phase, StopAndWait, InserterHoldsLock, DrainIsFinal,
       Drained, callerVars
  <1>4. DrainIsFinal'
    BY <1>1 DEF IInv, TypeOK, TaskState, CallerPc, Phase, StopAndWait, DrainIsFinal, Drained,
       InserterHoldsLock, MapOwner, callerVars
  <1>5. OneShotTracked'
    BY <1>1 DEF IInv, TypeOK, TaskState, CallerPc, Phase, StopAndWait, OneShotTracked, Drained, Live,
       BornHasKey, MapOwner, InserterHoldsLock, DrainIsFinal, callerVars
  <1>6. NoUntrackedTask'
    BY <1>1 DEF IInv, TypeOK, TaskState, CallerPc, Phase, StopAndWait, NoUntrackedTask, InHand, Live, Drained,
       BornHasKey, MapOwner, InserterHoldsLock, DrainIsFinal, OneShotTracked, callerVars
  <1>7. BornHasKey' /\ OnceCleanup' /\ HandlesHaveOwnKeys' /\ DownMeansAborted'
    BY <1>1 DEF IInv, TypeOK, TaskState, CallerPc, Phase, StopAndWait, BornHasKey, InserterHoldsLock,
       OnceCleanup, HandlesHaveOwnKeys, MapOwner, DrainIsFinal, DownMeansAborted, Live, Drained, callerVars
  <1> QED BY <1>1, <1>2, <1>3, <1>4, <1>5, <1>6, <1>7 DEF IInv

\* AbortTaken preserves the invariant.
LEMMA AbortTakenPreserves ==
  ASSUME IInv, NEW c \in Callers, AbortTaken(c)
  PROVE  IInv'
  <1> USE SupervisorAssumption DEF Keys, Tasks, None
  <1>1. TypeOK'
    BY DEF IInv, TypeOK, AbortTaken, TaskState, CallerPc, Phase
  <1>2. InserterHoldsLock'
    BY <1>1 DEF IInv, TypeOK, CallerPc, AbortTaken, InserterHoldsLock, Drained
  <1>3. NoUntrackedTask'
    BY <1>1 DEF IInv, TypeOK, CallerPc, AbortTaken, NoUntrackedTask, InHand, Live
  <1>4. DownMeansAborted'
    BY <1>1 DEF IInv, TypeOK, AbortTaken, DownMeansAborted, Live
  <1>5. BornHasKey' /\ MapOwner' /\ DrainIsFinal' /\ OneShotTracked' /\ OnceCleanup' /\ HandlesHaveOwnKeys'
    BY DEF IInv, AbortTaken, BornHasKey, MapOwner, DrainIsFinal, OneShotTracked, OnceCleanup, HandlesHaveOwnKeys,
       Drained, Live
  <1> QED BY <1>1, <1>2, <1>3, <1>4, <1>5 DEF IInv

\* Waited preserves the invariant.
LEMMA WaitedPreserves ==
  ASSUME IInv, NEW c \in Callers, Waited(c)
  PROVE  IInv'
  <1> USE SupervisorAssumption DEF Keys, Tasks, None
  <1>1. TypeOK'
    BY DEF IInv, TypeOK, Waited, BornHasKey, InserterHoldsLock, TaskState, CallerPc, Phase, callerVars
  <1>2. InserterHoldsLock'
    BY <1>1 DEF IInv, TypeOK, TaskState, CallerPc, Phase, Waited, InserterHoldsLock, DrainIsFinal, Drained,
       callerVars
  <1>3. BornHasKey' /\ MapOwner' /\ DrainIsFinal' /\ OneShotTracked' /\ OnceCleanup' /\ HandlesHaveOwnKeys' /\ DownMeansAborted' /\ NoUntrackedTask'
    BY <1>1 DEF IInv, TypeOK, TaskState, CallerPc, Phase, Waited, BornHasKey, InserterHoldsLock, MapOwner,
       DrainIsFinal, Drained, OneShotTracked, Live, OnceCleanup, HandlesHaveOwnKeys, DownMeansAborted,
       NoUntrackedTask, InHand, callerVars
  <1> QED BY <1>1, <1>2, <1>3 DEF IInv

\* NoticeAbort preserves the invariant.
LEMMA NoticeAbortPreserves ==
  ASSUME IInv, NEW t \in Tasks, NoticeAbort(t)
  PROVE  IInv'
  <1> USE SupervisorAssumption DEF Keys, Tasks, None
  <1>1. TypeOK'
    BY DEF IInv, TypeOK, NoticeAbort, BornHasKey, InserterHoldsLock, TaskState, CallerPc, Phase, callerVars
  <1>2. BornHasKey'
    BY <1>1 DEF IInv, TypeOK, TaskState, CallerPc, Phase, NoticeAbort, BornHasKey, InserterHoldsLock, callerVars
  <1>3. OneShotTracked'
    BY <1>1 DEF IInv, TypeOK, TaskState, CallerPc, Phase, NoticeAbort, OneShotTracked, Drained, Live,
       BornHasKey, MapOwner, InserterHoldsLock, DrainIsFinal, callerVars
  <1>4. DownMeansAborted'
    BY <1>1 DEF IInv, TypeOK, TaskState, CallerPc, Phase, NoticeAbort, DownMeansAborted, Live, Drained,
       DrainIsFinal, InserterHoldsLock, callerVars
  <1>5. NoUntrackedTask'
    BY <1>1 DEF IInv, TypeOK, TaskState, CallerPc, Phase, NoticeAbort, NoUntrackedTask, InHand, Live, Drained,
       BornHasKey, MapOwner, InserterHoldsLock, DrainIsFinal, OneShotTracked, callerVars
  <1>6. MapOwner' /\ InserterHoldsLock' /\ DrainIsFinal' /\ OnceCleanup' /\ HandlesHaveOwnKeys'
    BY <1>1 DEF IInv, TypeOK, TaskState, CallerPc, Phase, NoticeAbort, MapOwner, BornHasKey, InserterHoldsLock,
       DrainIsFinal, Drained, OnceCleanup, HandlesHaveOwnKeys, callerVars
  <1> QED BY <1>1, <1>2, <1>3, <1>4, <1>5, <1>6 DEF IInv

\* BodyReturns preserves the invariant.
LEMMA BodyReturnsPreserves ==
  ASSUME IInv, NEW t \in Tasks, BodyReturns(t)
  PROVE  IInv'
  <1> USE SupervisorAssumption DEF Keys, Tasks, None
  <1>1. TypeOK'
    BY DEF IInv, TypeOK, BodyReturns, BornHasKey, InserterHoldsLock, TaskState, CallerPc, Phase, callerVars
  <1>2. BornHasKey'
    BY <1>1 DEF IInv, TypeOK, TaskState, CallerPc, Phase, BodyReturns, BornHasKey, InserterHoldsLock, callerVars
  <1>3. OneShotTracked'
    BY <1>1 DEF IInv, TypeOK, TaskState, CallerPc, Phase, BodyReturns, OneShotTracked, Drained, Live,
       BornHasKey, MapOwner, InserterHoldsLock, DrainIsFinal, callerVars
  <1>4. DownMeansAborted'
    BY <1>1 DEF IInv, TypeOK, TaskState, CallerPc, Phase, BodyReturns, DownMeansAborted, Live, Drained,
       DrainIsFinal, InserterHoldsLock, callerVars
  <1>5. NoUntrackedTask'
    BY <1>1 DEF IInv, TypeOK, TaskState, CallerPc, Phase, BodyReturns, NoUntrackedTask, InHand, Live, Drained,
       BornHasKey, MapOwner, InserterHoldsLock, DrainIsFinal, OneShotTracked, callerVars
  <1>6. MapOwner' /\ InserterHoldsLock' /\ DrainIsFinal' /\ OnceCleanup' /\ HandlesHaveOwnKeys'
    BY <1>1 DEF IInv, TypeOK, TaskState, CallerPc, Phase, BodyReturns, MapOwner, BornHasKey, InserterHoldsLock,
       DrainIsFinal, Drained, OnceCleanup, HandlesHaveOwnKeys, callerVars
  <1> QED BY <1>1, <1>2, <1>3, <1>4, <1>5, <1>6 DEF IInv

\* RemoveCompleted preserves the invariant.
LEMMA RemoveCompletedPreserves ==
  ASSUME IInv, NEW t \in Tasks, RemoveCompleted(t)
  PROVE  IInv'
  <1> USE SupervisorAssumption DEF Keys, Tasks, None
  <1>1. TypeOK'
    BY DEF IInv, TypeOK, RemoveCompleted, BornHasKey, InserterHoldsLock, TaskState, CallerPc, Phase, callerVars
  <1>2. BornHasKey'
    BY <1>1 DEF IInv, TypeOK, TaskState, CallerPc, Phase, RemoveCompleted, BornHasKey, InserterHoldsLock,
       callerVars
  <1>3. MapOwner'
    BY <1>1 DEF IInv, TypeOK, TaskState, CallerPc, Phase, RemoveCompleted, MapOwner, BornHasKey,
       InserterHoldsLock, callerVars
  <1>4. InserterHoldsLock'
    BY <1>1 DEF IInv, TypeOK, TaskState, CallerPc, Phase, RemoveCompleted, InserterHoldsLock, DrainIsFinal,
       Drained, callerVars
  <1>5. DrainIsFinal'
    BY <1>1 DEF IInv, TypeOK, TaskState, CallerPc, Phase, RemoveCompleted, DrainIsFinal, Drained,
       InserterHoldsLock, MapOwner, callerVars
  <1>6. OneShotTracked'
    BY <1>1 DEF IInv, TypeOK, TaskState, CallerPc, Phase, RemoveCompleted, OneShotTracked, Drained, Live,
       BornHasKey, MapOwner, InserterHoldsLock, DrainIsFinal, callerVars
  <1>7. DownMeansAborted'
    BY <1>1 DEF IInv, TypeOK, TaskState, CallerPc, Phase, RemoveCompleted, DownMeansAborted, Live, Drained,
       DrainIsFinal, InserterHoldsLock, callerVars
  <1>8. NoUntrackedTask'
    <2> SUFFICES ASSUME NEW u \in Tasks, Live(u)'
                 PROVE  tasks'[keyOf[u]] = u \/ u \in handles \/ InHand(u) \/ abort[u]
      BY DEF NoUntrackedTask, InHand, RemoveCompleted, callerVars
    <2>1. u # t /\ Live(u) /\ keyOf[u] \in Keys /\ keyOf[t] \in Keys
      BY DEF RemoveCompleted, Live, IInv, TypeOK, TaskState, BornHasKey
    <2>2. CASE keyOf[u] # keyOf[t]
      BY <2>1, <2>2 DEF RemoveCompleted, IInv, TypeOK, NoUntrackedTask, InHand
    <2>3. CASE keyOf[u] = keyOf[t]
      <3>1. tasks[keyOf[t]] = t \/ tasks[keyOf[t]] = None
        BY <2>1 DEF IInv, DrainIsFinal, OneShotTracked, Live, RemoveCompleted, OnceCleanup
      <3> QED BY <2>1, <2>3, <3>1 DEF IInv, NoUntrackedTask, InHand
    <2> QED BY <2>2, <2>3
  <1>9. OnceCleanup' /\ HandlesHaveOwnKeys'
    BY <1>1 DEF IInv, TypeOK, TaskState, CallerPc, Phase, RemoveCompleted, OnceCleanup, BornHasKey,
       InserterHoldsLock, HandlesHaveOwnKeys, MapOwner, DrainIsFinal, callerVars
  <1> QED BY <1>1, <1>2, <1>3, <1>4, <1>5, <1>6, <1>7, <1>8, <1>9 DEF IInv

\* StopAccepting preserves the invariant.
LEMMA StopAcceptingPreserves ==
  ASSUME IInv, StopAccepting
  PROVE  IInv'
  <1> USE SupervisorAssumption DEF Keys, Tasks, None
  <1>1. TypeOK'
    BY DEF IInv, TypeOK, StopAccepting, BornHasKey, InserterHoldsLock, TaskState, CallerPc, Phase, callerVars
  <1>2. InserterHoldsLock'
    BY <1>1 DEF IInv, TypeOK, TaskState, CallerPc, Phase, StopAccepting, InserterHoldsLock, DrainIsFinal,
       Drained, callerVars
  <1>3. DrainIsFinal'
    BY <1>1 DEF IInv, TypeOK, TaskState, CallerPc, Phase, StopAccepting, DrainIsFinal, Drained,
       InserterHoldsLock, MapOwner, callerVars
  <1>4. BornHasKey' /\ MapOwner' /\ OneShotTracked' /\ OnceCleanup' /\ HandlesHaveOwnKeys' /\ DownMeansAborted' /\ NoUntrackedTask'
    BY <1>1 DEF IInv, TypeOK, TaskState, CallerPc, Phase, StopAccepting, BornHasKey, InserterHoldsLock,
       MapOwner, OneShotTracked, Drained, Live, DrainIsFinal, OnceCleanup, HandlesHaveOwnKeys,
       DownMeansAborted, NoUntrackedTask, InHand, callerVars
  <1> QED BY <1>1, <1>2, <1>3, <1>4 DEF IInv

\* CancelAll preserves the invariant.
LEMMA CancelAllPreserves ==
  ASSUME IInv, CancelAll
  PROVE  IInv'
  <1> USE SupervisorAssumption DEF Keys, Tasks, None
  <1>1. TypeOK'
    BY DEF IInv, TypeOK, CancelAll, BornHasKey, InserterHoldsLock, TaskState, CallerPc, Phase, callerVars
  <1>2. InserterHoldsLock'
    BY <1>1 DEF IInv, TypeOK, TaskState, CallerPc, Phase, CancelAll, InserterHoldsLock, DrainIsFinal, Drained,
       callerVars
  <1>3. DrainIsFinal'
    BY <1>1 DEF IInv, TypeOK, TaskState, CallerPc, Phase, CancelAll, DrainIsFinal, Drained, InserterHoldsLock,
       MapOwner, callerVars
  <1>4. BornHasKey' /\ MapOwner' /\ OneShotTracked' /\ OnceCleanup' /\ HandlesHaveOwnKeys' /\ DownMeansAborted' /\ NoUntrackedTask'
    BY <1>1 DEF IInv, TypeOK, TaskState, CallerPc, Phase, CancelAll, BornHasKey, InserterHoldsLock, MapOwner,
       OneShotTracked, Drained, Live, DrainIsFinal, OnceCleanup, HandlesHaveOwnKeys, DownMeansAborted,
       NoUntrackedTask, InHand, callerVars
  <1> QED BY <1>1, <1>2, <1>3, <1>4 DEF IInv

\* Drain preserves the invariant.
LEMMA DrainPreserves ==
  ASSUME IInv, Drain
  PROVE  IInv'
  <1> USE SupervisorAssumption DEF Keys, Tasks, None
  <1>1. TypeOK'
    BY DEF IInv, TypeOK, Drain, BornHasKey, InserterHoldsLock, TaskState, CallerPc, Phase, callerVars
  <1>2. MapOwner'
    BY <1>1 DEF IInv, TypeOK, TaskState, CallerPc, Phase, Drain, MapOwner, BornHasKey, InserterHoldsLock,
       callerVars
  <1>3. InserterHoldsLock'
    BY <1>1 DEF IInv, TypeOK, TaskState, CallerPc, Phase, Drain, InserterHoldsLock, DrainIsFinal, Drained,
       callerVars
  <1>4. DrainIsFinal'
    <2>1. \A t \in handles' : t <= spawned'
      BY DEF IInv, MapOwner, Drain
    <2> QED BY <2>1 DEF IInv, DrainIsFinal, Drained, Drain
  <1>5. OneShotTracked'
    BY <1>1 DEF IInv, TypeOK, TaskState, CallerPc, Phase, Drain, OneShotTracked, Drained, Live, BornHasKey,
       MapOwner, InserterHoldsLock, DrainIsFinal, callerVars
  <1>6. HandlesHaveOwnKeys'
    <2>1. \A t \in handles' : \E k \in Keys : t = tasks[k] /\ keyOf[t] = k
      BY DEF IInv, MapOwner, Drain
    <2> QED BY <2>1 DEF HandlesHaveOwnKeys, Drain
  <1>7. DownMeansAborted'
    BY <1>1 DEF IInv, TypeOK, TaskState, CallerPc, Phase, Drain, DownMeansAborted, Live, Drained, DrainIsFinal,
       InserterHoldsLock, callerVars
  <1>8. NoUntrackedTask'
    <2> SUFFICES ASSUME NEW t \in Tasks, Live(t) PROVE t \in handles' \/ InHand(t) \/ abort[t]
      BY DEF NoUntrackedTask, InHand, Drain, Live, callerVars
    <2>1. handles = {} /\ keyOf[t] \in Keys
      BY DEF IInv, DrainIsFinal, Drained, Drain, BornHasKey, Live, TypeOK
    <2>2. t # None
      OBVIOUS
    <2>3. tasks[keyOf[t]] = t => t \in handles'
      BY <2>1, <2>2 DEF Drain
    <2> QED BY <2>1, <2>3 DEF IInv, NoUntrackedTask, InHand
  <1>9. BornHasKey' /\ OnceCleanup'
    BY <1>1 DEF IInv, TypeOK, TaskState, CallerPc, Phase, Drain, BornHasKey, InserterHoldsLock, OnceCleanup,
       callerVars
  <1> QED BY <1>1, <1>2, <1>3, <1>4, <1>5, <1>6, <1>7, <1>8, <1>9 DEF IInv

\* AllEnded preserves the invariant.
LEMMA AllEndedPreserves ==
  ASSUME IInv, AllEnded
  PROVE  IInv'
  <1> USE SupervisorAssumption DEF Keys, Tasks, None
  <1>1. TypeOK'
    BY DEF IInv, TypeOK, AllEnded, BornHasKey, InserterHoldsLock, TaskState, CallerPc, Phase, callerVars
  <1>2. InserterHoldsLock'
    BY <1>1 DEF IInv, TypeOK, TaskState, CallerPc, Phase, AllEnded, InserterHoldsLock, DrainIsFinal, Drained,
       callerVars
  <1>3. DrainIsFinal'
    BY <1>1 DEF IInv, TypeOK, TaskState, CallerPc, Phase, AllEnded, DrainIsFinal, Drained, InserterHoldsLock,
       MapOwner, callerVars
  <1>4. DownMeansAborted'
    BY <1>1 DEF IInv, TypeOK, TaskState, CallerPc, Phase, AllEnded, DownMeansAborted, Live, Drained,
       DrainIsFinal, InserterHoldsLock, callerVars
  <1>5. BornHasKey' /\ MapOwner' /\ OneShotTracked' /\ OnceCleanup' /\ HandlesHaveOwnKeys' /\ NoUntrackedTask'
    BY <1>1 DEF IInv, TypeOK, TaskState, CallerPc, Phase, AllEnded, BornHasKey, InserterHoldsLock, MapOwner,
       OneShotTracked, Drained, Live, DrainIsFinal, OnceCleanup, HandlesHaveOwnKeys, NoUntrackedTask, InHand, callerVars
  <1> QED BY <1>1, <1>2, <1>3, <1>4, <1>5 DEF IInv

\* DeadlinePasses preserves the invariant.
LEMMA DeadlinePassesPreserves ==
  ASSUME IInv, DeadlinePasses
  PROVE  IInv'
  <1> USE SupervisorAssumption DEF Keys, Tasks, None
  <1>1. TypeOK'
    BY DEF IInv, TypeOK, DeadlinePasses, BornHasKey, InserterHoldsLock, TaskState, CallerPc, Phase, callerVars
  <1>2. InserterHoldsLock'
    BY <1>1 DEF IInv, TypeOK, TaskState, CallerPc, Phase, DeadlinePasses, InserterHoldsLock, DrainIsFinal,
       Drained, callerVars
  <1>3. DrainIsFinal'
    BY <1>1 DEF IInv, TypeOK, TaskState, CallerPc, Phase, DeadlinePasses, DrainIsFinal, Drained,
       InserterHoldsLock, MapOwner, callerVars
  <1>4. DownMeansAborted'
    BY <1>1 DEF IInv, TypeOK, TaskState, CallerPc, Phase, DeadlinePasses, DownMeansAborted, Live, Drained,
       DrainIsFinal, InserterHoldsLock, callerVars
  <1>5. NoUntrackedTask'
    BY <1>1 DEF IInv, TypeOK, TaskState, CallerPc, Phase, DeadlinePasses, NoUntrackedTask, InHand, Live, Drained,
       BornHasKey, MapOwner, InserterHoldsLock, DrainIsFinal, OneShotTracked, callerVars
  <1>6. BornHasKey' /\ MapOwner' /\ OneShotTracked' /\ OnceCleanup' /\ HandlesHaveOwnKeys'
    BY <1>1 DEF IInv, TypeOK, TaskState, CallerPc, Phase, DeadlinePasses, BornHasKey, InserterHoldsLock,
       MapOwner, OneShotTracked, Drained, Live, DrainIsFinal, OnceCleanup, HandlesHaveOwnKeys, callerVars
  <1> QED BY <1>1, <1>2, <1>3, <1>4, <1>5, <1>6 DEF IInv

-----------------------------------------------------------------------------
\* Every step preserves the invariant.
LEMMA NextIInv == IInv /\ [Next]_vars => IInv'
  <1> SUFFICES ASSUME IInv, [Next]_vars PROVE IInv'
    OBVIOUS
  <1>1. ASSUME NEW c \in Callers, Caller(c) PROVE IInv'
    BY <1>1, SpawnChecksPreserves, SpawnInsertsPreserves, SendStartPreserves, StopPreserves, StopAndWaitPreserves,
       AbortTakenPreserves, WaitedPreserves DEF Caller
  <1>2. ASSUME NEW t \in Tasks, Task(t) PROVE IInv'
    BY <1>2, NoticeAbortPreserves, BodyReturnsPreserves, RemoveCompletedPreserves DEF Task
  <1>3. CASE Shutdown
    BY <1>3, StopAcceptingPreserves, CancelAllPreserves, DrainPreserves, AllEndedPreserves, DeadlinePassesPreserves
       DEF Shutdown
  <1>4. CASE UNCHANGED vars
    BY <1>4 DEF vars, callerVars, IInv, TypeOK, BornHasKey, MapOwner, InserterHoldsLock, DrainIsFinal,
       OneShotTracked, OnceCleanup, HandlesHaveOwnKeys, DownMeansAborted, NoUntrackedTask, InHand, Live, Drained
  <1> QED BY <1>1, <1>2, <1>3, <1>4 DEF Next

\* The inductive invariant holds in every reachable state.
LEMMA IInvHolds == Spec => []IInv
  BY InitIInv, NextIInv, PTL DEF Spec

\* The supervisor's state stays well typed.
THEOREM TypeCorrect == Spec => []TypeOK
  <1>1. IInv => TypeOK
    BY DEF IInv
  <1> QED BY IInvHolds, <1>1, PTL

\* No task escapes the supervisor: a live task is in the map, in the handles
\* shutdown drained, taken by a stop_and_wait that aborts it next, or aborted,
\* also when its spawn races shutdown.
THEOREM TasksAreTracked == Spec => []NoUntrackedTask
  <1>1. IInv => NoUntrackedTask
    BY DEF IInv
  <1> QED BY IInvHolds, <1>1, PTL

\* Two tasks of one spawn_once key are never alive together.
THEOREM OneShotsAreUnique == Spec => []OneShotIsUnique
  <1>1. IInv => OneShotIsUnique
    BY DEF IInv, OneShotIsUnique, OneShotTracked, OnceCleanup, HandlesHaveOwnKeys, Live
  <1> QED BY IInvHolds, <1>1, PTL

\* After shutdown the map is empty, and whatever still runs was aborted or is
\* in the hands of a stop_and_wait that took it before the drain.
THEOREM ShutdownReachesEveryTask == Spec => []NothingSurvivesShutdown
  <1>1. IInv => NothingSurvivesShutdown
    <2> SUFFICES ASSUME IInv, phase = "down" PROVE NothingSurvivesShutdown
      BY DEF NothingSurvivesShutdown
    <2>1. \A k \in Keys : tasks[k] = None
      BY DEF IInv, DrainIsFinal, Drained
    <2>2. ASSUME NEW t \in Tasks, Live(t) PROVE abort[t] \/ InHand(t)
      <3>1. t <= spawned
        BY <2>2 DEF IInv, BornHasKey, Live, TypeOK, Tasks
      <3>2. tasks[keyOf[t]] # t
        BY <2>1, <3>1, SupervisorAssumption DEF IInv, BornHasKey, Tasks, None
      <3> QED BY <2>2, <3>2 DEF IInv, NoUntrackedTask, InHand, DownMeansAborted
    <2> QED BY <2>1, <2>2 DEF NothingSurvivesShutdown
  <1> QED BY IInvHolds, <1>1, PTL
=============================================================================
