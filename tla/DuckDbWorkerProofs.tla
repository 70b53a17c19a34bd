------------------------- MODULE DuckDbWorkerProofs -------------------------
(***************************************************************************)
(* TLAPS proofs about DuckDbWorker, for any number of tasks, generations   *)
(* and retries and any limit of processes.                                 *)
(***************************************************************************)
EXTENDS DuckDbWorker, TLAPS

\* Only the newest worker can be the child, only the child can be alive, and what
\* a live worker says is read unless its reader broke.
WorkerInv ==
  /\ child # None => child = gen /\ proc[child] # "none"
  /\ \A g \in Gens : proc[g] = "alive" => child = g /\ (reader[g] = "reading" \/ broken[g])
  /\ \A g \in Gens : g > gen => proc[g] = "none"

\* The worker a generation stands for has opened the database, or it is gone.
Opened(g) == g # None /\ (proc[g] \in {"alive", "dying"} => session[g])

\* The flag was set while the current child was the child.
FlagInv == connected => setFor = child /\ (child # None /\ setBy = child => Opened(child))

\* What a task may count on: of the request in the table, of the answer it got,
\* of the worker it killed, and of the one that answered its Connect.
TaskInv(u) ==
  /\ reqGen[u] <= gen
  /\ pending[u] # None =>
       /\ pc[u] \in Waiting
       /\ res[u] = "none"
       /\ reqGen[u] = pending[u]
       /\ proc[pending[u]] # "none"
       /\ reader[pending[u]] = "reading" \/ broken[pending[u]]
  /\ pc[u] \in Waiting /\ res[u] = "none" => pending[u] # None
  /\ pc[u] \in Waiting /\ res[u] \in {"killed", "exited"} =>
       reqGen[u] # None /\ (proc[reqGen[u]] \in {"dying", "dead"} \/ broken[reqGen[u]])
  /\ pc[u] \in {"fail", "failConnect"} /\ killGen[u] # None =>
       killGen[u] <= gen /\ proc[killGen[u]] # "alive"
  /\ pc[u] = "mark" \/ (pc[u] = "awaitConnect" /\ res[u] = "ok") => Opened(reqGen[u])

IInv ==
  /\ TypeOK
  /\ WorkerInv
  /\ FlagInv
  /\ \A u \in Tasks : TaskInv(u)

\* What no step undoes: generations grow, a process that is going down stays
\* down, an opened database stays open until its worker is gone.
Later ==
  /\ gen <= gen'
  /\ \A g \in Gens : g <= gen =>
       /\ proc[g] = "none" <=> proc'[g] = "none"
       /\ proc[g] # "alive" => proc'[g] # "alive"
       /\ proc[g] = "dead" => proc'[g] = "dead"
       /\ session[g] /\ proc'[g] # "dead" => session'[g]
       /\ broken[g] => broken'[g]

\* The readers that read go on reading.
ReadersStay == \A g \in Gens : g <= gen /\ reader[g] = "reading" => reader'[g] = "reading"

\* The step leaves the locals of a task alone.
Untouched(u) ==
  /\ reqGen'[u] = reqGen[u] /\ pending'[u] = pending[u] /\ res'[u] = res[u]
  /\ pc'[u] = pc[u] /\ killGen'[u] = killGen[u]

\* The generations of a task's locals are generations.
GenTypes(u) == reqGen[u] \in 0..MaxGen /\ pending[u] \in 0..MaxGen /\ killGen[u] \in 0..MaxGen

-----------------------------------------------------------------------------
\* No worker and no call exists at the start.
LEMMA InitIInv == Init => IInv
  <1> SUFFICES ASSUME Init PROVE IInv
    OBVIOUS
  <1> USE DuckDbWorkerAssumption DEF Init, None, Gens
  <1>1. TypeOK
    <2>1. 0 \in 0..MaxGen /\ 0 \in 0..MaxRetries
      OBVIOUS
    <2>2. "idle" \in Pcs /\ "none" \in Results
      BY DEF Pcs, Results
    <2> QED BY <2>1, <2>2 DEF TypeOK
  <1>2. WorkerInv /\ FlagInv
    BY DEF WorkerInv, FlagInv
  <1>3. \A u \in Tasks : TaskInv(u)
    BY DEF TaskInv, Waiting
  <1> QED BY <1>1, <1>2, <1>3 DEF IInv

\* A task the step does not touch keeps what it counts on.
LEMMA TaskKept ==
  ASSUME TypeOK, TypeOK', Later, ReadersStay, NEW u \in Tasks, TaskInv(u), Untouched(u)
  PROVE  TaskInv(u)'
  <1> USE DEF Gens, None
  <1>1. GenTypes(u) /\ gen \in Nat /\ gen' \in Nat /\ gen <= gen' /\ MaxGen \in Nat
    BY DuckDbWorkerAssumption DEF TypeOK, GenTypes, Later
  <1>2. (reqGen[u] <= gen)'
    BY <1>1 DEF TaskInv, Untouched, GenTypes
  <1>3. pending[u] # None => /\ proc'[pending[u]] # "none"
                             /\ reader'[pending[u]] = "reading" \/ broken'[pending[u]]
    BY <1>1 DEF TaskInv, GenTypes, Later, ReadersStay
  <1>4. pc[u] \in Waiting /\ res[u] \in {"killed", "exited"} =>
          reqGen[u] # None /\ (proc'[reqGen[u]] \in {"dying", "dead"} \/ broken'[reqGen[u]])
    <2> SUFFICES ASSUME pc[u] \in Waiting, res[u] \in {"killed", "exited"}
                 PROVE  /\ reqGen[u] # None
                        /\ proc'[reqGen[u]] \in {"dying", "dead"} \/ broken'[reqGen[u]]
      OBVIOUS
    <2>1. reqGen[u] \in Gens /\ reqGen[u] <= gen
      BY <1>1 DEF TaskInv, GenTypes
    <2>2. proc[reqGen[u]] \in {"dying", "dead"} \/ broken[reqGen[u]]
      BY DEF TaskInv
    <2>3. proc'[reqGen[u]] \in {"none", "alive", "dying", "dead"}
      BY <2>1 DEF TypeOK
    <2> QED BY <2>1, <2>2, <2>3 DEF Later
  <1>5. pc[u] \in {"fail", "failConnect"} /\ killGen[u] # None =>
          killGen[u] <= gen' /\ proc'[killGen[u]] # "alive"
    <2> SUFFICES ASSUME pc[u] \in {"fail", "failConnect"}, killGen[u] # None
                 PROVE  killGen[u] <= gen' /\ proc'[killGen[u]] # "alive"
      OBVIOUS
    <2>1. killGen[u] \in Gens /\ killGen[u] <= gen /\ proc[killGen[u]] # "alive"
      BY <1>1 DEF TaskInv, GenTypes
    <2> QED BY <1>1, <2>1 DEF Later
  <1>6. pc[u] = "mark" \/ (pc[u] = "awaitConnect" /\ res[u] = "ok") => Opened(reqGen[u])'
    <2> SUFFICES ASSUME Opened(reqGen[u]) PROVE Opened(reqGen[u])'
      BY DEF TaskInv
    <2>1. reqGen[u] \in Gens /\ reqGen[u] <= gen
      BY <1>1 DEF TaskInv, GenTypes, Opened
    <2>2. proc[reqGen[u]] \in {"none", "alive", "dying", "dead"}
      BY <2>1 DEF TypeOK
    <2> QED BY <2>1, <2>2 DEF Later, Opened, Untouched
  <1> QED BY <1>2, <1>3, <1>4, <1>5, <1>6 DEF TaskInv, Untouched

-----------------------------------------------------------------------------
(* The steps under the state mutex.                                        *)

\* The types of what the state mutex guards and of the workers.
StateTypes ==
  /\ gen \in 0..MaxGen /\ child \in 0..MaxGen /\ connected \in BOOLEAN
  /\ setFor \in 0..MaxGen /\ setBy \in 0..MaxGen
  /\ proc \in [Gens -> {"none", "alive", "dying", "dead"}]
  /\ session \in [Gens -> BOOLEAN]
  /\ reader \in [Gens -> {"none", "reading", "ended"}]
  /\ broken \in [Gens -> BOOLEAN]

\* A step that leaves the workers in order.
WorkersInOrder == StateTypes' /\ WorkerInv' /\ FlagInv' /\ Later /\ ReadersStay

\* A step that leaves the workers alone leaves them in order.
LEMMA WorkersAlone ==
  ASSUME IInv, UNCHANGED <<stateVars, workerVars>>
  PROVE  WorkersInOrder
  BY DEF IInv, TypeOK, StateTypes, WorkersInOrder, WorkerInv, FlagInv, Opened, Later, ReadersStay,
     stateVars, workerVars

\* ensure_started_locked, when it succeeds, leaves a worker of the newest
\* generation, old or new.
LEMMA StartedEffect ==
  ASSUME IInv, Started
  PROVE  WorkersInOrder /\ child' \in Gens /\ child' = gen'
  <1> USE DuckDbWorkerAssumption DEF None, Gens
  <1>1. CASE Running /\ UNCHANGED <<stateVars, workerVars>>
    BY <1>1, WorkersAlone DEF IInv, TypeOK, WorkerInv, Running, stateVars, workerVars
  <1>2. CASE /\ ~Running /\ gen < MaxGen
             /\ gen' = gen + 1 /\ child' = gen + 1 /\ Disconnect
             /\ proc' = [proc EXCEPT ![gen + 1] = "alive"]
             /\ reader' = [reader EXCEPT ![gen + 1] = "reading"]
             /\ UNCHANGED <<session, broken>>
    <2>1. gen + 1 \in Gens /\ gen \in Nat
      BY <1>2 DEF IInv, TypeOK
    <2>2. StateTypes'
      <3>1. connected' \in BOOLEAN
        BY <1>2, Zenon DEF Disconnect
      <3>4. setFor' \in 0..MaxGen /\ setBy' \in 0..MaxGen
        BY <1>2, SMT DEF Disconnect
      <3>2. gen' \in 0..MaxGen /\ child' \in 0..MaxGen
        BY <1>2, <2>1
      <3>3. /\ proc' \in [Gens -> {"none", "alive", "dying", "dead"}]
            /\ reader' \in [Gens -> {"none", "reading", "ended"}]
        BY <1>2, <2>1 DEF IInv, TypeOK
      <3> QED BY <1>2, <3>1, <3>2, <3>3, <3>4 DEF IInv, TypeOK, StateTypes
    <2>3. \A g \in Gens : g # gen + 1 =>
            proc'[g] = proc[g] /\ reader'[g] = reader[g] /\ proc[g] # "alive"
      BY <1>2, <2>1 DEF IInv, TypeOK, WorkerInv, Running
    <2>4. proc'[gen + 1] = "alive" /\ reader'[gen + 1] = "reading"
      BY <1>2, <2>1 DEF IInv, TypeOK
    <2>5. WorkerInv'
      BY <1>2, <2>1, <2>3, <2>4 DEF IInv, WorkerInv
    <2>6. FlagInv'
      BY <1>2 DEF Disconnect, FlagInv
    <2>7. Later /\ ReadersStay
      BY <1>2, <2>1, <2>3 DEF Later, ReadersStay
    <2> QED BY <1>2, <2>1, <2>2, <2>5, <2>6, <2>7 DEF WorkersInOrder
  <1> QED BY <1>1, <1>2 DEF Started

\* ensure_started_locked, when it fails, leaves no child, and no process alive.
LEMMA StartFailsEffect ==
  ASSUME IInv, StartFails
  PROVE  WorkersInOrder
  <1> USE DuckDbWorkerAssumption DEF None, Gens
  <1>1. gen' \in 0..MaxGen /\ gen \in Nat /\ gen <= gen'
    BY DEF IInv, TypeOK, StartFails
  <1>2. StateTypes'
    <2>1. child' \in 0..MaxGen /\ setFor' \in 0..MaxGen /\ setBy' \in 0..MaxGen
      BY SMT DEF StartFails, Disconnect
    <2>2. connected' \in BOOLEAN
      BY Zenon DEF StartFails, Disconnect
    <2> QED BY <1>1, <2>1, <2>2 DEF IInv, TypeOK, StateTypes, StartFails, workerVars
  <1>3. \A g \in Gens : proc[g] # "alive"
    BY DEF IInv, TypeOK, WorkerInv, StartFails, Running
  <1>4. WorkerInv'
    BY <1>1, <1>3 DEF IInv, WorkerInv, StartFails, workerVars
  <1>5. FlagInv'
    BY DEF StartFails, Disconnect, FlagInv
  <1>6. Later /\ ReadersStay
    BY <1>1 DEF Later, ReadersStay, StartFails, workerVars
  <1> QED BY <1>2, <1>4, <1>5, <1>6 DEF WorkersInOrder

\* A step that leaves the workers in order keeps what the other tasks count on.
LEMMA OthersKept ==
  ASSUME IInv, TypeOK', WorkersInOrder, NEW t \in Tasks, TaskInv(t)',
         \A u \in Tasks : u # t => Untouched(u)
  PROVE  IInv'
  <1>1. ASSUME NEW u \in Tasks, u # t PROVE TaskInv(u)'
    BY <1>1, TaskKept DEF IInv, WorkersInOrder
  <1> QED BY <1>1 DEF IInv, WorkersInOrder

\* A call begins outside every request.
LEMMA CallPreserves ==
  ASSUME IInv, NEW t \in Tasks, NEW o \in Ops, Call(t, o)
  PROVE  IInv'
  <1> USE DuckDbWorkerAssumption DEF Call, Goto, stateVars, workerVars, requestVars,
      taskVars, lockVars, None
  <1>1. WorkersInOrder
    BY WorkersAlone
  <1>2. TypeOK'
    BY <1>1 DEF IInv, TypeOK, StateTypes, WorkersInOrder, Ops, Pcs, Waiting, Connecting,
       Results
  <1>3. TaskInv(t)'
    BY <1>1 DEF IInv, TypeOK, TaskInv, Waiting, Opened
  <1>4. \A u \in Tasks : u # t => Untouched(u)
    BY DEF IInv, TypeOK, Untouched
  <1> QED BY <1>1, <1>2, <1>3, <1>4, OthersKept

\* The answer to Connect is taken as it is.
LEMMA ConnectAnsweredPreserves ==
  ASSUME IInv, NEW t \in Tasks, ConnectAnswered(t)
  PROVE  IInv'
  <1> USE DuckDbWorkerAssumption DEF ConnectAnswered, Goto, stateVars, workerVars,
      requestVars, taskVars, lockVars, None
  <1>1. WorkersInOrder
    BY WorkersAlone
  <1>2. TypeOK'
    BY <1>1 DEF IInv, TypeOK, StateTypes, WorkersInOrder, Ops, Pcs, Waiting, Connecting,
       Results
  <1>3. TaskInv(t)'
    BY <1>1 DEF IInv, TypeOK, TaskInv, Waiting, Opened
  <1>4. \A u \in Tasks : u # t => Untouched(u)
    BY DEF IInv, TypeOK, Untouched
  <1> QED BY <1>1, <1>2, <1>3, <1>4, OthersKept

\* A Connect that times out takes its entry out of the table.
LEMMA ConnectTimesOutPreserves ==
  ASSUME IInv, NEW t \in Tasks, ConnectTimesOut(t)
  PROVE  IInv'
  <1> USE DuckDbWorkerAssumption DEF ConnectTimesOut, Goto, stateVars, workerVars,
      requestVars, taskVars, lockVars, None
  <1>1. WorkersInOrder
    BY WorkersAlone
  <1>2. TypeOK'
    BY <1>1 DEF IInv, TypeOK, StateTypes, WorkersInOrder, Ops, Pcs, Waiting, Connecting,
       Results
  <1>3. TaskInv(t)'
    BY <1>1 DEF IInv, TypeOK, TaskInv, Waiting, Opened
  <1>4. \A u \in Tasks : u # t => Untouched(u)
    BY DEF IInv, TypeOK, Untouched
  <1> QED BY <1>1, <1>2, <1>3, <1>4, OthersKept

\* A result is taken; the request is forgotten.
LEMMA AnsweredPreserves ==
  ASSUME IInv, NEW t \in Tasks, Answered(t)
  PROVE  IInv'
  <1> USE DuckDbWorkerAssumption DEF Answered, Goto, Return, Forget, stateVars, workerVars,
      requestVars, taskVars, lockVars, None
  <1>1. WorkersInOrder
    BY WorkersAlone
  <1>2. TypeOK'
    <2>1. pc' \in [Tasks -> Pcs] /\ op' \in [Tasks -> Ops \cup {Nil}]
      BY DEF IInv, TypeOK, Pcs
    <2>2. connectLock' \in Tasks \cup {Nil} /\ queryLock' \in Tasks \cup {Nil}
      BY DEF IInv, TypeOK, Unlock
    <2>3. reqGen' \in [Tasks -> 0..MaxGen] /\ res' \in [Tasks -> Results]
      BY DEF IInv, TypeOK, Results
    <2> QED BY <1>1, <2>1, <2>2, <2>3 DEF IInv, TypeOK, StateTypes, WorkersInOrder
  <1>3. TaskInv(t)'
    BY <1>1 DEF IInv, TypeOK, TaskInv, Waiting, Opened
  <1>4. \A u \in Tasks : u # t => Untouched(u)
    BY DEF IInv, TypeOK, Untouched
  <1> QED BY <1>1, <1>2, <1>3, <1>4, OthersKept

\* A dropped call takes its entry out of the table.
LEMMA AbandonPreserves ==
  ASSUME IInv, NEW t \in Tasks, Abandon(t)
  PROVE  IInv'
  <1> USE DuckDbWorkerAssumption DEF Abandon, Goto, Forget, stateVars, workerVars,
      requestVars, taskVars, lockVars, None
  <1>1. WorkersInOrder
    BY WorkersAlone
  <1>2. TypeOK'
    <2>1. pc' \in [Tasks -> Pcs] /\ connectLock' \in Tasks \cup {Nil}
      BY DEF IInv, TypeOK, Pcs, Unlock
    <2>2. /\ pending' \in [Tasks -> 0..MaxGen] /\ reqGen' \in [Tasks -> 0..MaxGen]
          /\ res' \in [Tasks -> Results]
      BY DEF IInv, TypeOK, Results
    <2>3. attempts' \in [Tasks -> 0..MaxRetries] /\ killGen' \in [Tasks -> 0..MaxGen]
      BY DEF IInv, TypeOK
    <2> QED BY <1>1, <2>1, <2>2, <2>3 DEF IInv, TypeOK, StateTypes, WorkersInOrder
  <1>3. TaskInv(t)'
    BY <1>1 DEF IInv, TypeOK, TaskInv, Waiting, Opened
  <1>4. \A u \in Tasks : u # t => Untouched(u)
    BY DEF IInv, TypeOK, Untouched
  <1> QED BY <1>1, <1>2, <1>3, <1>4, OthersKept

\* Connect was answered by a worker that has opened the database; the flag is set
\* for whatever child there is by now.
LEMMA MarkPreserves ==
  ASSUME IInv, NEW t \in Tasks, Mark(t)
  PROVE  IInv'
  <1> USE DuckDbWorkerAssumption DEF Mark, Goto, Forget, workerVars, None
  <1>1. WorkersInOrder
    <2>1. StateTypes'
      BY DEF IInv, TypeOK, StateTypes
    <2>2. WorkerInv' /\ Later /\ ReadersStay
      BY DEF IInv, TypeOK, WorkerInv, Later, ReadersStay
    <2>3. FlagInv'
      BY DEF IInv, FlagInv, TaskInv, Opened
    <2> QED BY <2>1, <2>2, <2>3 DEF WorkersInOrder
  <1>2. TypeOK'
    <2>1. pc' \in [Tasks -> Pcs] /\ connectLock' \in Tasks \cup {Nil}
      BY DEF IInv, TypeOK, Pcs
    <2>2. reqGen' \in [Tasks -> 0..MaxGen] /\ res' \in [Tasks -> Results]
      BY DEF IInv, TypeOK, Results
    <2>3. attempts' \in [Tasks -> 0..MaxRetries]
      BY DEF IInv, TypeOK
    <2> QED BY <1>1, <2>1, <2>2, <2>3 DEF IInv, TypeOK, StateTypes, WorkersInOrder
  <1>3. TaskInv(t)'
    BY <1>1 DEF IInv, TypeOK, TaskInv, Waiting, Opened
  <1>4. \A u \in Tasks : u # t => Untouched(u)
    BY DEF IInv, TypeOK, Untouched
  <1> QED BY <1>1, <1>2, <1>3, <1>4, OthersKept

\* ensure_connected makes no request yet.
LEMMA EnsureConnectedPreserves ==
  ASSUME IInv, NEW t \in Tasks, EnsureConnected(t)
  PROVE  IInv'
  <1> USE DuckDbWorkerAssumption DEF None
  <1>1. WorkersInOrder
    BY StartedEffect, StartFailsEffect DEF EnsureConnected
  <1>2. /\ pc' \in [Tasks -> Pcs] /\ op' \in [Tasks -> Ops \cup {Nil}]
        /\ connectLock' \in Tasks \cup {Nil} /\ queryLock' \in Tasks \cup {Nil}
    <2>1. CASE connected' /\ Goto(t, "send") /\ UNCHANGED <<connectLock, op, queryLock>>
      BY <2>1 DEF IInv, TypeOK, Goto, Pcs
    <2>2. CASE Goto(t, "sendConnect") /\ connectLock' = t /\ UNCHANGED <<op, queryLock>>
      BY <2>2 DEF IInv, TypeOK, Goto, Pcs, Connecting
    <2>3. CASE Return(t)
      BY <2>3 DEF IInv, TypeOK, Return, Goto, Unlock, Pcs
    <2> QED BY <2>1, <2>2, <2>3 DEF EnsureConnected
  <1>3. TypeOK'
    BY <1>1, <1>2 DEF IInv, TypeOK, StateTypes, WorkersInOrder, EnsureConnected, requestVars
  <1>4. pc[t] = "ensure" /\ pc'[t] \in {"send", "sendConnect", "idle"}
    BY DEF IInv, TypeOK, EnsureConnected, Goto, Return
  <1>5. pending'[t] = pending[t] /\ reqGen'[t] = reqGen[t] /\ gen <= gen'
    BY <1>1 DEF EnsureConnected, requestVars, WorkersInOrder, Later
  <1>6. TaskInv(t)'
    BY <1>3, <1>4, <1>5 DEF IInv, TypeOK, TaskInv, Waiting
  <1>7. \A u \in Tasks : u # t => Untouched(u)
    BY DEF IInv, TypeOK, EnsureConnected, requestVars, Goto, Return, Untouched
  <1> QED BY <1>1, <1>3, <1>6, <1>7, OthersKept

\* The request of a task after its write: in the table of the newest worker, which
\* is alive and read, or failed.
Written(t) ==
  /\ pending' \in [Tasks -> 0..MaxGen]
  /\ reqGen' \in [Tasks -> 0..MaxGen]
  /\ res' \in [Tasks -> Results]
  /\ \A u \in Tasks : u # t =>
       pending'[u] = pending[u] /\ reqGen'[u] = reqGen[u] /\ res'[u] = res[u]
  /\ reqGen'[t] = gen'
  /\ \/ /\ pending'[t] = gen' /\ res'[t] = "none" /\ proc'[gen'] = "alive"
        /\ reader'[gen'] = "reading" \/ broken'[gen']
     \/ pending'[t] = None /\ res'[t] = "error"

\* A request is written to a live worker and entered in the table, or it has
\* failed and is not.
LEMMA WriteEffect ==
  ASSUME IInv, NEW t \in Tasks, WorkersInOrder, child' \in Gens, child' = gen',
         pending[t] = None, Write(t)
  PROVE  Written(t)
  <1> USE DuckDbWorkerAssumption DEF Gens, None
  <1>1. reqGen' \in [Tasks -> 0..MaxGen] /\ reqGen'[t] = gen'
    BY DEF IInv, TypeOK, Write
  <1>2. CASE proc'[child'] = "alive"
    <2>1. pending' = [pending EXCEPT ![t] = child'] /\ res' = [res EXCEPT ![t] = "none"]
      BY <1>2 DEF Write
    <2>2. reader'[gen'] = "reading" \/ broken'[gen']
      BY <1>2 DEF WorkersInOrder, WorkerInv
    <2> QED BY <1>1, <1>2, <2>1, <2>2 DEF IInv, TypeOK, Write, Written, Results
  <1>3. CASE proc'[child'] # "alive"
    BY <1>1, <1>3 DEF IInv, TypeOK, Write, Written, Results
  <1> QED BY <1>2, <1>3

\* Connect is in the table of the worker it was written to, or has failed.
LEMMA SendConnectPreserves ==
  ASSUME IInv, NEW t \in Tasks, SendConnect(t)
  PROVE  IInv'
  <1> USE DuckDbWorkerAssumption DEF None
  <1>1. pc[t] = "sendConnect" /\ pending[t] = None
    BY DEF IInv, TaskInv, Waiting, SendConnect
  <1>2. CASE Started /\ Write(t) /\ Goto(t, IF res'[t] = "none" THEN "awaitConnect" ELSE "killConnect")
    <2>1. WorkersInOrder /\ child' \in Gens /\ child' = gen'
      BY <1>2, StartedEffect
    <2>2. Written(t)
      BY <1>1, <1>2, <2>1, WriteEffect
    <2>3. pc' \in [Tasks -> Pcs] /\ pc'[t] \in {"awaitConnect", "killConnect"}
      BY <1>2 DEF IInv, TypeOK, Goto, Pcs, Connecting, Waiting
    <2>4. pc'[t] = "awaitConnect" <=> res'[t] = "none"
      BY <1>2 DEF IInv, TypeOK, Goto
    <2>5. TypeOK'
      BY <2>1, <2>2, <2>3 DEF Written, IInv, TypeOK, StateTypes, WorkersInOrder, SendConnect, lockVars
    <2>6. TaskInv(t)'
      BY <2>1, <2>2, <2>3, <2>4, <2>5, SMTT(30) DEF Written, TypeOK, TaskInv, Waiting, Gens
    <2>7. \A u \in Tasks : u # t => Untouched(u)
      BY <1>2, <2>2 DEF Written, IInv, TypeOK, SendConnect, Goto, Untouched
    <2> QED BY <2>1, <2>5, <2>6, <2>7, OthersKept
  <1>3. CASE /\ StartFails /\ res' = [res EXCEPT ![t] = "error"]
             /\ Goto(t, "killConnect") /\ UNCHANGED <<pending, reqGen>>
    <2>1. WorkersInOrder
      BY <1>3, StartFailsEffect
    <2>2. pc' \in [Tasks -> Pcs] /\ res' \in [Tasks -> Results] /\ pc'[t] = "killConnect"
      BY <1>3 DEF IInv, TypeOK, Goto, Pcs, Connecting, Results
    <2>3. TypeOK'
      BY <1>3, <2>1, <2>2 DEF IInv, TypeOK, StateTypes, WorkersInOrder, SendConnect, lockVars
    <2>4. TaskInv(t)'
      BY <1>1, <1>3, <2>1, <2>2, <2>3 DEF IInv, TypeOK, TaskInv, Waiting, WorkersInOrder, Later
    <2>5. \A u \in Tasks : u # t => Untouched(u)
      BY <1>3 DEF IInv, TypeOK, SendConnect, Goto, Untouched
    <2> QED BY <2>1, <2>3, <2>4, <2>5, OthersKept
  <1> QED BY <1>2, <1>3 DEF SendConnect

\* A request is in the table of the worker it was written to, or has failed.
LEMMA SendPreserves ==
  ASSUME IInv, NEW t \in Tasks, Send(t)
  PROVE  IInv'
  <1> USE DuckDbWorkerAssumption DEF None
  <1>1. pc[t] = "send" /\ pending[t] = None
    BY DEF IInv, TaskInv, Waiting, Send
  <1>2. pc' \in [Tasks -> Pcs] /\ pc'[t] = "await"
    BY DEF IInv, TypeOK, Send, Goto, Pcs, Waiting
  <1>3. CASE Started /\ Write(t)
    <2>1. WorkersInOrder /\ child' \in Gens /\ child' = gen'
      BY <1>3, StartedEffect
    <2>2. Written(t)
      BY <1>1, <1>3, <2>1, WriteEffect
    <2>3. TypeOK'
      BY <1>2, <2>1, <2>2 DEF Written, IInv, TypeOK, StateTypes, WorkersInOrder, Send, lockVars
    <2>4. TaskInv(t)'
      BY <1>2, <2>1, <2>2, <2>3 DEF Written, TypeOK, TaskInv, Waiting, Gens
    <2>5. \A u \in Tasks : u # t => Untouched(u)
      BY <2>2 DEF Written, IInv, TypeOK, Send, Goto, Untouched
    <2> QED BY <2>1, <2>3, <2>4, <2>5, OthersKept
  <1>4. CASE /\ Started \/ StartFails
             /\ res' = [res EXCEPT ![t] = "error"] /\ UNCHANGED <<pending, reqGen>>
    <2>1. WorkersInOrder
      BY <1>4, StartedEffect, StartFailsEffect
    <2>2. res' \in [Tasks -> Results] /\ res'[t] = "error"
      BY <1>4 DEF IInv, TypeOK, Results
    <2>3. TypeOK'
      BY <1>2, <1>4, <2>1, <2>2 DEF IInv, TypeOK, StateTypes, WorkersInOrder, Send, lockVars
    <2>4. TaskInv(t)'
      BY <1>1, <1>2, <1>4, <2>1, <2>2, <2>3 DEF IInv, TypeOK, TaskInv, Waiting, WorkersInOrder, Later
    <2>5. \A u \in Tasks : u # t => Untouched(u)
      BY <1>4 DEF IInv, TypeOK, Send, Goto, Untouched
    <2> QED BY <2>1, <2>3, <2>4, <2>5, OthersKept
  <1> QED BY <1>3, <1>4 DEF Send

\* A kill takes the child, so that nothing of its generation is alive.
LEMMA KillPreserves ==
  ASSUME IInv, NEW t \in Tasks, Kill(t)
  PROVE  IInv'
  <1> USE DuckDbWorkerAssumption DEF None, Gens
  <1>1. \A g \in Gens : proc'[g] # "alive"
    BY DEF IInv, TypeOK, WorkerInv, Kill
  <1>2. \A g \in Gens : proc'[g] = proc[g] \/ (proc[g] = "alive" /\ proc'[g] = "dying")
    BY DEF Kill
  <1>3. StateTypes'
    <2>1. child' \in 0..MaxGen /\ setFor' \in 0..MaxGen /\ setBy' \in 0..MaxGen
      BY SMT DEF Kill, Disconnect
    <2>2. connected' \in BOOLEAN
      BY Zenon DEF Kill, Disconnect
    <2>3. proc' \in [Gens -> {"none", "alive", "dying", "dead"}]
      BY DEF IInv, TypeOK, Kill
    <2> QED BY <2>1, <2>2, <2>3 DEF IInv, TypeOK, StateTypes, Kill
  <1>4. WorkersInOrder
    <2>1. WorkerInv'
      BY <1>1, <1>2 DEF IInv, TypeOK, WorkerInv, Kill
    <2>2. FlagInv'
      BY DEF Kill, Disconnect, FlagInv
    <2>3. Later /\ ReadersStay
      BY <1>1, <1>2 DEF IInv, TypeOK, Later, ReadersStay, Kill
    <2> QED BY <1>3, <2>1, <2>2, <2>3 DEF WorkersInOrder
  <1>5. pc' \in [Tasks -> Pcs] /\ pc'[t] \in {"fail", "failConnect"}
    BY DEF IInv, TypeOK, Kill, Goto, Pcs, Connecting
  <1>6. killGen' \in [Tasks -> 0..MaxGen] /\ killGen'[t] = gen /\ gen' = gen
    BY DEF IInv, TypeOK, Kill
  <1>7. TypeOK'
    BY <1>3, <1>5, <1>6 DEF IInv, TypeOK, StateTypes, Kill, requestVars, lockVars
  <1>8. TaskInv(t)'
    <2>1. pending[t] = None /\ reqGen[t] <= gen
      BY DEF IInv, TaskInv, Waiting, Kill
    <2>2. pending'[t] = None /\ reqGen'[t] <= gen'
      BY <1>6, <2>1 DEF Kill, requestVars
    <2>3. killGen'[t] # None => killGen'[t] <= gen' /\ proc'[killGen'[t]] # "alive"
      BY <1>1, <1>6, <1>7 DEF TypeOK
    <2> QED BY <1>5, <2>2, <2>3 DEF TaskInv, Waiting
  <1>9. \A u \in Tasks : u # t => Untouched(u)
    BY DEF IInv, TypeOK, Kill, Goto, requestVars, Untouched
  <1> QED BY <1>4, <1>7, <1>8, <1>9, OthersKept

\* The requests fail_pending fails were written to a worker that is going down.
LEMMA KilledPreserves ==
  ASSUME IInv, NEW t \in Tasks, Killed(t)
  PROVE  IInv'
  <1> USE DuckDbWorkerAssumption DEF None, Gens
  <1>1. WorkersInOrder
    BY WorkersAlone DEF Killed
  <1>2. pc[t] \in {"fail", "failConnect"} /\ pending[t] = None
    BY DEF IInv, TaskInv, Waiting, Killed
  <1>3. /\ pc' \in [Tasks -> Pcs] /\ op' \in [Tasks -> Ops \cup {Nil}]
        /\ connectLock' \in Tasks \cup {Nil} /\ queryLock' \in Tasks \cup {Nil}
        /\ attempts' \in [Tasks -> 0..MaxRetries]
        /\ pc'[t] \in {"sendConnect", "idle"}
        /\ \A u \in Tasks : u # t => pc'[u] = pc[u]
    <2>1. CASE /\ attempts[t] < MaxRetries /\ attempts' = [attempts EXCEPT ![t] = @ + 1]
               /\ Goto(t, "sendConnect") /\ UNCHANGED <<op, lockVars>>
      <3>1. attempts' \in [Tasks -> 0..MaxRetries]
        BY <2>1 DEF IInv, TypeOK
      <3> QED BY <2>1, <3>1 DEF IInv, TypeOK, Goto, lockVars, Pcs, Connecting
    <2>2. CASE attempts' = [attempts EXCEPT ![t] = 0] /\ Return(t)
      BY <2>2 DEF IInv, TypeOK, Return, Goto, Unlock, Pcs
    <2> QED BY <2>1, <2>2 DEF Killed
  <1>4. /\ res' \in [Tasks -> Results] /\ pending' \in [Tasks -> 0..MaxGen]
        /\ reqGen' \in [Tasks -> 0..MaxGen] /\ killGen' \in [Tasks -> 0..MaxGen]
    BY DEF IInv, TypeOK, Killed, Results
  <1>5. TypeOK'
    BY <1>1, <1>3, <1>4 DEF IInv, TypeOK, StateTypes, WorkersInOrder
  <1>6. TaskInv(t)'
    <2>1. pending'[t] = None /\ reqGen'[t] = None /\ gen' \in Nat
      BY <1>2, <1>5 DEF IInv, TypeOK, Killed
    <2> QED BY <1>3, <2>1 DEF TaskInv, Waiting
  <1>7. ASSUME NEW u \in Tasks, u # t PROVE TaskInv(u)'
    <2>1. reqGen'[u] = reqGen[u] /\ killGen'[u] = killGen[u] /\ pc'[u] = pc[u]
      BY <1>3, <1>7 DEF IInv, TypeOK, Killed
    <2>2. CASE u \in PendingOf(killGen[t])
      <3>1. pending'[u] = None /\ res'[u] = "killed" /\ pending[u] = killGen[t] /\ pending[u] # None
        BY <2>2 DEF Killed, PendingOf
      <3>2. /\ pc[u] \in Waiting /\ reqGen[u] = killGen[t]
            /\ proc[reqGen[u]] # "none" /\ proc[reqGen[u]] # "alive"
        BY <1>2, <1>7, <3>1 DEF IInv, TaskInv
      <3>3. reqGen[u] \in Gens /\ proc[reqGen[u]] \in {"dying", "dead"}
        BY <3>1, <3>2 DEF IInv, TypeOK
      <3> QED BY <1>7, <2>1, <3>1, <3>2, <3>3 DEF IInv, TypeOK, TaskInv, Waiting, Killed,
           stateVars, workerVars
    <2>3. CASE u \notin PendingOf(killGen[t])
      <3>1. Untouched(u)
        BY <1>7, <2>1, <2>3 DEF Killed, Untouched
      <3> QED BY <1>1, <1>5, <1>7, <3>1, TaskKept DEF IInv, WorkersInOrder
    <2> QED BY <2>2, <2>3
  <1> QED BY <1>1, <1>5, <1>6, <1>7 DEF IInv, WorkersInOrder

-----------------------------------------------------------------------------
(* The steps of the workers and their readers.                             *)

\* An answer comes from the worker the request was written to.
LEMMA AnswerPreserves ==
  ASSUME IInv, NEW t \in Tasks, NEW r \in Results, Answer(t, r)
  PROVE  IInv'
  <1> USE DuckDbWorkerAssumption DEF None, Gens
  <1> DEFINE g == pending[t]
  <1>1. /\ g \in Gens /\ reqGen[t] = g /\ proc[g] # "none" /\ reqGen[t] <= gen
        /\ pc[t] \in Waiting /\ r \in Answers(t) /\ reader[g] = "reading"
    BY DEF IInv, TypeOK, TaskInv, Answer
  <1>2. r # "killed" /\ r # "exited" /\ r # "none"
    BY <1>1 DEF Answers
  <1>3. /\ proc' \in [Gens -> {"none", "alive", "dying", "dead"}]
        /\ \A h \in Gens : proc'[h] = proc[h] \/ (proc[h] = "alive" /\ proc'[h] = "dying")
    BY <1>1 DEF IInv, TypeOK, Answer
  <1>4. /\ session' \in [Gens -> BOOLEAN]
        /\ \A h \in Gens : session[h] => session'[h]
        /\ pc[t] = "awaitConnect" /\ r = "ok" /\ proc[g] # "dead" => session'[g]
    BY <1>1 DEF IInv, TypeOK, Answer
  <1>5. WorkersInOrder
    <2>1. StateTypes'
      BY <1>3, <1>4 DEF IInv, TypeOK, StateTypes, Answer, stateVars
    <2>2. WorkerInv'
      BY <1>3 DEF IInv, TypeOK, WorkerInv, Answer, stateVars
    <2>3. FlagInv'
      BY <1>3, <1>4 DEF IInv, TypeOK, FlagInv, Opened, Answer, stateVars
    <2>4. Later /\ ReadersStay
      <3>1. gen' = gen /\ broken' = broken /\ reader' = reader /\ gen \in Nat
        BY DEF IInv, TypeOK, Answer, stateVars
      <3>2. ASSUME NEW h \in Gens
            PROVE  /\ proc[h] = "none" <=> proc'[h] = "none"
                   /\ proc[h] # "alive" => proc'[h] # "alive"
                   /\ proc[h] = "dead" => proc'[h] = "dead"
                   /\ session[h] => session'[h]
        BY <1>3, <1>4
      <3> QED BY <3>1, <3>2 DEF Later, ReadersStay
    <2> QED BY <2>1, <2>2, <2>3, <2>4 DEF WorkersInOrder
  <1>6. TypeOK'
    <2>1. res' \in [Tasks -> Results] /\ pending' \in [Tasks -> 0..MaxGen]
      BY DEF IInv, TypeOK, Answer
    <2> QED BY <1>5, <2>1 DEF IInv, TypeOK, StateTypes, WorkersInOrder, Answer, taskVars, lockVars
  <1>7. TaskInv(t)'
    <2>1. pending'[t] = None /\ res'[t] = r /\ reqGen'[t] = g /\ pc'[t] = pc[t] /\ gen' = gen
      BY <1>1 DEF IInv, TypeOK, Answer, taskVars, stateVars
    <2>2. pc[t] = "awaitConnect" /\ r = "ok" => (proc'[g] \in {"alive", "dying"} => session'[g])
      BY <1>1, <1>3, <1>4 DEF Opened, IInv, TypeOK, Answer
    <2> QED BY <1>1, <1>2, <2>1, <2>2 DEF TaskInv, Waiting, Opened
  <1>8. \A u \in Tasks : u # t => Untouched(u)
    BY DEF IInv, TypeOK, Answer, taskVars, Untouched
  <1> QED BY <1>5, <1>6, <1>7, <1>8, OthersKept

\* A step of a worker that leaves it in order keeps what the tasks count on.
LEMMA TasksKept ==
  ASSUME IInv, WorkersInOrder, UNCHANGED <<requestVars, taskVars, lockVars>>
  PROVE  IInv'
  <1>1. TypeOK'
    BY DEF IInv, TypeOK, StateTypes, WorkersInOrder, requestVars, taskVars, lockVars
  <1>2. ASSUME NEW u \in Tasks PROVE TaskInv(u)'
    <2>1. Untouched(u)
      BY DEF Untouched, requestVars, taskVars
    <2> QED BY <1>1, <1>2, <2>1, TaskKept DEF IInv, WorkersInOrder
  <1> QED BY <1>1, <1>2 DEF IInv, WorkersInOrder

\* A crash is the end of the worker, not of its reader.
LEMMA CrashPreserves ==
  ASSUME IInv, NEW g \in Gens, Crash(g)
  PROVE  IInv'
  <1> USE DuckDbWorkerAssumption DEF None, Crash, stateVars
  <1>1. StateTypes'
    BY DEF IInv, TypeOK, StateTypes
  <1>2. WorkerInv' /\ FlagInv'
    BY DEF IInv, TypeOK, WorkerInv, FlagInv, Opened, Gens
  <1>3. Later /\ ReadersStay
    BY DEF IInv, TypeOK, Later, ReadersStay
  <1> QED BY <1>1, <1>2, <1>3, TasksKept DEF WorkersInOrder

\* A process that has exited has no session, and needs none.
LEMMA ExitPreserves ==
  ASSUME IInv, NEW g \in Gens, Exit(g)
  PROVE  IInv'
  <1> USE DuckDbWorkerAssumption DEF None, Exit, stateVars
  <1>1. StateTypes'
    BY DEF IInv, TypeOK, StateTypes
  <1>2. WorkerInv' /\ FlagInv'
    BY DEF IInv, TypeOK, WorkerInv, FlagInv, Opened, Gens
  <1>3. Later /\ ReadersStay
    BY DEF IInv, TypeOK, Later, ReadersStay
  <1> QED BY <1>1, <1>2, <1>3, TasksKept DEF WorkersInOrder

\* The end of a reader, for whichever reason, leaves no request of its worker in
\* the table.
LEMMA ReaderLeaves ==
  ASSUME IInv, NEW g \in Gens, StateTypes', WorkerInv', FlagInv', Later, FailExited(g),
         gen' = gen,
         \A h \in Gens : h # g /\ reader[h] = "reading" => reader'[h] = "reading",
         proc'[g] \in {"dying", "dead"} \/ broken'[g],
         UNCHANGED <<reqGen, taskVars, lockVars>>
  PROVE  IInv'
  <1> USE DuckDbWorkerAssumption DEF None, Gens
  <1>1. TypeOK'
    <2>1. res' \in [Tasks -> Results] /\ pending' \in [Tasks -> 0..MaxGen]
      BY DEF IInv, TypeOK, FailExited, Results
    <2> QED BY <2>1 DEF IInv, TypeOK, StateTypes, taskVars, lockVars
  <1>2. ASSUME NEW u \in Tasks PROVE TaskInv(u)'
    <2>1. /\ GenTypes(u) /\ gen \in Nat
          /\ reqGen'[u] = reqGen[u] /\ pc'[u] = pc[u] /\ killGen'[u] = killGen[u]
      BY DEF IInv, TypeOK, GenTypes, taskVars
    <2>2. pc[u] \in {"fail", "failConnect"} /\ killGen[u] # None =>
            killGen[u] <= gen' /\ proc'[killGen[u]] # "alive"
      BY <1>2, <2>1 DEF IInv, TaskInv, GenTypes, Later
    <2>3. CASE u \in PendingOf(g)
      <3>1. pending'[u] = None /\ res'[u] = "exited" /\ pending[u] = g
        BY <2>3 DEF FailExited, PendingOf
      <3>2. pc[u] \in Waiting /\ reqGen[u] = g /\ reqGen[u] <= gen
        BY <1>2, <3>1 DEF IInv, TaskInv
      <3> QED BY <2>1, <2>2, <3>1, <3>2 DEF TaskInv, Waiting
    <2>4. CASE u \notin PendingOf(g)
      <3>1. pending'[u] = pending[u] /\ res'[u] = res[u] /\ (pending[u] # None => pending[u] # g)
        BY <2>4 DEF FailExited, PendingOf
      <3>2. pending[u] # None => /\ proc'[pending[u]] # "none"
                                 /\ reader'[pending[u]] = "reading" \/ broken'[pending[u]]
        BY <1>2, <2>1, <3>1 DEF IInv, TaskInv, GenTypes, Later
      <3>3. pc[u] \in Waiting /\ res[u] \in {"killed", "exited"} =>
              reqGen[u] # None /\ (proc'[reqGen[u]] \in {"dying", "dead"} \/ broken'[reqGen[u]])
        <4> SUFFICES ASSUME pc[u] \in Waiting, res[u] \in {"killed", "exited"}
                     PROVE  /\ reqGen[u] # None
                            /\ proc'[reqGen[u]] \in {"dying", "dead"} \/ broken'[reqGen[u]]
          OBVIOUS
        <4>1. /\ reqGen[u] \in Gens /\ reqGen[u] <= gen
              /\ proc[reqGen[u]] \in {"dying", "dead"} \/ broken[reqGen[u]]
          BY <1>2, <2>1 DEF IInv, TaskInv, GenTypes
        <4>2. proc'[reqGen[u]] \in {"none", "alive", "dying", "dead"}
          BY <4>1 DEF StateTypes
        <4> QED BY <4>1, <4>2 DEF Later
      <3>4. pc[u] = "mark" \/ (pc[u] = "awaitConnect" /\ res[u] = "ok") => Opened(reqGen[u])'
        <4> SUFFICES ASSUME Opened(reqGen[u]) PROVE Opened(reqGen[u])'
          BY <1>2 DEF IInv, TaskInv
        <4>1. reqGen[u] \in Gens /\ reqGen[u] <= gen
          BY <1>2, <2>1 DEF IInv, TaskInv, GenTypes, Opened
        <4>2. proc[reqGen[u]] \in {"none", "alive", "dying", "dead"}
          BY <4>1 DEF IInv, TypeOK
        <4> QED BY <2>1, <4>1, <4>2 DEF Later, Opened
      <3>5. reqGen[u] <= gen'
        BY <1>2 DEF IInv, TaskInv
      <3> QED BY <1>2, <2>1, <2>2, <3>1, <3>2, <3>3, <3>4, <3>5 DEF IInv, TaskInv
    <2> QED BY <2>3, <2>4
  <1> QED BY <1>1, <1>2 DEF IInv

\* At the end of the output the worker is going down.
LEMMA ReaderEndsPreserves ==
  ASSUME IInv, NEW g \in Gens, ReaderEnds(g)
  PROVE  IInv'
  <1>1. StateTypes'
    BY DEF IInv, TypeOK, StateTypes, ReaderEnds, stateVars
  <1>2. WorkerInv' /\ FlagInv'
    BY DEF IInv, TypeOK, WorkerInv, FlagInv, Opened, ReaderEnds, stateVars
  <1>3. Later /\ gen' = gen
    BY DEF IInv, TypeOK, Later, ReaderEnds, stateVars
  <1>4. \A h \in Gens : h # g /\ reader[h] = "reading" => reader'[h] = "reading"
    BY DEF IInv, TypeOK, ReaderEnds
  <1> QED BY <1>1, <1>2, <1>3, <1>4, ReaderLeaves DEF ReaderEnds

\* A reader that breaks is remembered as broken.
LEMMA ReaderBreaksPreserves ==
  ASSUME IInv, NEW g \in Gens, ReaderBreaks(g)
  PROVE  IInv'
  <1>1. StateTypes'
    BY DEF IInv, TypeOK, StateTypes, ReaderBreaks, stateVars
  <1>2. WorkerInv' /\ FlagInv'
    BY DEF IInv, TypeOK, WorkerInv, FlagInv, Opened, ReaderBreaks, stateVars
  <1>3. Later /\ gen' = gen
    BY DEF IInv, TypeOK, Later, ReaderBreaks, stateVars
  <1>4. \A h \in Gens : h # g /\ reader[h] = "reading" => reader'[h] = "reading"
    BY DEF IInv, TypeOK, ReaderBreaks
  <1>5. broken'[g]
    BY DEF IInv, TypeOK, ReaderBreaks
  <1> QED BY <1>1, <1>2, <1>3, <1>4, <1>5, ReaderLeaves DEF ReaderBreaks

-----------------------------------------------------------------------------
\* Every step preserves the invariant.
LEMMA NextIInv == IInv /\ [Next]_vars => IInv'
  <1> SUFFICES ASSUME IInv, [Next]_vars PROVE IInv'
    OBVIOUS
  <1>1. CASE \E t \in Tasks, o \in Ops : Call(t, o)
    BY <1>1, CallPreserves
  <1>2. CASE \E t \in Tasks : TaskStep(t)
    BY <1>2, EnsureConnectedPreserves, SendConnectPreserves, ConnectAnsweredPreserves,
       MarkPreserves, SendPreserves, AnsweredPreserves, KillPreserves, KilledPreserves
       DEF TaskStep
  <1>3. CASE \E t \in Tasks : ConnectTimesOut(t) \/ Abandon(t) \/ WorkerAnswers(t)
    BY <1>3, ConnectTimesOutPreserves, AbandonPreserves, AnswerPreserves DEF WorkerAnswers
  <1>4. CASE \E g \in Gens : Crash(g) \/ Exit(g) \/ ReaderEnds(g) \/ ReaderBreaks(g)
    BY <1>4, CrashPreserves, ExitPreserves, ReaderEndsPreserves, ReaderBreaksPreserves
  <1>5. CASE UNCHANGED vars
    BY <1>5, WorkersAlone, TasksKept DEF vars
  <1> QED BY <1>1, <1>2, <1>3, <1>4, <1>5 DEF Next

(***************************************************************************)
(* The client's state, the workers and the tasks keep their types.         *)
(***************************************************************************)
THEOREM TypeCorrect == Spec => []TypeOK
  <1>1. IInv => TypeOK
    BY DEF IInv
  <1> QED BY <1>1, InitIInv, NextIInv, PTL DEF Spec

(***************************************************************************)
(* No crash, kill or restart leaves a request without someone who will     *)
(* answer it.                                                              *)
(***************************************************************************)
THEOREM AnswersCanCome == Spec => []AnswerCanCome
  <1>1. IInv => AnswerCanCome
    BY DEF IInv, TaskInv, AnswerCanCome
  <1> QED BY <1>1, InitIInv, NextIInv, PTL DEF Spec

(***************************************************************************)
(* A late kill or a late reader fails the requests of its own worker only. *)
(***************************************************************************)
THEOREM FailuresMeanGone == Spec => []FailedMeansGone
  <1>1. IInv => FailedMeansGone
    BY DEF IInv, TaskInv, FailedMeansGone
  <1> QED BY <1>1, InitIInv, NextIInv, PTL DEF Spec

(***************************************************************************)
(* The connected flag speaks of the current worker, and is right about it  *)
(* unless another worker answered the Connect.                             *)
(***************************************************************************)
THEOREM FlagsAreCurrent == Spec => []FlagIsCurrent
  <1>1. IInv => FlagIsCurrent
    BY DEF IInv, FlagInv, Opened, FlagIsCurrent, Running
  <1> QED BY <1>1, InitIInv, NextIInv, PTL DEF Spec
=============================================================================
