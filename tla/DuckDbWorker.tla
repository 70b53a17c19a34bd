---------------------------- MODULE DuckDbWorker ----------------------------
(***************************************************************************)
(* The client of the DuckDB worker process                                 *)
(* (crates/dbx-core/src/db/duckdb_worker_process.rs).                      *)
(*                                                                         *)
(* DuckDbWorkerClient starts a worker on demand, numbers the workers by a  *)
(* generation, sends it requests over stdin and matches the answers that   *)
(* the reader of its stdout finds to the table of pending requests.  The   *)
(* worker is killed when a query is cancelled or times out, when a         *)
(* metadata request times out, when Connect fails and when the worker says *)
(* that it is poisoned; the next call starts another one.                  *)
(*                                                                         *)
(* A task runs one operation at a time:                                    *)
(*   execute, metadata  ensure -> [sendConnect -> awaitConnect -> mark ->] *)
(*                      send -> await -> [kill -> fail ->] idle            *)
(*   shutdown           send -> await -> kill -> fail -> idle              *)
(*   cancel             kill -> fail -> idle                               *)
(* A failed Connect goes killConnect -> failConnect and then back to       *)
(* sendConnect (the file is locked) or to idle.  One action is one section *)
(* under the state mutex or one under the mutex of the pending table.      *)
(***************************************************************************)
EXTENDS Naturals, FiniteSets

CONSTANTS
  Tasks,       \* tasks that use one client
  MaxGen,      \* bound on WorkerProcessState.generation
  MaxRetries,  \* retries of Connect on a locked file (5 in the code)
  Limit,       \* process_limit: permits of the limiter this client can get
  Nil          \* nobody

ASSUME DuckDbWorkerAssumption ==
  /\ MaxGen \in Nat \ {0}
  /\ MaxRetries \in Nat
  /\ Limit \in Nat \ {0}
  /\ Nil \notin Tasks

Gens == 1..MaxGen
None == 0    \* no child, no entry in the pending table

VARIABLES
  gen,         \* state.generation
  child,       \* state.child: the generation of the process, or None
  connected,   \* state.connected
  setFor,      \* generation that was current when connected was last set, and
  setBy,       \*   the one whose answer to Connect led to it (not in the code)
  proc,        \* the worker processes ("dying": its pipes are closed, it is not reaped)
  session,     \* has the worker opened the database (handled Connect)?
  reader,      \* the task that reads the worker's stdout; it holds the permit
  broken,      \* did the reader stop on a read error?
  pending,     \* generation of the task's entry in the pending table, or None
  reqGen,      \* generation the task's last request was written to
  res,         \* what the task's oneshot channel delivered
  op,          \* the operation of a task
  pc,          \* control of a task
  attempts,    \* local of ensure_connected
  killGen,     \* local of kill
  connectLock, \* holder of connect_lock
  queryLock    \* holder of query_lock

stateVars   == <<gen, child, connected, setFor, setBy>>
workerVars  == <<proc, session, reader, broken>>
requestVars == <<pending, reqGen, res>>
taskVars    == <<op, pc, attempts, killGen>>
lockVars    == <<connectLock, queryLock>>
vars == <<stateVars, workerVars, requestVars, taskVars, lockVars>>

Ops == {"execute", "metadata", "shutdown", "cancel"}
Waiting == {"awaitConnect", "await"}
Connecting == {"sendConnect", "awaitConnect", "killConnect", "failConnect", "mark"}
Pcs == {"idle", "ensure", "send", "kill", "fail"} \cup Waiting \cup Connecting
Results == {"none", "ok", "error", "locked", "poisoned", "killed", "exited"}

(***************************************************************************)
(* Type correctness of the client's state, of the workers and the tasks.   *)
(***************************************************************************)
TypeOK ==
  /\ gen \in 0..MaxGen
  /\ child \in 0..MaxGen
  /\ connected \in BOOLEAN
  /\ setFor \in 0..MaxGen
  /\ setBy \in 0..MaxGen
  /\ proc \in [Gens -> {"none", "alive", "dying", "dead"}]
  /\ session \in [Gens -> BOOLEAN]
  /\ reader \in [Gens -> {"none", "reading", "ended"}]
  /\ broken \in [Gens -> BOOLEAN]
  /\ pending \in [Tasks -> 0..MaxGen]
  /\ reqGen \in [Tasks -> 0..MaxGen]
  /\ res \in [Tasks -> Results]
  /\ op \in [Tasks -> Ops \cup {Nil}]
  /\ pc \in [Tasks -> Pcs]
  /\ attempts \in [Tasks -> 0..MaxRetries]
  /\ killGen \in [Tasks -> 0..MaxGen]
  /\ connectLock \in Tasks \cup {Nil}
  /\ queryLock \in Tasks \cup {Nil}

Init ==
  /\ gen = 0
  /\ child = None
  /\ connected = FALSE
  /\ setFor = None
  /\ setBy = None
  /\ proc = [g \in Gens |-> "none"]
  /\ session = [g \in Gens |-> FALSE]
  /\ reader = [g \in Gens |-> "none"]
  /\ broken = [g \in Gens |-> FALSE]
  /\ pending = [t \in Tasks |-> None]
  /\ reqGen = [t \in Tasks |-> None]
  /\ res = [t \in Tasks |-> "none"]
  /\ op = [t \in Tasks |-> Nil]
  /\ pc = [t \in Tasks |-> "idle"]
  /\ attempts = [t \in Tasks |-> 0]
  /\ killGen = [t \in Tasks |-> None]
  /\ connectLock = Nil
  /\ queryLock = Nil

-----------------------------------------------------------------------------
Goto(t, p) == pc' = [pc EXCEPT ![t] = p]

\* A mistaken lock that stays taken when its holder goes away.
KeepLock(l, t) == l

\* The guard of a lock is dropped with the future that holds it.
Unlock(l, t) == IF l = t THEN Nil ELSE l

\* A task returns to its caller: its guards are dropped.
Return(t) ==
  /\ Goto(t, "idle")
  /\ op' = [op EXCEPT ![t] = Nil]
  /\ connectLock' = Unlock(connectLock, t)
  /\ queryLock' = Unlock(queryLock, t)

\* The locals of the last request go with the call that made it.
Forget(t) ==
  /\ reqGen' = [reqGen EXCEPT ![t] = None]
  /\ res' = [res EXCEPT ![t] = "none"]

\* try_wait finds no exit status: the process runs, or it is going down.
Running == child # None /\ proc[child] \in {"alive", "dying"}

\* Permits of process_limiter that no reader holds.
Permits == Limit - Cardinality({g \in Gens : reader[g] = "reading"})

\* A mistaken reset that forgets the flag.
KeepConnected == UNCHANGED <<connected, setFor, setBy>>

\* state.connected = false
Disconnect == connected' = FALSE /\ setFor' = None /\ setBy' = None

\* ensure_started_locked, where the worker is there or is started.  The permit is
\* awaited under the state mutex, for worker_start_timeout at most.
Started ==
  \/ /\ Running
     /\ UNCHANGED <<stateVars, workerVars>>
  \/ /\ ~Running
     /\ gen < MaxGen
     /\ Permits > 0
     /\ gen' = gen + 1
     /\ child' = gen + 1
     /\ Disconnect
     /\ proc' = [proc EXCEPT ![gen + 1] = "alive"]
     /\ reader' = [reader EXCEPT ![gen + 1] = "reading"]
     /\ UNCHANGED <<session, broken>>

\* ensure_started_locked, where the limit is reached, the executable does not
\* start, or the bound on the generations is reached.
StartFails ==
  /\ ~Running
  /\ gen' = IF gen < MaxGen THEN gen + 1 ELSE gen
  /\ child' = None
  /\ Disconnect
  /\ UNCHANGED workerVars

\* send_request_structured under the state mutex, after ensure_started_locked:
\* enter the request in the table and write it.  The write fails when the
\* process has closed its stdin, and the entry is removed again.
Write(t) ==
  /\ reqGen' = [reqGen EXCEPT ![t] = child']
  /\ IF proc'[child'] = "alive"
       THEN /\ pending' = [pending EXCEPT ![t] = child']
            /\ res' = [res EXCEPT ![t] = "none"]
       ELSE /\ res' = [res EXCEPT ![t] = "error"]
            /\ UNCHANGED pending

-----------------------------------------------------------------------------
(* The operations of a task.                                               *)

\* execute (after query_lock), metadata_request, shutdown, cancel and kill.
Call(t, o) ==
  /\ pc[t] = "idle"
  /\ o = "execute" => queryLock = Nil
  /\ queryLock' = IF o = "execute" THEN t ELSE queryLock
  /\ op' = [op EXCEPT ![t] = o]
  /\ Goto(t, CASE o = "shutdown" -> "send" [] o = "cancel" -> "kill" [] OTHER -> "ensure")
  /\ UNCHANGED <<stateVars, workerVars, requestVars, attempts, killGen, connectLock>>

\* ensure_connected: take connect_lock, see to it that a worker runs, and be done
\* when it is connected.
EnsureConnected(t) ==
  /\ pc[t] = "ensure"
  /\ connectLock = Nil
  /\ \/ /\ Started
        /\ IF connected'
             THEN Goto(t, "send") /\ UNCHANGED connectLock
             ELSE Goto(t, "sendConnect") /\ connectLock' = t
        /\ UNCHANGED <<op, queryLock>>
     \/ StartFails /\ Return(t)
  /\ UNCHANGED <<requestVars, attempts, killGen>>

\* ensure_connected: send Connect.
SendConnect(t) ==
  /\ pc[t] = "sendConnect"
  /\ \/ /\ Started
        /\ Write(t)
        /\ Goto(t, IF res'[t] = "none" THEN "awaitConnect" ELSE "killConnect")
     \/ /\ StartFails
        /\ res' = [res EXCEPT ![t] = "error"]
        /\ Goto(t, "killConnect")
        /\ UNCHANGED <<pending, reqGen>>
  /\ UNCHANGED <<op, attempts, killGen, lockVars>>

\* ensure_connected: the answer to Connect is here.
ConnectAnswered(t) ==
  /\ pc[t] = "awaitConnect"
  /\ res[t] # "none"
  /\ Goto(t, IF res[t] = "ok" THEN "mark" ELSE "killConnect")
  /\ UNCHANGED <<stateVars, workerVars, requestVars, op, attempts, killGen, lockVars>>

\* ensure_connected: Connect is not answered within request_timeout.
ConnectTimesOut(t) ==
  /\ pc[t] = "awaitConnect"
  /\ res[t] = "none"
  /\ pending' = [pending EXCEPT ![t] = None]
  /\ res' = [res EXCEPT ![t] = "error"]
  /\ Goto(t, "killConnect")
  /\ UNCHANGED <<stateVars, workerVars, reqGen, op, attempts, killGen, lockVars>>

\* ensure_connected: lock the state again and set connected.
Mark(t) ==
  /\ pc[t] = "mark"
  /\ connected' = TRUE
  /\ setFor' = child
  /\ setBy' = reqGen[t]
  /\ Forget(t)
  /\ connectLock' = Nil
  /\ attempts' = [attempts EXCEPT ![t] = 0]
  /\ Goto(t, "send")
  /\ UNCHANGED <<gen, child, workerVars, pending, op, killGen, queryLock>>

\* send_request_structured for anything but Connect.  Shutdown goes on to kill
\* whatever the result.
Send(t) ==
  /\ pc[t] = "send"
  /\ \/ /\ Started
        /\ IF connected' THEN Write(t)
                         ELSE res' = [res EXCEPT ![t] = "error"] /\ UNCHANGED <<pending, reqGen>>
     \/ /\ StartFails
        /\ res' = [res EXCEPT ![t] = "error"]
        /\ UNCHANGED <<pending, reqGen>>
  /\ Goto(t, "await")
  /\ UNCHANGED <<op, attempts, killGen, lockVars>>

\* The operation has its result.  A poisoned worker is killed by execute.
Answered(t) ==
  /\ pc[t] = "await"
  /\ res[t] # "none"
  /\ IF op[t] = "shutdown" \/ (op[t] = "execute" /\ res[t] = "poisoned")
       THEN Goto(t, "kill") /\ UNCHANGED <<op, lockVars>>
       ELSE Return(t)
  /\ Forget(t)
  /\ UNCHANGED <<stateVars, workerVars, pending, attempts, killGen>>

\* execute is cancelled or times out, metadata_request or the request of shutdown
\* times out: the future is dropped with the guards and the receiver it holds.
Abandon(t) ==
  /\ \/ op[t] \in {"execute", "metadata"} /\ pc[t] \notin {"kill", "fail"}
     \/ op[t] = "shutdown" /\ pc[t] = "await" /\ res[t] = "none"
  /\ pending' = [pending EXCEPT ![t] = None]
  /\ Forget(t)
  /\ connectLock' = Unlock(connectLock, t)
  /\ attempts' = [attempts EXCEPT ![t] = 0]
  /\ killGen' = [killGen EXCEPT ![t] = None]
  /\ Goto(t, "kill")
  /\ UNCHANGED <<stateVars, workerVars, op, queryLock>>

\* kill: take the child and its generation under the state mutex, start_kill.
Kill(t) ==
  /\ pc[t] \in {"kill", "killConnect"}
  /\ killGen' = [killGen EXCEPT ![t] = gen]
  /\ child' = None
  /\ Disconnect
  /\ proc' = [g \in Gens |-> IF g = child /\ proc[g] = "alive" THEN "dying" ELSE proc[g]]
  /\ Goto(t, IF pc[t] = "kill" THEN "fail" ELSE "failConnect")
  /\ UNCHANGED <<gen, session, reader, broken, requestVars, op, attempts, lockVars>>

\* A mistaken fail_pending that fails the requests of every generation.
FailedAll(g) == {u \in Tasks : pending[u] # None}

\* The requests fail_pending_for_generation picks, and the loop at the end of the
\* reader.
PendingOf(g) == {u \in Tasks : pending[u] # None /\ pending[u] = g}

\* kill, after child.wait (or its timeout): fail the requests of that generation.
\* In ensure_connected a locked file is tried again, holding connect_lock.
Killed(t) ==
  /\ pc[t] \in {"fail", "failConnect"}
  /\ res' = [u \in Tasks |-> IF u \in PendingOf(killGen[t]) THEN "killed"
                             ELSE IF u = t THEN "none" ELSE res[u]]
  /\ pending' = [u \in Tasks |-> IF u \in PendingOf(killGen[t]) THEN None ELSE pending[u]]
  /\ reqGen' = [reqGen EXCEPT ![t] = None]
  /\ killGen' = [killGen EXCEPT ![t] = None]
  /\ IF pc[t] = "failConnect" /\ res[t] = "locked" /\ attempts[t] < MaxRetries
       THEN /\ attempts' = [attempts EXCEPT ![t] = @ + 1]
            /\ Goto(t, "sendConnect")
            /\ UNCHANGED <<op, lockVars>>
       ELSE /\ attempts' = [attempts EXCEPT ![t] = 0]
            /\ Return(t)
  /\ UNCHANGED <<stateVars, workerVars>>

-----------------------------------------------------------------------------
(* The worker processes (external) and the readers of their output.        *)

\* What a worker may answer to the request that is pending for a task.
Answers(t) ==
  IF pc[t] = "awaitConnect" THEN {"ok", "locked", "error"}
  ELSE IF ~session[pending[t]] THEN {"error"}
  ELSE IF op[t] = "execute" THEN {"ok", "error", "poisoned"}
  ELSE {"ok", "error"}

\* A worker answers and its reader hands the answer to the task.  What it wrote
\* before it died is still read.  After Shutdown the worker exits.
Answer(t, r) ==
  LET g == pending[t] IN
    /\ pc[t] \in Waiting
    /\ g # None
    /\ reader[g] = "reading"
    /\ r \in Answers(t)
    /\ res' = [res EXCEPT ![t] = r]
    /\ pending' = [pending EXCEPT ![t] = None]
    /\ session' = [session EXCEPT ![g] = @ \/ (pc[t] = "awaitConnect" /\ r = "ok" /\ proc[g] # "dead")]
    /\ proc' = [proc EXCEPT ![g] = IF op[t] = "shutdown" /\ @ = "alive" THEN "dying" ELSE @]
    /\ UNCHANGED <<stateVars, reader, broken, reqGen, taskVars, lockVars>>

\* The worker crashes.
Crash(g) ==
  /\ proc[g] = "alive"
  /\ proc' = [proc EXCEPT ![g] = "dying"]
  /\ UNCHANGED <<stateVars, session, reader, broken, requestVars, taskVars, lockVars>>

\* The exit status can be seen from now on.
Exit(g) ==
  /\ proc[g] = "dying"
  /\ proc' = [proc EXCEPT ![g] = "dead"]
  /\ session' = [session EXCEPT ![g] = FALSE]
  /\ UNCHANGED <<stateVars, reader, broken, requestVars, taskVars, lockVars>>

\* The end of a reader: what is pending for its worker is told that it exited.
FailExited(g) ==
  /\ res' = [u \in Tasks |-> IF u \in PendingOf(g) THEN "exited" ELSE res[u]]
  /\ pending' = [u \in Tasks |-> IF u \in PendingOf(g) THEN None ELSE pending[u]]

\* A mistaken reader that leaves the requests of the dead worker in the table.
ReaderForgets(g) ==
  /\ reader[g] = "reading"
  /\ proc[g] \in {"dying", "dead"}
  /\ reader' = [reader EXCEPT ![g] = "ended"]
  /\ UNCHANGED <<stateVars, proc, session, broken, requestVars, taskVars, lockVars>>

\* The reader is at the end of the output: fail the worker's requests, give the
\* permit back.
ReaderEnds(g) ==
  /\ reader[g] = "reading"
  /\ proc[g] \in {"dying", "dead"}
  /\ FailExited(g)
  /\ reader' = [reader EXCEPT ![g] = "ended"]
  /\ UNCHANGED <<stateVars, proc, session, broken, reqGen, taskVars, lockVars>>

\* The reader stops on a read error (a line that is not UTF-8): the same, but the
\* process is alive.
ReaderBreaks(g) ==
  /\ reader[g] = "reading"
  /\ proc[g] = "alive"
  /\ FailExited(g)
  /\ reader' = [reader EXCEPT ![g] = "ended"]
  /\ broken' = [broken EXCEPT ![g] = TRUE]
  /\ UNCHANGED <<stateVars, proc, session, reqGen, taskVars, lockVars>>

-----------------------------------------------------------------------------
TaskStep(t) ==
  \/ EnsureConnected(t)
  \/ SendConnect(t)
  \/ ConnectAnswered(t)
  \/ Mark(t)
  \/ Send(t)
  \/ Answered(t)
  \/ Kill(t)
  \/ Killed(t)

WorkerAnswers(t) == \E r \in Results : Answer(t, r)

Next ==
  \/ \E t \in Tasks, o \in Ops : Call(t, o)
  \/ \E t \in Tasks : \/ TaskStep(t)
                      \/ ConnectTimesOut(t)
                      \/ Abandon(t)
                      \/ WorkerAnswers(t)
  \/ \E g \in Gens : \/ Crash(g)
                     \/ Exit(g)
                     \/ ReaderEnds(g)
                     \/ ReaderBreaks(g)

(***************************************************************************)
(* Fairness.  The runtime polls tasks that can run; tokio's mutexes are    *)
(* fair, so a task waiting for connect_lock gets it (strong fairness,      *)
(* since others take it in between); a worker that reads a request answers *)
(* it or dies; a killed process exits and its reader sees the end of the   *)
(* output.  No timeout is counted on: execute has one only when the caller *)
(* asks for it.                                                            *)
(***************************************************************************)
Fairness ==
  /\ \A t \in Tasks : SF_vars(TaskStep(t)) /\ WF_vars(WorkerAnswers(t))
  /\ \A g \in Gens : WF_vars(Exit(g)) /\ WF_vars(ReaderEnds(g))

Spec == Init /\ [][Next]_vars
FairSpec == Spec /\ Fairness

-----------------------------------------------------------------------------
\* A request that waits for its answer can still get one: it is in the pending
\* table and the reader of its worker has not ended, or has ended on a read
\* error while the worker lives.  That is what makes a call without a timeout
\* (execute, duckdb_worker_process.rs 208-226) end when the worker dies at any
\* moment, the one between try_wait and the write included.
AnswerCanCome ==
  \A t \in Tasks :
    pc[t] \in Waiting /\ res[t] = "none"
      => /\ pending[t] # None
         /\ reader[pending[t]] = "reading" \/ broken[pending[t]]

\* A request is told that its worker was killed or has exited only if that is
\* true of the very worker it was sent to: a kill that finishes after another
\* task started the next generation spares the requests of that generation
\* (duckdb_worker_process.rs 354-375, 568-581, 707-721).
FailedMeansGone ==
  \A t \in Tasks :
    pc[t] \in Waiting /\ res[t] \in {"killed", "exited"}
      => proc[reqGen[t]] \in {"dying", "dead"} \/ broken[reqGen[t]]

\* While the client says connected to a worker, the flag was set for that worker
\* and not for an earlier one, and the worker has opened the database unless the
\* Connect that led to the flag was answered by an earlier worker: a kill and a
\* restart between the answer and the second lock of the state is the only way
\* to a worker that is taken for connected and is not
\* (duckdb_worker_process.rs 390-436, 438-491).
FlagIsCurrent ==
  connected /\ Running => setFor = child /\ (setBy = child => session[child])

\* Every call returns unless the reader of a live worker stopped on a read error:
\* no crash, kill or restart leaves a query without a timeout waiting for ever
\* (duckdb_worker_process.rs 190-253).
EveryCallReturns ==
  \A t \in Tasks : pc[t] # "idle" ~> (pc[t] = "idle" \/ \E g \in Gens : broken[g])

=============================================================================
