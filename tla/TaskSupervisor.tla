--------------------------- MODULE TaskSupervisor ---------------------------
(***************************************************************************)
(* The supervisor of background tasks (crates/dbx-core/src/                *)
(* task_supervisor.rs): keepalive loops and activity touches, spawned with *)
(* spawn_replace and stopped by key, and one-shot cleanups, spawned with   *)
(* spawn_once, that remove their own handle when they end.                 *)
(*                                                                         *)
(* The `tasks` mutex is held from the test of `accepting` to the insertion *)
(* of the handle, while shutdown clears `accepting` without the mutex; the *)
(* model keeps the two halves of that critical section apart.  abort() is  *)
(* a request: a task notices it at its next await, so a task that has      *)
(* ended its body and waits for the mutex in remove_completed goes on.     *)
(***************************************************************************)
EXTENDS Naturals

CONSTANTS
  OnceKeys,    \* keys of spawn_once ("client-session-cleanup:...", closing of pools)
  ReplaceKeys, \* keys of spawn_replace and stop ("keepalive:...", "pool-activity:...")
  Callers,     \* threads that call the supervisor
  MaxTasks,    \* bound on spawned tasks
  Free         \* nobody holds the mutex, a caller has no key

Keys == OnceKeys \cup ReplaceKeys
Tasks == 1..MaxTasks
None == 0

\* connection.rs never stops or replaces a key it gives to spawn_once.
ASSUME SupervisorAssumption ==
  /\ MaxTasks \in Nat
  /\ OnceKeys \cap ReplaceKeys = {}
  /\ Free \notin Callers
  /\ Free \notin Keys

VARIABLES
  accepting,  \* self.accepting
  cancelled,  \* self.cancellation
  tasks,      \* the map: key -> the task of its JoinHandle, or None
  lock,       \* the caller inside the `tasks` mutex, or Free
  spawned,    \* number of tasks spawned so far
  keyOf,      \* the key a task was spawned under
  state,      \* state of a spawned task
  abort,      \* was abort() called on the task's handle?
  pc,         \* control of a caller
  argKey,     \* argument of the call a caller is in
  waitsFor,   \* the handle a caller in stop_and_wait took, the task a spawn_once starts
  phase,      \* progress of shutdown
  handles     \* local of shutdown: the drained handles

callerVars == <<pc, argKey, waitsFor>>
vars == <<accepting, cancelled, tasks, lock, spawned, keyOf, state, abort, callerVars, phase, handles>>

TaskState == {"unborn", "gated", "running", "cleanup", "ended"}
CallerPc == {"idle", "insert", "start", "abort", "wait"}
Phase == {"up", "stored", "draining", "waiting", "down"}

(***************************************************************************)
(* Type correctness of the supervisor, its tasks and its callers.          *)
(***************************************************************************)
TypeOK ==
  /\ accepting \in BOOLEAN
  /\ cancelled \in BOOLEAN
  /\ tasks \in [Keys -> Tasks \cup {None}]
  /\ lock \in Callers \cup {Free}
  /\ spawned \in 0..MaxTasks
  /\ keyOf \in [Tasks -> Keys \cup {Free}]
  /\ state \in [Tasks -> TaskState]
  /\ abort \in [Tasks -> BOOLEAN]
  /\ pc \in [Callers -> CallerPc]
  /\ argKey \in [Callers -> Keys \cup {Free}]
  /\ waitsFor \in [Callers -> Tasks \cup {None}]
  /\ phase \in Phase
  /\ handles \in SUBSET Tasks

Init ==
  /\ accepting = TRUE
  /\ cancelled = FALSE
  /\ tasks = [k \in Keys |-> None]
  /\ lock = Free
  /\ spawned = 0
  /\ keyOf = [t \in Tasks |-> Free]
  /\ state = [t \in Tasks |-> "unborn"]
  /\ abort = [t \in Tasks |-> FALSE]
  /\ pc = [c \in Callers |-> "idle"]
  /\ argKey = [c \in Callers |-> Free]
  /\ waitsFor = [c \in Callers |-> None]
  /\ phase = "up"
  /\ handles = {}

Live(t) == state[t] \in {"gated", "running", "cleanup"}

-----------------------------------------------------------------------------
(* Callers.                                                                *)

\* A mistaken spawn_once without the test for an active task of that key.
SpawnIgnoresActive(c, k) ==
  /\ pc[c] = "idle"
  /\ lock = Free
  /\ accepting
  /\ spawned < MaxTasks
  /\ lock' = c
  /\ argKey' = [argKey EXCEPT ![c] = k]
  /\ pc' = [pc EXCEPT ![c] = "insert"]
  /\ UNCHANGED <<accepting, cancelled, tasks, spawned, keyOf, state, abort, waitsFor, phase, handles>>

\* spawn_replace and spawn_once: take the mutex, test accepting (and, for a
\* one-shot, that the key is not active).  A refused call changes nothing.
SpawnChecks(c, k) ==
  /\ pc[c] = "idle"
  /\ lock = Free
  /\ accepting
  /\ k \in OnceKeys => tasks[k] = None
  /\ spawned < MaxTasks
  /\ lock' = c
  /\ argKey' = [argKey EXCEPT ![c] = k]
  /\ pc' = [pc EXCEPT ![c] = "insert"]
  /\ UNCHANGED <<accepting, cancelled, tasks, spawned, keyOf, state, abort, waitsFor, phase, handles>>

\* A mistaken spawn_replace that drops the replaced handle without abort.
SpawnInsertsNoAbort(c) ==
  LET k == argKey[c]
      t == spawned + 1 IN
  /\ pc[c] = "insert"
  /\ spawned' = t
  /\ keyOf' = [keyOf EXCEPT ![t] = k]
  /\ state' = [state EXCEPT ![t] = IF k \in OnceKeys THEN "gated" ELSE "running"]
  /\ tasks' = [tasks EXCEPT ![k] = t]
  /\ lock' = Free
  /\ waitsFor' = [waitsFor EXCEPT ![c] = IF k \in OnceKeys THEN t ELSE None]
  /\ pc' = [pc EXCEPT ![c] = IF k \in OnceKeys THEN "start" ELSE "idle"]
  /\ argKey' = [argKey EXCEPT ![c] = Free]
  /\ UNCHANGED <<accepting, cancelled, abort, phase, handles>>

\* spawn_replace and spawn_once: spawn, insert the handle, abort the replaced
\* one, release the mutex.  A one-shot waits behind its start gate.
SpawnInserts(c) ==
  LET k == argKey[c]
      t == spawned + 1 IN
  /\ pc[c] = "insert"
  /\ spawned' = t
  /\ keyOf' = [keyOf EXCEPT ![t] = k]
  /\ state' = [state EXCEPT ![t] = IF k \in OnceKeys THEN "gated" ELSE "running"]
  /\ abort' = [u \in Tasks |-> abort[u] \/ u = tasks[k]]
  /\ tasks' = [tasks EXCEPT ![k] = t]
  /\ lock' = Free
  /\ waitsFor' = [waitsFor EXCEPT ![c] = IF k \in OnceKeys THEN t ELSE None]
  /\ pc' = [pc EXCEPT ![c] = IF k \in OnceKeys THEN "start" ELSE "idle"]
  /\ argKey' = [argKey EXCEPT ![c] = Free]
  /\ UNCHANGED <<accepting, cancelled, phase, handles>>

\* spawn_once: start.send(()) opens the gate of the task, unless it was
\* aborted meanwhile (the result of send is ignored).
SendStart(c) ==
  /\ pc[c] = "start"
  /\ state' = [t \in Tasks |-> IF t = waitsFor[c] /\ state[t] = "gated" THEN "running" ELSE state[t]]
  /\ waitsFor' = [waitsFor EXCEPT ![c] = None]
  /\ pc' = [pc EXCEPT ![c] = "idle"]
  /\ UNCHANGED <<accepting, cancelled, tasks, lock, spawned, keyOf, abort, argKey, phase, handles>>

\* stop and stop_many: remove the handle and abort it.
Stop(c, k) ==
  /\ pc[c] = "idle"
  /\ lock = Free
  /\ tasks[k] # None
  /\ abort' = [abort EXCEPT ![tasks[k]] = TRUE]
  /\ tasks' = [tasks EXCEPT ![k] = None]
  /\ UNCHANGED <<accepting, cancelled, lock, spawned, keyOf, state, callerVars, phase, handles>>

\* stop_and_wait: remove the handle.  The guard is gone at the end of the
\* statement, so the task is on its own until the next one aborts it.
StopAndWait(c, k) ==
  /\ pc[c] = "idle"
  /\ lock = Free
  /\ tasks[k] # None
  /\ tasks' = [tasks EXCEPT ![k] = None]
  /\ waitsFor' = [waitsFor EXCEPT ![c] = tasks[k]]
  /\ pc' = [pc EXCEPT ![c] = "abort"]
  /\ UNCHANGED <<accepting, cancelled, lock, spawned, keyOf, state, abort, argKey, phase, handles>>

\* A mistaken stop_and_wait that awaits the handle it took, but never aborts it.
WaitWithoutAbort(c) ==
  /\ pc[c] = "abort"
  /\ pc' = [pc EXCEPT ![c] = "wait"]
  /\ UNCHANGED <<accepting, cancelled, tasks, lock, spawned, keyOf, state, abort, argKey, waitsFor, phase, handles>>

\* stop_and_wait: abort the removed handle, then await its end.
AbortTaken(c) ==
  /\ pc[c] = "abort"
  /\ abort' = [abort EXCEPT ![waitsFor[c]] = TRUE]
  /\ pc' = [pc EXCEPT ![c] = "wait"]
  /\ UNCHANGED <<accepting, cancelled, tasks, lock, spawned, keyOf, state, argKey, waitsFor, phase, handles>>

\* stop_and_wait returns.
Waited(c) ==
  /\ pc[c] = "wait"
  /\ state[waitsFor[c]] = "ended"
  /\ waitsFor' = [waitsFor EXCEPT ![c] = None]
  /\ pc' = [pc EXCEPT ![c] = "idle"]
  /\ UNCHANGED <<accepting, cancelled, tasks, lock, spawned, keyOf, state, abort, argKey, phase, handles>>

-----------------------------------------------------------------------------
(* Tasks.                                                                  *)

\* A task that was aborted ends at an await point.
NoticeAbort(t) ==
  /\ abort[t]
  /\ state[t] \in {"gated", "running"}
  /\ state' = [state EXCEPT ![t] = "ended"]
  /\ UNCHANGED <<accepting, cancelled, tasks, lock, spawned, keyOf, abort, callerVars, phase, handles>>

\* The body of a task returns, by itself or because its token is cancelled.
BodyReturns(t) ==
  /\ state[t] = "running"
  /\ state' = [state EXCEPT ![t] = IF keyOf[t] \in OnceKeys THEN "cleanup" ELSE "ended"]
  /\ UNCHANGED <<accepting, cancelled, tasks, lock, spawned, keyOf, abort, callerVars, phase, handles>>

\* remove_completed: a one-shot removes the handle of its key and ends.
RemoveCompleted(t) ==
  /\ state[t] = "cleanup"
  /\ lock = Free
  /\ tasks' = [tasks EXCEPT ![keyOf[t]] = None]
  /\ state' = [state EXCEPT ![t] = "ended"]
  /\ UNCHANGED <<accepting, cancelled, lock, spawned, keyOf, abort, callerVars, phase, handles>>

-----------------------------------------------------------------------------
(* shutdown.                                                               *)

\* shutdown: accepting.store(false), without the mutex.
StopAccepting ==
  /\ phase = "up"
  /\ accepting' = FALSE
  /\ phase' = "stored"
  /\ UNCHANGED <<cancelled, tasks, lock, spawned, keyOf, state, abort, callerVars, handles>>

\* shutdown: cancel the token the tasks' child tokens hang from.
CancelAll ==
  /\ phase = "stored"
  /\ cancelled' = TRUE
  /\ phase' = "draining"
  /\ UNCHANGED <<accepting, tasks, lock, spawned, keyOf, state, abort, callerVars, handles>>

\* shutdown: drain the map under the mutex.
Drain ==
  /\ phase = "draining"
  /\ lock = Free
  /\ handles' = {tasks[k] : k \in Keys} \ {None}
  /\ tasks' = [k \in Keys |-> None]
  /\ phase' = "waiting"
  /\ UNCHANGED <<accepting, cancelled, lock, spawned, keyOf, state, abort, callerVars>>

\* All the drained tasks ended before the deadline.
AllEnded ==
  /\ phase = "waiting"
  /\ \A t \in handles : state[t] = "ended"
  /\ phase' = "down"
  /\ UNCHANGED <<accepting, cancelled, tasks, lock, spawned, keyOf, state, abort, callerVars, handles>>

\* A mistaken shutdown that returns at the deadline without aborting.
DeadlineForgetsAbort ==
  /\ phase = "waiting"
  /\ phase' = "down"
  /\ UNCHANGED <<accepting, cancelled, tasks, lock, spawned, keyOf, state, abort, callerVars, handles>>

\* The deadline passed: abort them, without waiting for them to notice.
DeadlinePasses ==
  /\ phase = "waiting"
  /\ abort' = [t \in Tasks |-> abort[t] \/ t \in handles]
  /\ phase' = "down"
  /\ UNCHANGED <<accepting, cancelled, tasks, lock, spawned, keyOf, state, callerVars, handles>>

-----------------------------------------------------------------------------
Caller(c) ==
  \/ \E k \in Keys : SpawnChecks(c, k)
  \/ SpawnInserts(c)
  \/ SendStart(c)
  \/ \E k \in ReplaceKeys : Stop(c, k) \/ StopAndWait(c, k)
  \/ AbortTaken(c)
  \/ Waited(c)

Task(t) == NoticeAbort(t) \/ BodyReturns(t) \/ RemoveCompleted(t)

Shutdown == StopAccepting \/ CancelAll \/ Drain \/ AllEnded \/ DeadlinePasses

Next == (\E c \in Callers : Caller(c)) \/ (\E t \in Tasks : Task(t)) \/ Shutdown

Spec == Init /\ [][Next]_vars

(***************************************************************************)
(* Fairness: a caller inside the mutex leaves it and sends the start, one  *)
(* that took a handle aborts it (no await lies between), the deadline of   *)
(* shutdown passes, and an aborted task reaches an await or finishes its   *)
(* cleanup.  Nothing says that a body returns by itself.                   *)
(***************************************************************************)
Fairness ==
  /\ \A c \in Callers : WF_vars(SpawnInserts(c)) /\ WF_vars(SendStart(c))
  /\ \A c \in Callers : WF_vars(AbortTaken(c)) /\ WF_vars(Waited(c))
  /\ \A t \in Tasks : WF_vars(NoticeAbort(t)) /\ WF_vars(RemoveCompleted(t))
  /\ WF_vars(CancelAll) /\ WF_vars(Drain) /\ WF_vars(AllEnded \/ DeadlinePasses)

FairSpec == Spec /\ Fairness

-----------------------------------------------------------------------------
(* Properties.                                                             *)

\* A stop_and_wait has removed the task's handle and aborts it next.
InHand(t) == \E c \in Callers : pc[c] = "abort" /\ waitsFor[c] = t

(***************************************************************************)
(* Every task that still runs can be reached: its handle is in the map, or *)
(* among the handles shutdown drained, or in the hands of the one          *)
(* stop_and_wait that is about to abort it, or abort was called on it.  In *)
(* particular a spawn that raced shutdown does not slip past the drain,    *)
(* and a key that is spawned anew between the two statements of            *)
(* stop_and_wait does not shadow the task it took.                         *)
(***************************************************************************)
NoUntrackedTask ==
  \A t \in Tasks : Live(t) => tasks[keyOf[t]] = t \/ t \in handles \/ InHand(t) \/ abort[t]

(***************************************************************************)
(* Duplicate one-shot requests do not accumulate: at most one task of a    *)
(* spawn_once key is alive.                                                *)
(***************************************************************************)
OneShotIsUnique ==
  \A t, u \in Tasks : t # u /\ Live(t) /\ Live(u) /\ keyOf[t] \in OnceKeys => keyOf[t] # keyOf[u]

(***************************************************************************)
(* When shutdown has returned the supervisor tracks nothing, and every     *)
(* task that is not over was asked to stop, or was taken by a              *)
(* stop_and_wait before the drain and is aborted by its next statement:    *)
(* shutdown does not wait for such a task.                                 *)
(***************************************************************************)
NothingSurvivesShutdown ==
  phase = "down" =>
    /\ \A k \in Keys : tasks[k] = None
    /\ \A t \in Tasks : Live(t) => abort[t] \/ InHand(t)

(***************************************************************************)
(* Once shutdown has begun, it returns and every task ends.                *)
(***************************************************************************)
ShutdownEndsTasks == (phase = "stored") ~> (phase = "down" /\ \A t \in Tasks : ~Live(t))

(***************************************************************************)
(* stop_and_wait returns once it took a handle: the task is aborted and    *)
(* ends.                                                                   *)
(***************************************************************************)
StopAndWaitReturns == \A c \in Callers : (pc[c] = "abort") ~> (pc[c] = "idle")
=============================================================================
