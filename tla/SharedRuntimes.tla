--------------------------- MODULE SharedRuntimes ---------------------------
(***************************************************************************)
(* Shared agent runtimes (crates/dbx-core/src/agent_runtime.rs and         *)
(* AgentRuntimeClient of crates/dbx-core/src/db/agent_driver.rs).          *)
(*                                                                         *)
(* All sessions of one runtime key share one agent process.  The manager's *)
(* map connection_runtimes holds, under a mutex, a OnceCell per key; the   *)
(* cell is filled by whichever opener comes first.  An opener reserves a   *)
(* place on the runtime under the mutex of the map (active_sessions + 1)   *)
(* before it sends open_session, and the end of the session, or a failed   *)
(* open, gives the place back.  The last one to give it back starts an     *)
(* idle timer that kills the process if nobody uses it by then.            *)
(*                                                                         *)
(* The model follows one runtime key.  A cell and the runtime in it share  *)
(* a number.                                                               *)
(***************************************************************************)
EXTENDS Naturals, FiniteSets

CONSTANTS
  Openers,   \* tasks that open, use and close a session
  MaxCells,  \* bound on the cells (and so on the processes spawned)
  MaxOpens,  \* bound on calls of spawn_shared_connection_client
  MaxStops   \* bound on calls of stop_daemons and stop_daemon_by_key

ASSUME SharedRuntimesAssumption ==
  /\ IsFiniteSet(Openers)
  /\ MaxCells \in Nat
  /\ MaxOpens \in Nat
  /\ MaxStops \in Nat

Cells == 1..MaxCells
None == 0

VARIABLES
  current,    \* the cell of the key in connection_runtimes, or None
  made,       \* cells made so far
  cellState,  \* what is in the OnceCell
  failed,     \* AgentRuntimeClient.failed
  count,      \* AgentRuntimeClient.active_sessions
  timers,     \* idle timers that are sleeping, per runtime
  killers,    \* idle timers that found no session and are about to kill
  stopping,   \* runtimes that a stop call took out of the map and will kill
  pc,         \* control of an opener
  cell,       \* the runtime_cell of an opener
  hasId,      \* AgentDriverClient.agent_session_id is Some
  abandoned,  \* places whose opener was dropped inside open_session (no counterpart in the code)
  used,       \* was a place on the runtime ever reserved? (no counterpart in the code)
  opens,      \* calls begun (names the bound MaxOpens)
  stops       \* stop calls begun (names the bound MaxStops)

mapVars == <<current, made, cellState>>
processVars == <<failed, count, timers, killers, stopping>>
openerVars == <<pc, cell, hasId>>
history == <<abandoned, used>>
bounds == <<opens, stops>>
vars == <<mapVars, processVars, openerVars, history, bounds>>

OpenerPc == {"idle", "lookup", "init", "spawn", "reserve", "open", "forget",
             "forgetReplace", "replace", "session", "closed"}

(***************************************************************************)
(* Type correctness of the map, the runtimes and the openers' locals.      *)
(***************************************************************************)
TypeOK ==
  /\ current \in Cells \cup {None}
  /\ made \in 0..MaxCells
  /\ cellState \in [Cells -> {"empty", "spawning", "ready"}]
  /\ failed \in [Cells -> BOOLEAN]
  /\ count \in [Cells -> Nat]
  /\ timers \in [Cells -> Nat]
  /\ killers \in [Cells -> Nat]
  /\ stopping \in SUBSET Cells
  /\ pc \in [Openers -> OpenerPc]
  /\ cell \in [Openers -> Cells \cup {None}]
  /\ hasId \in [Openers -> BOOLEAN]
  /\ abandoned \in [Cells -> Nat]
  /\ used \in [Cells -> BOOLEAN]
  /\ opens \in 0..MaxOpens
  /\ stops \in 0..MaxStops

Init ==
  /\ current = None
  /\ made = 0
  /\ cellState = [c \in Cells |-> "empty"]
  /\ failed = [c \in Cells |-> FALSE]
  /\ count = [c \in Cells |-> 0]
  /\ timers = [c \in Cells |-> 0]
  /\ killers = [c \in Cells |-> 0]
  /\ stopping = {}
  /\ pc = [o \in Openers |-> "idle"]
  /\ cell = [o \in Openers |-> None]
  /\ hasId = [o \in Openers |-> FALSE]
  /\ abandoned = [c \in Cells |-> 0]
  /\ used = [c \in Cells |-> FALSE]
  /\ opens = 0
  /\ stops = 0

GoTo(o, l) == pc' = [pc EXCEPT ![o] = l]

\* AgentRuntimeClient::kill, and what the reader thread does when the process
\* is gone: the runtime is failed for good.
Kill(c) == failed' = [failed EXCEPT ![c] = TRUE]

\* A mistaken decrement that starts the timer only after the count was zero.
DecrementWithoutTimer(c) ==
  /\ count' = [count EXCEPT ![c] = IF @ = 0 THEN 0 ELSE @ - 1]
  /\ timers' = [timers EXCEPT ![c] = IF count[c] = 0 THEN @ + 1 ELSE @]

\* AgentRuntimeClient::decrement_session_count: saturating, and whoever takes
\* the last place starts an idle timer.
Decrement(c) ==
  /\ count' = [count EXCEPT ![c] = IF @ = 0 THEN 0 ELSE @ - 1]
  /\ timers' = [timers EXCEPT ![c] = IF count[c] <= 1 THEN @ + 1 ELSE @]

-----------------------------------------------------------------------------
(* spawn_shared_connection_client.                                         *)

\* A call begins.
Begin(o) ==
  /\ pc[o] = "idle"
  /\ opens < MaxOpens
  /\ opens' = opens + 1
  /\ GoTo(o, "lookup")
  /\ UNCHANGED <<mapVars, processVars, cell, hasId, history, stops>>

\* Under the mutex of the map: a failed runtime leaves the map, and an absent
\* entry gets a fresh cell.
Lookup(o) ==
  LET keep == current # None /\ ~(cellState[current] = "ready" /\ failed[current]) IN
  /\ pc[o] = "lookup"
  /\ keep \/ made < MaxCells
  /\ made' = IF keep THEN made ELSE made + 1
  /\ current' = IF keep THEN current ELSE made + 1
  /\ cell' = [cell EXCEPT ![o] = IF keep THEN current ELSE made + 1]
  /\ GoTo(o, "init")
  /\ UNCHANGED <<cellState, processVars, hasId, history, bounds>>

\* get_or_try_init: the cell is empty, this opener spawns the process.
StartSpawn(o) ==
  /\ pc[o] = "init"
  /\ cellState[cell[o]] = "empty"
  /\ cellState' = [cellState EXCEPT ![cell[o]] = "spawning"]
  /\ GoTo(o, "spawn")
  /\ UNCHANGED <<current, made, processVars, cell, hasId, history, bounds>>

\* get_or_try_init: the process sent its ready line and its handshake.
SpawnOk(o) ==
  /\ pc[o] = "spawn"
  /\ cellState' = [cellState EXCEPT ![cell[o]] = "ready"]
  /\ GoTo(o, "reserve")
  /\ UNCHANGED <<current, made, processVars, cell, hasId, history, bounds>>

\* get_or_try_init: no process; the cell is empty again, the call fails.
SpawnErr(o) ==
  /\ pc[o] = "spawn"
  /\ cellState' = [cellState EXCEPT ![cell[o]] = "empty"]
  /\ GoTo(o, "idle")
  /\ UNCHANGED <<current, made, processVars, cell, hasId, history, bounds>>

\* get_or_try_init: somebody else filled the cell.
JoinRuntime(o) ==
  /\ pc[o] = "init"
  /\ cellState[cell[o]] = "ready"
  /\ GoTo(o, "reserve")
  /\ UNCHANGED <<mapVars, processVars, cell, hasId, history, bounds>>

\* A mistaken reserve_runtime_locked that does not look for the cell in the map.
ReserveAnyCell(o) ==
  LET c == cell[o]
      ok == ~failed[c] IN
  /\ pc[o] = "reserve"
  /\ count' = [count EXCEPT ![c] = IF ok THEN @ + 1 ELSE @]
  /\ used' = [used EXCEPT ![c] = @ \/ ok]
  /\ GoTo(o, IF ok THEN "open" ELSE "lookup")
  /\ UNCHANGED <<mapVars, failed, timers, killers, stopping, cell, hasId, abandoned, bounds>>

\* reserve_runtime_locked, under the mutex of the map: the cell is still the
\* one in the map and its runtime has not failed; otherwise the loop starts
\* again.
Reserve(o) ==
  LET c == cell[o]
      ok == current = c /\ ~failed[c] IN
  /\ pc[o] = "reserve"
  /\ count' = [count EXCEPT ![c] = IF ok THEN @ + 1 ELSE @]
  /\ used' = [used EXCEPT ![c] = @ \/ ok]
  /\ GoTo(o, IF ok THEN "open" ELSE "lookup")
  /\ UNCHANGED <<mapVars, failed, timers, killers, stopping, cell, hasId, abandoned, bounds>>

\* open_session succeeded: the session client carries its id.  The runtime may
\* have failed since it answered.
OpenOk(o) ==
  /\ pc[o] = "open"
  /\ hasId' = [hasId EXCEPT ![o] = TRUE]
  /\ GoTo(o, "session")
  /\ UNCHANGED <<mapVars, processVars, cell, history, bounds>>

\* open_session failed: give the place back; whoever gave back the last one
\* goes on to forget the runtime.  An error that asks for a new runtime makes
\* the caller kill this one afterwards.
OpenErr(o) ==
  /\ pc[o] = "open"
  /\ Decrement(cell[o])
  /\ \/ GoTo(o, IF count[cell[o]] <= 1 THEN "forget" ELSE "idle")
     \/ GoTo(o, IF count[cell[o]] <= 1 THEN "forgetReplace" ELSE "replace")
  /\ UNCHANGED <<mapVars, failed, killers, stopping, cell, hasId, history, bounds>>

\* A mistaken forget that trusts the count it saw before it had the mutex.
ForgetUnchecked(o) ==
  /\ pc[o] \in {"forget", "forgetReplace"}
  /\ current' = IF current = cell[o] THEN None ELSE current
  /\ GoTo(o, IF pc[o] = "forget" THEN "idle" ELSE "replace")
  /\ UNCHANGED <<made, cellState, processVars, cell, hasId, history, bounds>>

\* remove_unused_runtime_if_current: under the mutex of the map, if nobody
\* reserved a place in the meantime and the cell is still in the map.
Forget(o) ==
  /\ pc[o] \in {"forget", "forgetReplace"}
  /\ current' = IF count[cell[o]] = 0 /\ current = cell[o] THEN None ELSE current
  /\ GoTo(o, IF pc[o] = "forget" THEN "idle" ELSE "replace")
  /\ UNCHANGED <<made, cellState, processVars, cell, hasId, history, bounds>>

\* replace_runtime_after_open_failure: the pools on the runtime leave the
\* routing table and the runtime is killed.
ReplaceRuntime(o) ==
  /\ pc[o] = "replace"
  /\ Kill(cell[o])
  /\ GoTo(o, "idle")
  /\ UNCHANGED <<mapVars, count, timers, killers, stopping, cell, hasId, history, bounds>>

\* The future of the call is dropped at an await (the web server drops the
\* handler of a client that went away).  Nothing gives a reserved place back.
Dropped(o) ==
  /\ pc[o] \in {"lookup", "init", "spawn", "reserve", "open", "forget", "forgetReplace", "replace"}
  /\ cellState' = IF pc[o] = "spawn" THEN [cellState EXCEPT ![cell[o]] = "empty"] ELSE cellState
  /\ abandoned' = IF pc[o] = "open" THEN [abandoned EXCEPT ![cell[o]] = @ + 1] ELSE abandoned
  /\ GoTo(o, "idle")
  /\ UNCHANGED <<current, made, processVars, cell, hasId, used, bounds>>

-----------------------------------------------------------------------------
(* The end of a session.                                                   *)

\* A mistaken disconnect that leaves the session id to the Drop.
CloseOkKeepsId(o) ==
  /\ pc[o] = "session"
  /\ Decrement(cell[o])
  /\ GoTo(o, "closed")
  /\ UNCHANGED <<mapVars, failed, killers, stopping, cell, hasId, history, bounds>>

\* disconnect: close_session succeeded (the runtime may have failed since), the
\* place is given back and the id taken, so that the Drop does not give it
\* back again.
CloseOk(o) ==
  /\ pc[o] = "session"
  /\ Decrement(cell[o])
  /\ hasId' = [hasId EXCEPT ![o] = FALSE]
  /\ GoTo(o, "closed")
  /\ UNCHANGED <<mapVars, failed, killers, stopping, cell, history, bounds>>

\* disconnect: close_session failed, and the client keeps its id.  The error
\* asks for a new runtime, so the owner of the pool kills this one; any other
\* error changes nothing.
CloseErr(o) ==
  /\ pc[o] = "session"
  /\ Kill(cell[o])
  /\ UNCHANGED <<mapVars, count, timers, killers, stopping, openerVars, history, bounds>>

\* Drop of AgentDriverClient, after a close or without one.
DropClient(o) ==
  /\ pc[o] \in {"session", "closed"}
  /\ IF hasId[o] THEN Decrement(cell[o]) ELSE UNCHANGED <<count, timers>>
  /\ hasId' = [hasId EXCEPT ![o] = FALSE]
  /\ GoTo(o, "idle")
  /\ UNCHANGED <<mapVars, failed, killers, stopping, cell, history, bounds>>

-----------------------------------------------------------------------------
(* What ends a runtime.                                                    *)

\* The task of decrement_session_count wakes up after the grace period and
\* reads the count.
TimerWakes(c) ==
  /\ timers[c] > 0
  /\ timers' = [timers EXCEPT ![c] = @ - 1]
  /\ killers' = [killers EXCEPT ![c] = IF count[c] = 0 THEN @ + 1 ELSE @]
  /\ UNCHANGED <<mapVars, failed, count, stopping, openerVars, history, bounds>>

\* ... and kills the runtime.
TimerKills(c) ==
  /\ killers[c] > 0
  /\ killers' = [killers EXCEPT ![c] = @ - 1]
  /\ Kill(c)
  /\ UNCHANGED <<mapVars, count, timers, stopping, openerVars, history, bounds>>

\* The process exits, or sends something that is not JSON.
RuntimeDies(c) ==
  /\ cellState[c] = "ready"
  /\ ~failed[c]
  /\ Kill(c)
  /\ UNCHANGED <<mapVars, count, timers, killers, stopping, openerVars, history, bounds>>

\* stop_daemons, stop_daemon_by_key: empty the map, then kill what was in it.
StopDaemons ==
  /\ stops < MaxStops
  /\ stops' = stops + 1
  /\ stopping' = IF current # None /\ cellState[current] = "ready" THEN stopping \cup {current} ELSE stopping
  /\ current' = None
  /\ UNCHANGED <<made, cellState, failed, count, timers, killers, openerVars, history, opens>>

KillStopped(c) ==
  /\ c \in stopping
  /\ stopping' = stopping \ {c}
  /\ Kill(c)
  /\ UNCHANGED <<mapVars, count, timers, killers, openerVars, history, bounds>>

-----------------------------------------------------------------------------
Opening(o) ==
  \/ Begin(o) \/ Lookup(o) \/ StartSpawn(o) \/ SpawnOk(o) \/ SpawnErr(o) \/ JoinRuntime(o)
  \/ Reserve(o) \/ OpenOk(o) \/ OpenErr(o) \/ Forget(o) \/ ReplaceRuntime(o) \/ Dropped(o)

Closing(o) == CloseOk(o) \/ CloseErr(o) \/ DropClient(o)

Ending(c) == TimerWakes(c) \/ TimerKills(c) \/ RuntimeDies(c) \/ KillStopped(c)

Next ==
  \/ \E o \in Openers : Opening(o) \/ Closing(o)
  \/ \E c \in Cells : Ending(c)
  \/ StopDaemons

Spec == Init /\ [][Next]_vars

(***************************************************************************)
(* Fairness: a timer that was started wakes up, and kills if it found no   *)
(* session.  Nothing says that a session is ever closed.                   *)
(***************************************************************************)
FairSpec == Spec /\ \A c \in Cells : WF_vars(TimerWakes(c)) /\ WF_vars(TimerKills(c))

-----------------------------------------------------------------------------
(* Properties.                                                             *)

\* The openers that have a place on the runtime and will give it back.
Holders(c) == {o \in Openers : cell[o] = c /\ (pc[o] = "open" \/ hasId[o])}

(***************************************************************************)
(* The session count is exact: it is the number of openers inside          *)
(* open_session plus the clients that still have their session id, plus    *)
(* the places of calls that were dropped.  No path gives a place back      *)
(* twice, and apart from a dropped call none forgets to.                   *)
(***************************************************************************)
CountIsExact == \A c \in Cells : count[c] = Cardinality(Holders(c)) + abandoned[c]

(***************************************************************************)
(* A live runtime with sessions is the one in the map (or a stop call is   *)
(* about to kill it): the cleanup after a failed open never forgets a      *)
(* runtime on which another opener reserved a place, so one key never has  *)
(* two working processes with sessions.                                    *)
(***************************************************************************)
SessionsAreOnCurrent ==
  \A c \in Cells : count[c] > 0 /\ ~failed[c] => c = current \/ c \in stopping

(***************************************************************************)
(* A live runtime that has been used and is idle has a timer running: its  *)
(* process does not stay behind when its last session ends, in whatever    *)
(* order timers, failed opens and drops come.                              *)
(***************************************************************************)
IdleRuntimeHasTimer ==
  \A c \in Cells : used[c] /\ count[c] = 0 /\ ~failed[c] => timers[c] + killers[c] > 0

(***************************************************************************)
(* An idle runtime is killed after the grace period, unless it gets a new  *)
(* session.                                                                *)
(***************************************************************************)
IdleRuntimeEnds == \A c \in Cells : (used[c] /\ count[c] = 0) ~> (failed[c] \/ count[c] > 0)

(***************************************************************************)
(* The idle timer of a session that ended does not kill the other          *)
(* sessions: a runtime that it kills has none.                             *)
(***************************************************************************)
TimerSparesSessions == [][\A c \in Cells : killers'[c] < killers[c] => count[c] = 0]_vars
=============================================================================
