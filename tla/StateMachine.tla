---------------------------- MODULE StateMachine ----------------------------
(***************************************************************************)
(* The persisted state machine of one key: StateMachine over LocalBackend  *)
(* (crates/dbx-core/src/state_persistence.rs) over the state_store table   *)
(* (crates/dbx-core/src/storage.rs), used by several tasks at once.        *)
(*                                                                         *)
(* A row carries the version twice: in its `version` column, which         *)
(* save_state and compare_and_swap_state maintain, and inside the JSON of  *)
(* the StateEntry, which create_state and transition maintain.             *)
(* transition loads the JSON, and compares its version with the column.    *)
(* Every SQL statement pair runs inside Storage::with_conn, so load, save  *)
(* and compare-and-swap are atomic.  delete_state is left out: no code of  *)
(* the repository calls it.                                                *)
(***************************************************************************)
EXTENDS StateTransitions, Naturals

CONSTANTS
  Clients,       \* tasks that call the state machine
  MaxOps,        \* bound on the calls that may write the row
  MaxCasRetries  \* max_retries of transition (3 in the code)

ASSUME StateMachineAssumption ==
  /\ MaxOps \in Nat
  /\ MaxCasRetries \in Nat

VARIABLES
  column,       \* state_store.version, 0 when there is no row
  version,      \* StateEntry.version inside the row
  state,        \* StateEntry.current_state inside the row
  ops,          \* calls begun (names the bound MaxOps)
  phase,        \* control of a client
  to,           \* argument of transition
  tries,        \* the loop variable of transition
  seenVersion,  \* the version of the loaded entry
  seenState     \* its state

rowVars == <<column, version, state>>
clientVars == <<phase, to, tries, seenVersion, seenState>>
machineVars == <<rowVars, ops, clientVars>>

RowState == States \cup {"absent"}

(***************************************************************************)
(* Type correctness of the row and of the clients' locals.                 *)
(***************************************************************************)
MachineTypeOK ==
  /\ column \in Nat
  /\ version \in Nat
  /\ state \in RowState
  /\ ops \in 0..MaxOps
  /\ phase \in [Clients -> {"idle", "load", "cas"}]
  /\ to \in [Clients -> States]
  /\ tries \in [Clients -> 0..MaxCasRetries]
  /\ seenVersion \in [Clients -> Nat]
  /\ seenState \in [Clients -> RowState]

MachineInit ==
  /\ column = 0
  /\ version = 0
  /\ state = "absent"
  /\ ops = 0
  /\ phase = [c \in Clients |-> "idle"]
  /\ to = [c \in Clients |-> "created"]
  /\ tries = [c \in Clients |-> 0]
  /\ seenVersion = [c \in Clients |-> 0]
  /\ seenState = [c \in Clients |-> "absent"]

Call(c) ==
  /\ phase[c] = "idle"
  /\ ops < MaxOps
  /\ ops' = ops + 1

Return(c) ==
  /\ phase' = [phase EXCEPT ![c] = "idle"]
  /\ to' = [to EXCEPT ![c] = "created"]
  /\ tries' = [tries EXCEPT ![c] = 0]
  /\ seenVersion' = [seenVersion EXCEPT ![c] = 0]
  /\ seenState' = [seenState EXCEPT ![c] = "absent"]

\* create_state: save_state inserts the row at version 1 or, when the key
\* exists, overwrites the value and adds one to the column.
Create(c) ==
  /\ Call(c)
  /\ column' = column + 1
  /\ version' = 1
  /\ state' = "created"
  /\ UNCHANGED clientVars

\* transition(key, t) is called.
Begin(c, t) ==
  /\ Call(c)
  /\ phase' = [phase EXCEPT ![c] = "load"]
  /\ to' = [to EXCEPT ![c] = t]
  /\ UNCHANGED <<rowVars, tries, seenVersion, seenState>>

\* transition: load the entry; the edge to the target exists.
Load(c) ==
  /\ phase[c] = "load"
  /\ state # "absent"
  /\ is_valid_transition(state, to[c])
  /\ seenVersion' = [seenVersion EXCEPT ![c] = version]
  /\ seenState' = [seenState EXCEPT ![c] = state]
  /\ phase' = [phase EXCEPT ![c] = "cas"]
  /\ UNCHANGED <<rowVars, ops, to, tries>>

\* transition: "State not found" or "Invalid transition".
LoadFails(c) ==
  /\ phase[c] = "load"
  /\ ~(state # "absent" /\ is_valid_transition(state, to[c]))
  /\ Return(c)
  /\ UNCHANGED <<rowVars, ops>>

\* A mistaken swap that does not look at the version column.
CasIgnoresVersion(c) ==
  /\ phase[c] = "cas"
  /\ column # 0
  /\ column' = column + 1
  /\ version' = seenVersion[c] + 1
  /\ state' = to[c]
  /\ Return(c)
  /\ UNCHANGED ops

\* A mistaken swap that updates the value and leaves the column alone.
CasKeepsColumn(c) ==
  /\ phase[c] = "cas"
  /\ column = seenVersion[c]
  /\ column # 0
  /\ version' = seenVersion[c] + 1
  /\ state' = to[c]
  /\ Return(c)
  /\ UNCHANGED <<column, ops>>

\* transition: the column has the loaded version, so the swap succeeds.
Cas(c) ==
  /\ phase[c] = "cas"
  /\ column = seenVersion[c]
  /\ column # 0
  /\ column' = column + 1
  /\ version' = seenVersion[c] + 1
  /\ state' = to[c]
  /\ Return(c)
  /\ UNCHANGED ops

\* transition: the swap failed, and the loop goes round again.
CasConflict(c) ==
  /\ phase[c] = "cas"
  /\ column # seenVersion[c]
  /\ tries[c] < MaxCasRetries
  /\ tries' = [tries EXCEPT ![c] = @ + 1]
  /\ phase' = [phase EXCEPT ![c] = "load"]
  /\ UNCHANGED <<rowVars, ops, to, seenVersion, seenState>>

\* transition: "CAS failed after 3 retries".
CasGivesUp(c) ==
  /\ phase[c] = "cas"
  /\ column # seenVersion[c]
  /\ tries[c] = MaxCasRetries
  /\ Return(c)
  /\ UNCHANGED <<rowVars, ops>>

Transition(c) == Load(c) \/ LoadFails(c) \/ Cas(c) \/ CasConflict(c) \/ CasGivesUp(c)

MachineNext == \E c \in Clients :
  \/ Create(c)
  \/ \E t \in States : Begin(c, t)
  \/ Transition(c)

MachineSpec == MachineInit /\ [][MachineNext]_machineVars

-----------------------------------------------------------------------------
(* Properties.                                                             *)

(***************************************************************************)
(* Whatever the interleaving of create_state and transition calls, the     *)
(* persisted state only moves along the edges of ALLOWED_TRANSITIONS: a    *)
(* transition whose check is stale when it writes does not get through.    *)
(***************************************************************************)
Graph == INSTANCE TransitionGraph WITH st <- state

ImplementsGraph == Graph!GraphSpec

(***************************************************************************)
(* The JSON version never runs ahead of the column: a swap can fail for a  *)
(* version that is too old, but no entry makes a future swap succeed       *)
(* before its turn.                                                        *)
(***************************************************************************)
VersionNotAhead == version <= column

(***************************************************************************)
(* A CAS conflict means that somebody wrote: compare_and_swap_state fails  *)
(* only if the entry is no longer the one that was loaded.                 *)
(***************************************************************************)
ConflictMeansWrite ==
  \A c \in Clients : phase[c] = "cas" /\ column # seenVersion[c] => version # seenVersion[c]
=============================================================================
