--------------------------- MODULE TwoPhaseCommit ---------------------------
(***************************************************************************)
(* The two-phase commit coordinator (crates/dbx-core/src/                  *)
(* two_phase_commit.rs): execute, its crash at any point, and recover, for *)
(* one transaction.                                                        *)
(*                                                                         *)
(* The durable state is the transaction log and the state machine entry    *)
(* "2pc_<id>"; everything else of the coordinator is lost in a crash.  A   *)
(* crash stands for the end of the process and for an error of the state   *)
(* backend, which execute and recover return with `?`.                     *)
(*                                                                         *)
(* A participant is modelled by what the coordinator relies on: prepare    *)
(* votes, commit makes a prepared participant committed for good, and      *)
(* rollback undoes what is not committed.  Each call may report an error;  *)
(* commit of a participant that is already committed may succeed again or  *)
(* report an error (the transaction is unknown by then).                   *)
(***************************************************************************)
EXTENDS Naturals, StateTransitions

CONSTANTS
  N,           \* number of participants
  MaxRetries,  \* max_retries of commit_phase (2 in the code)
  MaxCrashes   \* bound on crashes

ASSUME TwoPhaseCommitAssumption ==
  /\ N \in Nat
  /\ MaxRetries \in Nat
  /\ MaxCrashes \in Nat

Participants == 1..N

VARIABLES
  log,      \* TransactionLog.status in the backend, "none" before save_log
  entry,    \* the state machine entry 2pc_<id>, "none" before create_state
  part,     \* state of each participant's database
  pc,       \* control of the coordinator
  mode,     \* which call runs: execute or recover
  todo,     \* participants the current loop has not visited yet
  retry,    \* local of commit_phase: next_pending
  attempt,  \* local of commit_phase: attempt
  done,     \* the participants of commit_results with committed = true
  failed,   \* a rollback reported an error (rollback_phase returns Err)
  crashes,  \* crashes so far
  lost      \* did a commit take effect and report an error? (no counterpart in the code)

locals == <<mode, todo, retry, attempt, done, failed>>
vars == <<log, entry, part, pc, locals, crashes, lost>>

Final == {"committed", "rolled_back", "mixed"}
Status == {"none", "preparing", "prepared", "committing", "rolling_back"} \cup Final
PartState == {"working", "prepared", "committed", "aborted"}
Control == {"start", "create", "preparing", "prepare", "committing", "commit", "committed",
            "rollingBack", "rollback", "report", "returned", "down"}

(***************************************************************************)
(* Type correctness of the log, the participants and the coordinator.      *)
(***************************************************************************)
TypeOK ==
  /\ log \in Status
  /\ entry \in States \cup {"none"}
  /\ part \in [Participants -> PartState]
  /\ pc \in Control
  /\ mode \in {"execute", "recover"}
  /\ todo \in SUBSET Participants
  /\ retry \in SUBSET Participants
  /\ attempt \in 0..MaxRetries
  /\ done \in SUBSET Participants
  /\ failed \in BOOLEAN
  /\ crashes \in 0..MaxCrashes
  /\ lost \in BOOLEAN

Init ==
  /\ log = "none"
  /\ entry = "none"
  /\ part = [p \in Participants |-> "working"]
  /\ pc = "start"
  /\ mode = "execute"
  /\ todo = {}
  /\ retry = {}
  /\ attempt = 0
  /\ done = {}
  /\ failed = FALSE
  /\ crashes = 0
  /\ lost = FALSE

\* update_status: load the log, set its status, save it.
UpdateStatus(from, status, to) ==
  /\ pc = from
  /\ log' = status
  /\ pc' = to

\* The participant a loop over the slice visits next.
Visits(p) == p \in todo /\ \A q \in todo : p <= q

-----------------------------------------------------------------------------
(* execute.                                                                *)

\* execute: save_log of a fresh TransactionLog, status Preparing.
SaveLog ==
  /\ UpdateStatus("start", "preparing", "create")
  /\ UNCHANGED <<entry, part, locals, crashes, lost>>

\* execute: create_state("2pc_<id>").
CreateState ==
  /\ pc = "create"
  /\ entry' = "created"
  /\ pc' = "preparing"
  /\ UNCHANGED <<log, part, locals, crashes, lost>>

\* prepare_phase: update_status(Preparing), then the loop starts.
StartPrepare ==
  /\ UpdateStatus("preparing", "preparing", "prepare")
  /\ todo' = Participants
  /\ UNCHANGED <<entry, part, mode, retry, attempt, done, failed, crashes, lost>>

\* prepare_phase: the participant votes yes.
PrepareOk(p) ==
  /\ pc = "prepare"
  /\ Visits(p)
  /\ part' = [part EXCEPT ![p] = "prepared"]
  /\ todo' = todo \ {p}
  /\ UNCHANGED <<log, entry, pc, mode, retry, attempt, done, failed, crashes, lost>>

\* A mistaken prepare_phase that goes on after a rejection.
PrepareErrGoesOn(p) ==
  /\ pc = "prepare"
  /\ Visits(p)
  /\ todo' = todo \ {p}
  /\ UNCHANGED <<log, entry, part, pc, mode, retry, attempt, done, failed, crashes, lost>>

\* prepare_phase: the participant votes no, the loop ends and execute goes to
\* update_status(RollingBack).
PrepareErr(p) ==
  /\ pc = "prepare"
  /\ Visits(p)
  /\ \/ UNCHANGED part
     \/ part' = [part EXCEPT ![p] = "prepared"]
  /\ pc' = "rollingBack"
  /\ todo' = {}
  /\ UNCHANGED <<log, entry, mode, retry, attempt, done, failed, crashes, lost>>

\* prepare_phase: everybody agreed, update_status(Prepared).
AllPrepared ==
  /\ todo = {}
  /\ UpdateStatus("prepare", "prepared", "committing")
  /\ UNCHANGED <<entry, part, locals, crashes, lost>>

\* A mistaken execute that commits before the decision is in the log.
CommitBeforeLogging ==
  /\ pc = "committing"
  /\ pc' = "commit"
  /\ todo' = Participants
  /\ UNCHANGED <<log, entry, part, mode, retry, attempt, done, failed, crashes, lost>>

\* execute: update_status(Committing), then commit_phase starts.
StartCommit ==
  /\ UpdateStatus("committing", "committing", "commit")
  /\ todo' = Participants
  /\ UNCHANGED <<entry, part, mode, retry, attempt, done, failed, crashes, lost>>

-----------------------------------------------------------------------------
(* commit_phase, called by execute and by recover.                         *)

\* commit returns Ok.
CommitOk(p) ==
  /\ pc = "commit"
  /\ Visits(p)
  /\ part[p] \in {"prepared", "committed"}
  /\ part' = [part EXCEPT ![p] = "committed"]
  /\ todo' = todo \ {p}
  /\ done' = done \cup {p}
  /\ UNCHANGED <<log, entry, pc, mode, retry, attempt, failed, crashes, lost>>

\* A mistaken commit_phase that never retries a participant.
CommitErrCountsAsDone(p) ==
  /\ pc = "commit"
  /\ Visits(p)
  /\ todo' = todo \ {p}
  /\ done' = IF attempt = MaxRetries THEN done \cup {p} ELSE done
  /\ retry' = IF attempt < MaxRetries THEN retry \cup {p} ELSE retry
  /\ UNCHANGED <<log, entry, part, pc, mode, attempt, failed, crashes, lost>>

\* commit returns Err: retried in the next round, or reported in the last one.
CommitErr(p) ==
  /\ pc = "commit"
  /\ Visits(p)
  /\ \/ UNCHANGED <<part, lost>>
     \/ part[p] = "prepared" /\ part' = [part EXCEPT ![p] = "committed"] /\ lost' = TRUE
  /\ todo' = todo \ {p}
  /\ retry' = IF attempt < MaxRetries THEN retry \cup {p} ELSE retry
  /\ UNCHANGED <<log, entry, pc, mode, attempt, done, failed, crashes>>

\* The next round of the loop over `pending`.
NextRound ==
  /\ pc = "commit"
  /\ todo = {}
  /\ retry # {}
  /\ attempt' = attempt + 1
  /\ todo' = retry
  /\ retry' = {}
  /\ UNCHANGED <<log, entry, part, pc, mode, done, failed, crashes, lost>>

\* The loop is over: all committed, or roll back.  recover rolls back without
\* logging it first.
CommitPhaseEnds ==
  /\ pc = "commit"
  /\ todo = {}
  /\ retry = {}
  /\ pc' = CASE done = Participants -> "committed"
             [] done # Participants /\ mode = "execute" -> "rollingBack"
             [] OTHER -> "rollback"
  /\ todo' = IF done # Participants /\ mode = "recover" THEN Participants ELSE {}
  /\ UNCHANGED <<log, entry, part, mode, retry, attempt, done, failed, crashes, lost>>

\* update_status(Committed).
LogCommitted ==
  /\ UpdateStatus("committed", "committed", IF mode = "execute" THEN "report" ELSE "returned")
  /\ UNCHANGED <<entry, part, locals, crashes, lost>>

-----------------------------------------------------------------------------
(* rollback_phase and the final status.                                    *)

\* execute: update_status(RollingBack), then rollback_phase starts.
StartRollback ==
  /\ UpdateStatus("rollingBack", "rolling_back", "rollback")
  /\ todo' = Participants
  /\ UNCHANGED <<entry, part, mode, retry, attempt, done, failed, crashes, lost>>

\* rollback returns Ok; a committed participant stays committed.
RollbackOk(p) ==
  /\ pc = "rollback"
  /\ Visits(p)
  /\ part' = [part EXCEPT ![p] = IF @ = "committed" THEN @ ELSE "aborted"]
  /\ todo' = todo \ {p}
  /\ UNCHANGED <<log, entry, pc, mode, retry, attempt, done, failed, crashes, lost>>

\* A mistaken rollback_phase that forgets the error.
RollbackErrForgotten(p) ==
  /\ pc = "rollback"
  /\ Visits(p)
  /\ todo' = todo \ {p}
  /\ UNCHANGED <<log, entry, part, pc, mode, retry, attempt, done, failed, crashes, lost>>

\* rollback returns Err and has no effect.
RollbackErr(p) ==
  /\ pc = "rollback"
  /\ Visits(p)
  /\ todo' = todo \ {p}
  /\ failed' = TRUE
  /\ UNCHANGED <<log, entry, part, pc, mode, retry, attempt, done, crashes, lost>>

\* recover: rollback_phase(..).await? returns the error, the log stays.
RecoverRollbackFails ==
  /\ pc = "rollback"
  /\ todo = {}
  /\ mode = "recover"
  /\ failed
  /\ pc' = "returned"
  /\ UNCHANGED <<log, entry, part, locals, crashes, lost>>

\* A mistaken final status that looks at the last participant only.
LogRolledBackByLast ==
  /\ todo = {}
  /\ ~(mode = "recover" /\ failed)
  /\ UpdateStatus("rollback", IF N \in done THEN "mixed" ELSE "rolled_back",
                  IF mode = "execute" THEN "report" ELSE "returned")
  /\ UNCHANGED <<entry, part, locals, crashes, lost>>

\* update_status(Mixed) if the commit phase of this call committed somebody,
\* else update_status(RolledBack).  execute ignores errors of the rollback.
LogRolledBack ==
  /\ todo = {}
  /\ ~(mode = "recover" /\ failed)
  /\ UpdateStatus("rollback", IF done # {} THEN "mixed" ELSE "rolled_back",
                  IF mode = "execute" THEN "report" ELSE "returned")
  /\ UNCHANGED <<entry, part, locals, crashes, lost>>

\* execute: transition of the state machine entry, its result ignored.
Report ==
  LET to == IF log = "committed" THEN "completed" ELSE "failed" IN
  /\ pc = "report"
  /\ entry' = IF is_valid_transition(entry, to) THEN to ELSE entry
  /\ pc' = "returned"
  /\ UNCHANGED <<log, part, locals, crashes, lost>>

-----------------------------------------------------------------------------
(* Crash and recover.                                                      *)

\* The process ends, or a call of the state backend fails.
Crash ==
  /\ pc \notin {"start", "returned", "down"}
  /\ crashes < MaxCrashes
  /\ crashes' = crashes + 1
  /\ pc' = "down"
  /\ UNCHANGED <<log, entry, part, locals, lost>>

\* recover: Committing runs the commit phase again, any other status that is
\* not final rolls back.  A final status is returned as it is.
Recover ==
  /\ pc \in {"down", "returned"}
  /\ log \notin Final
  /\ pc' = IF log = "committing" THEN "commit" ELSE "rollback"
  /\ mode' = "recover"
  /\ todo' = Participants
  /\ retry' = {}
  /\ attempt' = 0
  /\ done' = {}
  /\ failed' = FALSE
  /\ UNCHANGED <<log, entry, part, crashes, lost>>

-----------------------------------------------------------------------------
Execute == SaveLog \/ CreateState \/ StartPrepare \/ AllPrepared \/ StartCommit \/ StartRollback \/ Report

CommitPhase == NextRound \/ CommitPhaseEnds \/ LogCommitted

RollbackPhase == RecoverRollbackFails \/ LogRolledBack

Calls(p) ==
  \/ PrepareOk(p)
  \/ PrepareErr(p)
  \/ CommitOk(p)
  \/ CommitErr(p)
  \/ RollbackOk(p)
  \/ RollbackErr(p)

Next ==
  \/ Execute
  \/ CommitPhase
  \/ RollbackPhase
  \/ \E p \in Participants : Calls(p)
  \/ Crash
  \/ Recover

Spec == Init /\ [][Next]_vars

-----------------------------------------------------------------------------
(* Properties.                                                             *)

(***************************************************************************)
(* A log that says committed tells the truth: every participant is         *)
(* committed, however many crashes and recoveries led there.               *)
(***************************************************************************)
CommittedMeansAll == log = "committed" => \A p \in Participants : part[p] = "committed"

(***************************************************************************)
(* Nobody commits before the decision is durable: while the log says       *)
(* Preparing or Prepared, which recover answers with a rollback, no        *)
(* participant is committed.                                               *)
(***************************************************************************)
DecisionBeforeCommit ==
  log \in {"none", "preparing", "prepared"} => \A p \in Participants : part[p] # "committed"

(***************************************************************************)
(* Unanimity: a participant is committed only if every participant voted   *)
(* yes, so none is left in the state it had before prepare.                *)
(***************************************************************************)
CommitNeedsAllVotes ==
  (\E p \in Participants : part[p] = "committed") => \A q \in Participants : part[q] # "working"

(***************************************************************************)
(* A log that says mixed has a committed participant.                      *)
(***************************************************************************)
MixedMeansSome == log = "mixed" => \E p \in Participants : part[p] = "committed"

(***************************************************************************)
(* recover leaves nobody in doubt: when it has written a final status no   *)
(* participant is still prepared, holding its locks.  (execute ignores     *)
(* errors of rollback and does not promise this.)                          *)
(***************************************************************************)
RecoveryLeavesNoDoubt ==
  mode = "recover" /\ log \in Final => \A p \in Participants : part[p] # "prepared"

(***************************************************************************)
(* Without a crash, and unless a commit that took effect reported an       *)
(* error, a log that says rolled_back has no committed participant:        *)
(* execute reports partial commits as Mixed.                               *)
(***************************************************************************)
UncrashedRollbackIsClean ==
  ~lost /\ crashes = 0 /\ log = "rolled_back" => \A p \in Participants : part[p] # "committed"

(***************************************************************************)
(* A log that says rolled_back has no committed participant: a partial     *)
(* commit is marked Mixed.                                                 *)
(***************************************************************************)
RollbackIsClean == log = "rolled_back" => \A p \in Participants : part[p] # "committed"
=============================================================================
