------------------------ MODULE PersistedStateProofs ------------------------
(***************************************************************************)
(* TLAPS proofs about what survives in the local database: the rows of the *)
(* state machine (StateMachine, for any clients, calls and retries) and    *)
(* the two-phase commits whose log and state entry they keep               *)
(* (TwoPhaseCommit, for any number of participants, retries and crashes,   *)
(* with or without lost acknowledgements).                                 *)
(***************************************************************************)
EXTENDS TwoPhaseCommit, StateMachine, TLAPS

-----------------------------------------------------------------------------
(* The state machine: the row with its optimistic compare-and-swap         *)
(* implements TransitionGraph.                                             *)

\* A client about to swap loaded a version that is not in the future, checked
\* the edge from the state it saw, and saw the present state if the column
\* still has that version.
SeenIsCurrent ==
  \A c \in Clients : phase[c] = "cas" =>
    /\ seenVersion[c] <= column
    /\ seenState[c] \in States
    /\ is_valid_transition(seenState[c], to[c])
    /\ column = seenVersion[c] => state = seenState[c]

\* There is a state exactly if there is a row.
RowHasState == column = 0 <=> state = "absent"

MachineInv ==
  /\ MachineTypeOK
  /\ VersionNotAhead
  /\ RowHasState
  /\ SeenIsCurrent

-----------------------------------------------------------------------------
\* The table has no row at the start.
LEMMA InitMachineInv == MachineInit => MachineInv
  BY StateMachineAssumption DEF MachineInit, MachineInv, MachineTypeOK, VersionNotAhead, RowHasState, SeenIsCurrent, RowState, States

\* create_state preserves the invariant: the column moves past every version
\* that was loaded.
LEMMA CreatePreserves ==
  ASSUME MachineInv, NEW c \in Clients, Create(c)
  PROVE  MachineInv'
  <1>1. MachineTypeOK'
    BY StateMachineAssumption DEF MachineInv, MachineTypeOK, Create, Call, clientVars, RowState, States
  <1>2. VersionNotAhead' /\ RowHasState'
    BY DEF MachineInv, MachineTypeOK, Create, VersionNotAhead, RowHasState
  <1>3. SeenIsCurrent'
    BY DEF MachineInv, MachineTypeOK, Create, clientVars, SeenIsCurrent
  <1> QED BY <1>1, <1>2, <1>3 DEF MachineInv

\* The call of transition preserves the invariant.
LEMMA BeginPreserves ==
  ASSUME MachineInv, NEW c \in Clients, NEW t \in States, Begin(c, t)
  PROVE  MachineInv'
  <1>1. MachineTypeOK'
    BY StateMachineAssumption DEF MachineInv, MachineTypeOK, Begin, Call, rowVars
  <1>2. VersionNotAhead' /\ RowHasState'
    BY DEF MachineInv, Begin, rowVars, VersionNotAhead, RowHasState
  <1>3. SeenIsCurrent'
    BY DEF MachineInv, MachineTypeOK, Begin, rowVars, SeenIsCurrent
  <1> QED BY <1>1, <1>2, <1>3 DEF MachineInv

\* Loading the entry preserves the invariant: what is seen is current.
LEMMA LoadPreserves ==
  ASSUME MachineInv, NEW c \in Clients, Load(c)
  PROVE  MachineInv'
  <1>1. MachineTypeOK'
    BY DEF MachineInv, MachineTypeOK, Load, rowVars
  <1>2. VersionNotAhead' /\ RowHasState'
    BY DEF MachineInv, Load, rowVars, VersionNotAhead, RowHasState
  <1>3. SeenIsCurrent'
    BY DEF MachineInv, MachineTypeOK, Load, rowVars, VersionNotAhead, SeenIsCurrent, RowState
  <1> QED BY <1>1, <1>2, <1>3 DEF MachineInv

\* A call that returns with an error, and a retry, preserve the invariant.
LEMMA FailuresPreserve ==
  ASSUME MachineInv, NEW c \in Clients, LoadFails(c) \/ CasConflict(c) \/ CasGivesUp(c)
  PROVE  MachineInv'
  <1>1. MachineTypeOK'
    BY StateMachineAssumption DEF MachineInv, MachineTypeOK, LoadFails, CasConflict, CasGivesUp, Return, rowVars, RowState, States
  <1>2. VersionNotAhead' /\ RowHasState'
    BY DEF MachineInv, LoadFails, CasConflict, CasGivesUp, rowVars, VersionNotAhead, RowHasState
  <1>3. SeenIsCurrent'
    BY DEF MachineInv, MachineTypeOK, LoadFails, CasConflict, CasGivesUp, Return, rowVars, SeenIsCurrent
  <1> QED BY <1>1, <1>2, <1>3 DEF MachineInv

\* A successful swap preserves the invariant: the column moves past every
\* version that was loaded.
LEMMA CasPreserves ==
  ASSUME MachineInv, NEW c \in Clients, Cas(c)
  PROVE  MachineInv'
  <1>0. to[c] \in States
    BY DEF MachineInv, MachineTypeOK
  <1>1. MachineTypeOK'
    BY StateMachineAssumption, <1>0 DEF MachineInv, MachineTypeOK, Cas, Return, RowState, States
  <1>2. VersionNotAhead' /\ RowHasState'
    BY <1>0 DEF MachineInv, MachineTypeOK, Cas, VersionNotAhead, RowHasState, States
  <1>3. SeenIsCurrent'
    BY DEF MachineInv, MachineTypeOK, Cas, Return, SeenIsCurrent
  <1> QED BY <1>1, <1>2, <1>3 DEF MachineInv

\* Every step preserves the invariant.
LEMMA NextMachineInv == MachineInv /\ [MachineNext]_machineVars => MachineInv'
  <1> SUFFICES ASSUME MachineInv, [MachineNext]_machineVars PROVE MachineInv'
    OBVIOUS
  <1>1. CASE UNCHANGED machineVars
    BY <1>1 DEF machineVars, rowVars, clientVars, MachineInv, MachineTypeOK, VersionNotAhead, RowHasState, SeenIsCurrent
  <1> QED BY <1>1, CreatePreserves, BeginPreserves, LoadPreserves, FailuresPreserve, CasPreserves
          DEF MachineNext, Transition

\* Every step of the state machine is a step of the graph, or leaves the state.
LEMMA StepRefines == MachineInv /\ [MachineNext]_machineVars => [Graph!GraphNext]_state
  <1> SUFFICES ASSUME MachineInv, [MachineNext]_machineVars, state' # state
               PROVE  Graph!GraphNext
    OBVIOUS
  <1>1. ASSUME NEW c \in Clients, Create(c) PROVE Graph!GraphNext
    BY <1>1 DEF Create, Graph!GraphNext, Graph!Creates
  <1>2. ASSUME NEW c \in Clients, Cas(c) PROVE Graph!GraphNext
    <2>1. state = seenState[c] /\ state \in States /\ is_valid_transition(state, to[c])
      BY <1>2 DEF Cas, MachineInv, SeenIsCurrent
    <2>2. state' \in ALLOWED_TRANSITIONS[state]
      BY <1>2, <2>1 DEF Cas, is_valid_transition
    <2>3. state # "absent"
      BY <2>1 DEF States
    <2>4. ALLOWED_TRANSITIONS = Graph!ALLOWED_TRANSITIONS
      BY DEF ALLOWED_TRANSITIONS, Graph!ALLOWED_TRANSITIONS, States, Graph!States
    <2> QED BY <2>2, <2>3, <2>4 DEF Graph!GraphNext, Graph!Moves
  <1>3. ASSUME NEW c \in Clients, \/ \E t \in States : Begin(c, t)
                                  \/ Load(c) \/ LoadFails(c) \/ CasConflict(c) \/ CasGivesUp(c)
        PROVE  FALSE
    BY <1>3 DEF Begin, Load, LoadFails, CasConflict, CasGivesUp, rowVars
  <1>4. ~UNCHANGED machineVars
    BY DEF machineVars, rowVars
  <1> QED BY <1>1, <1>2, <1>3, <1>4 DEF MachineNext, Transition

\* The inductive invariant holds in every reachable state.
LEMMA MachineInvHolds == MachineSpec => []MachineInv
  BY InitMachineInv, NextMachineInv, PTL DEF MachineSpec

\* The row is well typed and the JSON version never
\* overtakes the column.
THEOREM VersionsInOrder == MachineSpec => [](MachineTypeOK /\ VersionNotAhead)
  <1>1. MachineInv => MachineTypeOK /\ VersionNotAhead
    BY DEF MachineInv
  <1> QED BY MachineInvHolds, <1>1, PTL

\* The persisted state moves along ALLOWED_TRANSITIONS
\* only, however many tasks call create_state and transition at once.
THEOREM MachineRefinesGraph == MachineSpec => ImplementsGraph
  <1>1. MachineInit => Graph!GraphInit
    BY DEF MachineInit, Graph!GraphInit
  <1>2. MachineInv /\ [MachineNext]_machineVars => [Graph!GraphNext]_state
    BY StepRefines
  <1> QED BY <1>1, <1>2, MachineInvHolds, PTL DEF MachineSpec, ImplementsGraph, Graph!GraphSpec

-----------------------------------------------------------------------------
(* Two-phase commit.                                                       *)

\* What the log says at each point of execute and recover.
LogFollowsControl ==
  /\ pc = "start" => log = "none"
  /\ pc \in {"create", "preparing", "prepare"} => log = "preparing"
  /\ pc = "committing" => log = "prepared"
  /\ pc \in {"commit", "committed"} => log = "committing"
  /\ pc = "rollingBack" => log \in {"preparing", "committing"}
  /\ pc = "rollback" => log \notin Final \cup {"none"}
  /\ pc = "report" => log \in Final
  /\ pc \in {"returned", "down"} => log # "none"

\* recover has no points of its own before commit_phase and rollback_phase.
ModeFollowsControl ==
  /\ pc \in {"start", "create", "preparing", "prepare", "committing", "rollingBack", "report"}
       => mode = "execute"
  /\ pc = "rollback" /\ mode = "execute" => log = "rolling_back"
  /\ pc = "returned" /\ mode = "execute" => log \in Final
  /\ crashes = 0 => mode = "execute" /\ pc # "down"

\* The votes collected so far, and the unanimity behind a Committing log.
VotesCounted ==
  /\ pc = "prepare" => \A q \in Participants \ todo : part[q] = "prepared"
  /\ pc = "committing" => \A q \in Participants : part[q] = "prepared"
  /\ log = "committing" => \A q \in Participants : part[q] # "working"

\* commit_results never claims a commit that did not happen.
DoneIsCommitted == \A p \in done : part[p] = "committed"

\* execute misses no commit, if errors are truthful.
ExecuteKnowsCommits ==
  ~lost /\ mode = "execute" => \A p \in Participants : part[p] = "committed" => p \in done

\* The commit phase ended well only if everybody is in the results.
AllDone == pc = "committed" => done = Participants

\* execute writes rolled_back only if its commit phase committed nobody.
RolledBackMeansNoneDone == mode = "execute" /\ log = "rolled_back" => done = {}

\* What a rollback phase of recover without errors has achieved so far.
RollbackProgress ==
  pc = "rollback" /\ mode = "recover" /\ ~failed =>
    \A p \in Participants \ todo : part[p] \in {"committed", "aborted"}

\* A participant waits for a further round only if there is one.
RetryBound == attempt = MaxRetries => retry = {}

IInv ==
  /\ TypeOK
  /\ RetryBound
  /\ LogFollowsControl
  /\ ModeFollowsControl
  /\ VotesCounted
  /\ DoneIsCommitted
  /\ ExecuteKnowsCommits
  /\ AllDone
  /\ RolledBackMeansNoneDone
  /\ RollbackProgress
  /\ CommittedMeansAll
  /\ DecisionBeforeCommit
  /\ CommitNeedsAllVotes
  /\ MixedMeansSome
  /\ RecoveryLeavesNoDoubt

-----------------------------------------------------------------------------
\* Nothing is logged and nobody is prepared at the start.
LEMMA InitIInv == Init => IInv
  <1> SUFFICES ASSUME Init PROVE IInv
    OBVIOUS
  <1>1. TypeOK
    <2>1. failed \in BOOLEAN
      BY DEF Init
    <2>2. part \in [Participants -> PartState] /\ attempt \in 0..MaxRetries /\ crashes \in 0..MaxCrashes
      BY TwoPhaseCommitAssumption DEF Init, PartState
    <2> QED BY <2>1, <2>2 DEF Init, TypeOK, Status, Final, Control
  <1>2. \A p \in Participants : part[p] = "working"
    BY DEF Init
  <1> QED
    BY <1>1, <1>2 DEF Init, IInv, RetryBound, LogFollowsControl, ModeFollowsControl, VotesCounted,
       DoneIsCommitted, ExecuteKnowsCommits, AllDone, RolledBackMeansNoneDone, RollbackProgress,
       CommittedMeansAll, DecisionBeforeCommit, CommitNeedsAllVotes, MixedMeansSome, RecoveryLeavesNoDoubt,
       Final

\* SaveLog preserves the invariant.
LEMMA SaveLogPreserves ==
  ASSUME IInv, SaveLog
  PROVE  IInv'
  <1> USE TwoPhaseCommitAssumption DEF Participants
  <1>1. TypeOK'
    BY DEF IInv, TypeOK, SaveLog, LogFollowsControl, ModeFollowsControl, AllDone, Status, Final, PartState,
       Control, UpdateStatus, locals, UpdateStatus, locals
  <1>2. LogFollowsControl'
    BY <1>1 DEF IInv, TypeOK, Status, Final, PartState, Control, SaveLog, LogFollowsControl, UpdateStatus,
       locals
  <1>3. ModeFollowsControl'
    BY <1>1 DEF IInv, TypeOK, Status, Final, PartState, Control, SaveLog, ModeFollowsControl,
       LogFollowsControl, UpdateStatus, locals
  <1>4. VotesCounted'
    BY <1>1 DEF IInv, TypeOK, Status, Final, PartState, Control, SaveLog, VotesCounted, LogFollowsControl,
       UpdateStatus, locals
  <1>5. DecisionBeforeCommit'
    BY <1>1 DEF IInv, TypeOK, Status, Final, PartState, Control, SaveLog, DecisionBeforeCommit,
       LogFollowsControl, UpdateStatus, locals
  <1>6. RetryBound' /\ DoneIsCommitted' /\ ExecuteKnowsCommits' /\ AllDone' /\ RolledBackMeansNoneDone' /\ RollbackProgress' /\ CommittedMeansAll' /\ CommitNeedsAllVotes' /\ MixedMeansSome' /\ RecoveryLeavesNoDoubt'
    BY <1>1 DEF IInv, TypeOK, Status, Final, PartState, Control, SaveLog, RetryBound, DoneIsCommitted,
       LogFollowsControl, DecisionBeforeCommit, AllDone, ExecuteKnowsCommits, ModeFollowsControl,
       RolledBackMeansNoneDone, RollbackProgress, CommittedMeansAll, CommitNeedsAllVotes, VotesCounted,
       MixedMeansSome, RecoveryLeavesNoDoubt, UpdateStatus, locals
  <1> QED BY <1>1, <1>2, <1>3, <1>4, <1>5, <1>6 DEF IInv

\* CreateState preserves the invariant.
LEMMA CreateStatePreserves ==
  ASSUME IInv, CreateState
  PROVE  IInv'
  <1> USE TwoPhaseCommitAssumption DEF Participants
  <1>1. TypeOK'
    BY DEF IInv, TypeOK, CreateState, LogFollowsControl, ModeFollowsControl, AllDone, Status, Final, PartState,
       Control, locals, States, locals
  <1>2. LogFollowsControl'
    BY <1>1 DEF IInv, TypeOK, Status, Final, PartState, Control, CreateState, LogFollowsControl, locals
  <1>3. ModeFollowsControl'
    BY <1>1 DEF IInv, TypeOK, Status, Final, PartState, Control, CreateState, ModeFollowsControl,
       LogFollowsControl, locals
  <1>4. RetryBound' /\ VotesCounted' /\ DoneIsCommitted' /\ ExecuteKnowsCommits' /\ AllDone' /\ RolledBackMeansNoneDone' /\ RollbackProgress' /\ CommittedMeansAll' /\ DecisionBeforeCommit' /\ CommitNeedsAllVotes' /\ MixedMeansSome' /\ RecoveryLeavesNoDoubt'
    BY <1>1 DEF IInv, TypeOK, Status, Final, PartState, Control, CreateState, RetryBound, VotesCounted,
       LogFollowsControl, DoneIsCommitted, DecisionBeforeCommit, AllDone, ExecuteKnowsCommits,
       ModeFollowsControl, RolledBackMeansNoneDone, RollbackProgress, CommittedMeansAll, CommitNeedsAllVotes,
       MixedMeansSome, RecoveryLeavesNoDoubt, locals
  <1> QED BY <1>1, <1>2, <1>3, <1>4 DEF IInv

\* StartPrepare preserves the invariant.
LEMMA StartPreparePreserves ==
  ASSUME IInv, StartPrepare
  PROVE  IInv'
  <1> USE TwoPhaseCommitAssumption DEF Participants
  <1>1. TypeOK'
    BY DEF IInv, TypeOK, StartPrepare, LogFollowsControl, ModeFollowsControl, AllDone, Status, Final,
       PartState, Control, UpdateStatus, locals, UpdateStatus, locals
  <1>2. LogFollowsControl'
    BY <1>1 DEF IInv, TypeOK, Status, Final, PartState, Control, StartPrepare, LogFollowsControl, UpdateStatus,
       locals
  <1>3. ModeFollowsControl'
    BY <1>1 DEF IInv, TypeOK, Status, Final, PartState, Control, StartPrepare, ModeFollowsControl,
       LogFollowsControl, UpdateStatus, locals
  <1>4. VotesCounted'
    BY <1>1 DEF IInv, TypeOK, Status, Final, PartState, Control, StartPrepare, VotesCounted, LogFollowsControl,
       UpdateStatus, locals
  <1>5. RetryBound' /\ DoneIsCommitted' /\ ExecuteKnowsCommits' /\ AllDone' /\ RolledBackMeansNoneDone' /\ RollbackProgress' /\ CommittedMeansAll' /\ DecisionBeforeCommit' /\ CommitNeedsAllVotes' /\ MixedMeansSome' /\ RecoveryLeavesNoDoubt'
    BY <1>1 DEF IInv, TypeOK, Status, Final, PartState, Control, StartPrepare, RetryBound, DoneIsCommitted,
       LogFollowsControl, DecisionBeforeCommit, AllDone, ExecuteKnowsCommits, ModeFollowsControl,
       RolledBackMeansNoneDone, RollbackProgress, CommittedMeansAll, CommitNeedsAllVotes, VotesCounted,
       MixedMeansSome, RecoveryLeavesNoDoubt, UpdateStatus, locals
  <1> QED BY <1>1, <1>2, <1>3, <1>4, <1>5 DEF IInv

\* PrepareOk preserves the invariant.
LEMMA PrepareOkPreserves ==
  ASSUME IInv, NEW p \in Participants, PrepareOk(p)
  PROVE  IInv'
  <1> USE TwoPhaseCommitAssumption DEF Participants
  <1>1. TypeOK'
    BY DEF IInv, TypeOK, PrepareOk, LogFollowsControl, ModeFollowsControl, AllDone, Status, Final, PartState,
       Control, Visits, locals, Visits, locals
  <1>2. VotesCounted'
    BY <1>1 DEF IInv, TypeOK, Status, Final, PartState, Control, PrepareOk, VotesCounted, LogFollowsControl,
       Visits, locals
  <1>3. DoneIsCommitted'
    BY <1>1 DEF IInv, TypeOK, Status, Final, PartState, Control, PrepareOk, DoneIsCommitted, LogFollowsControl,
       DecisionBeforeCommit, AllDone, Visits, locals
  <1>4. ExecuteKnowsCommits'
    BY <1>1 DEF IInv, TypeOK, Status, Final, PartState, Control, PrepareOk, ExecuteKnowsCommits,
       DoneIsCommitted, LogFollowsControl, ModeFollowsControl, Visits, locals
  <1>5. CommittedMeansAll'
    BY <1>1 DEF IInv, TypeOK, Status, Final, PartState, Control, PrepareOk, CommittedMeansAll,
       LogFollowsControl, DoneIsCommitted, AllDone, Visits, locals
  <1>6. DecisionBeforeCommit'
    BY <1>1 DEF IInv, TypeOK, Status, Final, PartState, Control, PrepareOk, DecisionBeforeCommit,
       LogFollowsControl, Visits, locals
  <1>7. CommitNeedsAllVotes'
    BY <1>1 DEF IInv, TypeOK, Status, Final, PartState, Control, PrepareOk, CommitNeedsAllVotes,
       LogFollowsControl, VotesCounted, DecisionBeforeCommit, Visits, locals
  <1>8. MixedMeansSome'
    BY <1>1 DEF IInv, TypeOK, Status, Final, PartState, Control, PrepareOk, MixedMeansSome, LogFollowsControl,
       DoneIsCommitted, Visits, locals
  <1>9. RecoveryLeavesNoDoubt'
    BY <1>1 DEF IInv, TypeOK, Status, Final, PartState, Control, PrepareOk, RecoveryLeavesNoDoubt,
       LogFollowsControl, ModeFollowsControl, RollbackProgress, DoneIsCommitted, AllDone, Visits, locals
  <1>10. RetryBound' /\ LogFollowsControl' /\ ModeFollowsControl' /\ AllDone' /\ RolledBackMeansNoneDone' /\ RollbackProgress'
    BY <1>1 DEF IInv, TypeOK, Status, Final, PartState, Control, PrepareOk, RetryBound, LogFollowsControl,
       ModeFollowsControl, AllDone, RolledBackMeansNoneDone, RollbackProgress, Visits, locals
  <1> QED BY <1>1, <1>2, <1>3, <1>4, <1>5, <1>6, <1>7, <1>8, <1>9, <1>10 DEF IInv

\* PrepareErr preserves the invariant.
LEMMA PrepareErrPreserves ==
  ASSUME IInv, NEW p \in Participants, PrepareErr(p)
  PROVE  IInv'
  <1> USE TwoPhaseCommitAssumption DEF Participants
  <1>1. TypeOK'
    BY DEF IInv, TypeOK, PrepareErr, LogFollowsControl, ModeFollowsControl, AllDone, Status, Final, PartState,
       Control, Visits, locals, Visits, locals
  <1>2. LogFollowsControl'
    BY <1>1 DEF IInv, TypeOK, Status, Final, PartState, Control, PrepareErr, LogFollowsControl, Visits, locals
  <1>3. ModeFollowsControl'
    BY <1>1 DEF IInv, TypeOK, Status, Final, PartState, Control, PrepareErr, ModeFollowsControl,
       LogFollowsControl, Visits, locals
  <1>4. VotesCounted'
    BY <1>1 DEF IInv, TypeOK, Status, Final, PartState, Control, PrepareErr, VotesCounted, LogFollowsControl,
       Visits, locals
  <1>5. DoneIsCommitted'
    BY <1>1 DEF IInv, TypeOK, Status, Final, PartState, Control, PrepareErr, DoneIsCommitted,
       LogFollowsControl, DecisionBeforeCommit, AllDone, Visits, locals
  <1>6. ExecuteKnowsCommits'
    BY <1>1 DEF IInv, TypeOK, Status, Final, PartState, Control, PrepareErr, ExecuteKnowsCommits,
       DoneIsCommitted, LogFollowsControl, ModeFollowsControl, Visits, locals
  <1>7. CommittedMeansAll'
    BY <1>1 DEF IInv, TypeOK, Status, Final, PartState, Control, PrepareErr, CommittedMeansAll,
       LogFollowsControl, DoneIsCommitted, AllDone, Visits, locals
  <1>8. DecisionBeforeCommit'
    BY <1>1 DEF IInv, TypeOK, Status, Final, PartState, Control, PrepareErr, DecisionBeforeCommit,
       LogFollowsControl, Visits, locals
  <1>9. CommitNeedsAllVotes'
    BY <1>1 DEF IInv, TypeOK, Status, Final, PartState, Control, PrepareErr, CommitNeedsAllVotes,
       LogFollowsControl, VotesCounted, DecisionBeforeCommit, Visits, locals
  <1>10. MixedMeansSome'
    BY <1>1 DEF IInv, TypeOK, Status, Final, PartState, Control, PrepareErr, MixedMeansSome, LogFollowsControl,
       DoneIsCommitted, Visits, locals
  <1>11. RecoveryLeavesNoDoubt'
    BY <1>1 DEF IInv, TypeOK, Status, Final, PartState, Control, PrepareErr, RecoveryLeavesNoDoubt,
       LogFollowsControl, ModeFollowsControl, RollbackProgress, DoneIsCommitted, AllDone, Visits, locals
  <1>12. RetryBound' /\ AllDone' /\ RolledBackMeansNoneDone' /\ RollbackProgress'
    BY <1>1 DEF IInv, TypeOK, Status, Final, PartState, Control, PrepareErr, RetryBound, AllDone,
       RolledBackMeansNoneDone, LogFollowsControl, ModeFollowsControl, RollbackProgress, Visits, locals
  <1> QED BY <1>1, <1>2, <1>3, <1>4, <1>5, <1>6, <1>7, <1>8, <1>9, <1>10, <1>11, <1>12 DEF IInv

\* AllPrepared preserves the invariant.
LEMMA AllPreparedPreserves ==
  ASSUME IInv, AllPrepared
  PROVE  IInv'
  <1> USE TwoPhaseCommitAssumption DEF Participants
  <1>1. TypeOK'
    BY DEF IInv, TypeOK, AllPrepared, LogFollowsControl, ModeFollowsControl, AllDone, Status, Final, PartState,
       Control, UpdateStatus, locals, UpdateStatus, locals
  <1>2. LogFollowsControl'
    BY <1>1 DEF IInv, TypeOK, Status, Final, PartState, Control, AllPrepared, LogFollowsControl, UpdateStatus,
       locals
  <1>3. ModeFollowsControl'
    BY <1>1 DEF IInv, TypeOK, Status, Final, PartState, Control, AllPrepared, ModeFollowsControl,
       LogFollowsControl, UpdateStatus, locals
  <1>4. VotesCounted'
    BY <1>1 DEF IInv, TypeOK, Status, Final, PartState, Control, AllPrepared, VotesCounted, LogFollowsControl,
       UpdateStatus, locals
  <1>5. DecisionBeforeCommit'
    BY <1>1 DEF IInv, TypeOK, Status, Final, PartState, Control, AllPrepared, DecisionBeforeCommit,
       LogFollowsControl, UpdateStatus, locals
  <1>6. RetryBound' /\ DoneIsCommitted' /\ ExecuteKnowsCommits' /\ AllDone' /\ RolledBackMeansNoneDone' /\ RollbackProgress' /\ CommittedMeansAll' /\ CommitNeedsAllVotes' /\ MixedMeansSome' /\ RecoveryLeavesNoDoubt'
    BY <1>1 DEF IInv, TypeOK, Status, Final, PartState, Control, AllPrepared, RetryBound, DoneIsCommitted,
       LogFollowsControl, DecisionBeforeCommit, AllDone, ExecuteKnowsCommits, ModeFollowsControl,
       RolledBackMeansNoneDone, RollbackProgress, CommittedMeansAll, CommitNeedsAllVotes, VotesCounted,
       MixedMeansSome, RecoveryLeavesNoDoubt, UpdateStatus, locals
  <1> QED BY <1>1, <1>2, <1>3, <1>4, <1>5, <1>6 DEF IInv

\* StartCommit preserves the invariant.
LEMMA StartCommitPreserves ==
  ASSUME IInv, StartCommit
  PROVE  IInv'
  <1> USE TwoPhaseCommitAssumption DEF Participants
  <1>1. TypeOK'
    BY DEF IInv, TypeOK, StartCommit, LogFollowsControl, ModeFollowsControl, AllDone, Status, Final, PartState,
       Control, UpdateStatus, locals, UpdateStatus, locals
  <1>2. LogFollowsControl'
    BY <1>1 DEF IInv, TypeOK, Status, Final, PartState, Control, StartCommit, LogFollowsControl, UpdateStatus,
       locals
  <1>3. ModeFollowsControl'
    BY <1>1 DEF IInv, TypeOK, Status, Final, PartState, Control, StartCommit, ModeFollowsControl,
       LogFollowsControl, UpdateStatus, locals
  <1>4. VotesCounted'
    BY <1>1 DEF IInv, TypeOK, Status, Final, PartState, Control, StartCommit, VotesCounted, LogFollowsControl,
       UpdateStatus, locals
  <1>5. CommitNeedsAllVotes'
    BY <1>1 DEF IInv, TypeOK, Status, Final, PartState, Control, StartCommit, CommitNeedsAllVotes,
       LogFollowsControl, VotesCounted, DecisionBeforeCommit, UpdateStatus, locals
  <1>6. RetryBound' /\ DoneIsCommitted' /\ ExecuteKnowsCommits' /\ AllDone' /\ RolledBackMeansNoneDone' /\ RollbackProgress' /\ CommittedMeansAll' /\ DecisionBeforeCommit' /\ MixedMeansSome' /\ RecoveryLeavesNoDoubt'
    BY <1>1 DEF IInv, TypeOK, Status, Final, PartState, Control, StartCommit, RetryBound, DoneIsCommitted,
       LogFollowsControl, DecisionBeforeCommit, AllDone, ExecuteKnowsCommits, ModeFollowsControl,
       RolledBackMeansNoneDone, RollbackProgress, CommittedMeansAll, MixedMeansSome, RecoveryLeavesNoDoubt,
       UpdateStatus, locals
  <1> QED BY <1>1, <1>2, <1>3, <1>4, <1>5, <1>6 DEF IInv

\* CommitOk preserves the invariant.
LEMMA CommitOkPreserves ==
  ASSUME IInv, NEW p \in Participants, CommitOk(p)
  PROVE  IInv'
  <1> USE TwoPhaseCommitAssumption DEF Participants
  <1>1. TypeOK'
    BY DEF IInv, TypeOK, CommitOk, LogFollowsControl, ModeFollowsControl, AllDone, Status, Final, PartState,
       Control, Visits, locals, Visits, locals
  <1>2. VotesCounted'
    BY <1>1 DEF IInv, TypeOK, Status, Final, PartState, Control, CommitOk, VotesCounted, LogFollowsControl,
       Visits, locals
  <1>3. DoneIsCommitted'
    BY <1>1 DEF IInv, TypeOK, Status, Final, PartState, Control, CommitOk, DoneIsCommitted, LogFollowsControl,
       DecisionBeforeCommit, AllDone, Visits, locals
  <1>4. ExecuteKnowsCommits'
    BY <1>1 DEF IInv, TypeOK, Status, Final, PartState, Control, CommitOk, ExecuteKnowsCommits,
       DoneIsCommitted, LogFollowsControl, ModeFollowsControl, Visits, locals
  <1>5. RolledBackMeansNoneDone'
    BY <1>1 DEF IInv, TypeOK, Status, Final, PartState, Control, CommitOk, RolledBackMeansNoneDone,
       LogFollowsControl, ModeFollowsControl, Visits, locals
  <1>6. CommittedMeansAll'
    BY <1>1 DEF IInv, TypeOK, Status, Final, PartState, Control, CommitOk, CommittedMeansAll,
       LogFollowsControl, DoneIsCommitted, AllDone, Visits, locals
  <1>7. DecisionBeforeCommit'
    BY <1>1 DEF IInv, TypeOK, Status, Final, PartState, Control, CommitOk, DecisionBeforeCommit,
       LogFollowsControl, Visits, locals
  <1>8. CommitNeedsAllVotes'
    BY <1>1 DEF IInv, TypeOK, Status, Final, PartState, Control, CommitOk, CommitNeedsAllVotes,
       LogFollowsControl, VotesCounted, DecisionBeforeCommit, Visits, locals
  <1>9. MixedMeansSome'
    BY <1>1 DEF IInv, TypeOK, Status, Final, PartState, Control, CommitOk, MixedMeansSome, LogFollowsControl,
       DoneIsCommitted, Visits, locals
  <1>10. RecoveryLeavesNoDoubt'
    BY <1>1 DEF IInv, TypeOK, Status, Final, PartState, Control, CommitOk, RecoveryLeavesNoDoubt,
       LogFollowsControl, ModeFollowsControl, RollbackProgress, DoneIsCommitted, AllDone, Visits, locals
  <1>11. RetryBound' /\ LogFollowsControl' /\ ModeFollowsControl' /\ AllDone' /\ RollbackProgress'
    BY <1>1 DEF IInv, TypeOK, Status, Final, PartState, Control, CommitOk, RetryBound, LogFollowsControl,
       ModeFollowsControl, AllDone, RollbackProgress, Visits, locals
  <1> QED BY <1>1, <1>2, <1>3, <1>4, <1>5, <1>6, <1>7, <1>8, <1>9, <1>10, <1>11 DEF IInv

\* CommitErr preserves the invariant.
LEMMA CommitErrPreserves ==
  ASSUME IInv, NEW p \in Participants, CommitErr(p)
  PROVE  IInv'
  <1> USE TwoPhaseCommitAssumption DEF Participants
  <1>1. TypeOK'
    BY DEF IInv, TypeOK, CommitErr, LogFollowsControl, ModeFollowsControl, AllDone, Status, Final, PartState,
       Control, Visits, locals, Visits, locals
  <1>2. VotesCounted'
    BY <1>1 DEF IInv, TypeOK, Status, Final, PartState, Control, CommitErr, VotesCounted, LogFollowsControl,
       Visits, locals
  <1>3. DoneIsCommitted'
    BY <1>1 DEF IInv, TypeOK, Status, Final, PartState, Control, CommitErr, DoneIsCommitted, LogFollowsControl,
       DecisionBeforeCommit, AllDone, Visits, locals
  <1>4. ExecuteKnowsCommits'
    BY <1>1 DEF IInv, TypeOK, Status, Final, PartState, Control, CommitErr, ExecuteKnowsCommits,
       DoneIsCommitted, LogFollowsControl, ModeFollowsControl, Visits, locals
  <1>5. CommittedMeansAll'
    BY <1>1 DEF IInv, TypeOK, Status, Final, PartState, Control, CommitErr, CommittedMeansAll,
       LogFollowsControl, DoneIsCommitted, AllDone, Visits, locals
  <1>6. DecisionBeforeCommit'
    BY <1>1 DEF IInv, TypeOK, Status, Final, PartState, Control, CommitErr, DecisionBeforeCommit,
       LogFollowsControl, Visits, locals
  <1>7. CommitNeedsAllVotes'
    BY <1>1 DEF IInv, TypeOK, Status, Final, PartState, Control, CommitErr, CommitNeedsAllVotes,
       LogFollowsControl, VotesCounted, DecisionBeforeCommit, Visits, locals
  <1>8. MixedMeansSome'
    BY <1>1 DEF IInv, TypeOK, Status, Final, PartState, Control, CommitErr, MixedMeansSome, LogFollowsControl,
       DoneIsCommitted, Visits, locals
  <1>9. RecoveryLeavesNoDoubt'
    BY <1>1 DEF IInv, TypeOK, Status, Final, PartState, Control, CommitErr, RecoveryLeavesNoDoubt,
       LogFollowsControl, ModeFollowsControl, RollbackProgress, DoneIsCommitted, AllDone, Visits, locals
  <1>10. RetryBound' /\ LogFollowsControl' /\ ModeFollowsControl' /\ AllDone' /\ RolledBackMeansNoneDone' /\ RollbackProgress'
    BY <1>1 DEF IInv, TypeOK, Status, Final, PartState, Control, CommitErr, RetryBound, LogFollowsControl,
       ModeFollowsControl, AllDone, RolledBackMeansNoneDone, RollbackProgress, Visits, locals
  <1> QED BY <1>1, <1>2, <1>3, <1>4, <1>5, <1>6, <1>7, <1>8, <1>9, <1>10 DEF IInv

\* NextRound preserves the invariant.
LEMMA NextRoundPreserves ==
  ASSUME IInv, NextRound
  PROVE  IInv'
  <1> USE TwoPhaseCommitAssumption DEF Participants
  <1>1. TypeOK'
    <2>1. attempt # MaxRetries /\ attempt' = attempt + 1
      BY DEF IInv, RetryBound, NextRound
    <2>2. attempt' \in 0..MaxRetries
      BY <2>1 DEF IInv, TypeOK
    <2> QED BY <2>2 DEF IInv, TypeOK, NextRound
  <1>2. RetryBound' /\ LogFollowsControl' /\ ModeFollowsControl' /\ VotesCounted' /\ DoneIsCommitted' /\ ExecuteKnowsCommits' /\ AllDone' /\ RolledBackMeansNoneDone' /\ RollbackProgress' /\ CommittedMeansAll' /\ DecisionBeforeCommit' /\ CommitNeedsAllVotes' /\ MixedMeansSome' /\ RecoveryLeavesNoDoubt'
    BY <1>1 DEF IInv, TypeOK, Status, Final, PartState, Control, NextRound, RetryBound, LogFollowsControl,
       ModeFollowsControl, VotesCounted, DoneIsCommitted, DecisionBeforeCommit, AllDone, ExecuteKnowsCommits,
       RolledBackMeansNoneDone, RollbackProgress, CommittedMeansAll, CommitNeedsAllVotes, MixedMeansSome,
       RecoveryLeavesNoDoubt, locals
  <1> QED BY <1>1, <1>2 DEF IInv

\* CommitPhaseEnds preserves the invariant.
LEMMA CommitPhaseEndsPreserves ==
  ASSUME IInv, CommitPhaseEnds
  PROVE  IInv'
  <1> USE TwoPhaseCommitAssumption DEF Participants
  <1>1. TypeOK'
    BY DEF IInv, TypeOK, CommitPhaseEnds, LogFollowsControl, ModeFollowsControl, AllDone, Status, Final,
       PartState, Control, locals, locals
  <1>2. LogFollowsControl'
    BY <1>1 DEF IInv, TypeOK, Status, Final, PartState, Control, CommitPhaseEnds, LogFollowsControl, locals
  <1>3. ModeFollowsControl'
    BY <1>1 DEF IInv, TypeOK, Status, Final, PartState, Control, CommitPhaseEnds, ModeFollowsControl,
       LogFollowsControl, locals
  <1>4. VotesCounted'
    BY <1>1 DEF IInv, TypeOK, Status, Final, PartState, Control, CommitPhaseEnds, VotesCounted,
       LogFollowsControl, locals
  <1>5. AllDone'
    BY <1>1 DEF IInv, TypeOK, Status, Final, PartState, Control, CommitPhaseEnds, AllDone, locals
  <1>6. RollbackProgress'
    BY <1>1 DEF IInv, TypeOK, Status, Final, PartState, Control, CommitPhaseEnds, RollbackProgress,
       ModeFollowsControl, LogFollowsControl, locals
  <1>7. RetryBound' /\ DoneIsCommitted' /\ ExecuteKnowsCommits' /\ RolledBackMeansNoneDone' /\ CommittedMeansAll' /\ DecisionBeforeCommit' /\ CommitNeedsAllVotes' /\ MixedMeansSome' /\ RecoveryLeavesNoDoubt'
    BY <1>1 DEF IInv, TypeOK, Status, Final, PartState, Control, CommitPhaseEnds, RetryBound, DoneIsCommitted,
       LogFollowsControl, DecisionBeforeCommit, AllDone, ExecuteKnowsCommits, ModeFollowsControl,
       RolledBackMeansNoneDone, CommittedMeansAll, CommitNeedsAllVotes, VotesCounted, MixedMeansSome,
       RecoveryLeavesNoDoubt, RollbackProgress, locals
  <1> QED BY <1>1, <1>2, <1>3, <1>4, <1>5, <1>6, <1>7 DEF IInv

\* LogCommitted preserves the invariant.
LEMMA LogCommittedPreserves ==
  ASSUME IInv, LogCommitted
  PROVE  IInv'
  <1> USE TwoPhaseCommitAssumption DEF Participants
  <1>1. TypeOK'
    BY DEF IInv, TypeOK, LogCommitted, LogFollowsControl, ModeFollowsControl, AllDone, Status, Final,
       PartState, Control, UpdateStatus, locals, UpdateStatus, locals
  <1>2. LogFollowsControl'
    BY <1>1 DEF IInv, TypeOK, Status, Final, PartState, Control, LogCommitted, LogFollowsControl, UpdateStatus,
       locals
  <1>3. ModeFollowsControl'
    BY <1>1 DEF IInv, TypeOK, Status, Final, PartState, Control, LogCommitted, ModeFollowsControl,
       LogFollowsControl, UpdateStatus, locals
  <1>4. CommittedMeansAll'
    BY <1>1 DEF IInv, TypeOK, Status, Final, PartState, Control, LogCommitted, CommittedMeansAll,
       LogFollowsControl, DoneIsCommitted, AllDone, UpdateStatus, locals
  <1>5. RecoveryLeavesNoDoubt'
    BY <1>1 DEF IInv, TypeOK, Status, Final, PartState, Control, LogCommitted, RecoveryLeavesNoDoubt,
       LogFollowsControl, ModeFollowsControl, RollbackProgress, DoneIsCommitted, AllDone, UpdateStatus, locals
  <1>6. RetryBound' /\ VotesCounted' /\ DoneIsCommitted' /\ ExecuteKnowsCommits' /\ AllDone' /\ RolledBackMeansNoneDone' /\ RollbackProgress' /\ DecisionBeforeCommit' /\ CommitNeedsAllVotes' /\ MixedMeansSome'
    BY <1>1 DEF IInv, TypeOK, Status, Final, PartState, Control, LogCommitted, RetryBound, VotesCounted,
       LogFollowsControl, DoneIsCommitted, DecisionBeforeCommit, AllDone, ExecuteKnowsCommits,
       ModeFollowsControl, RolledBackMeansNoneDone, RollbackProgress, CommitNeedsAllVotes, MixedMeansSome,
       UpdateStatus, locals
  <1> QED BY <1>1, <1>2, <1>3, <1>4, <1>5, <1>6 DEF IInv

\* StartRollback preserves the invariant.
LEMMA StartRollbackPreserves ==
  ASSUME IInv, StartRollback
  PROVE  IInv'
  <1> USE TwoPhaseCommitAssumption DEF Participants
  <1>1. TypeOK'
    BY DEF IInv, TypeOK, StartRollback, LogFollowsControl, ModeFollowsControl, AllDone, Status, Final,
       PartState, Control, UpdateStatus, locals, UpdateStatus, locals
  <1>2. LogFollowsControl'
    BY <1>1 DEF IInv, TypeOK, Status, Final, PartState, Control, StartRollback, LogFollowsControl,
       UpdateStatus, locals
  <1>3. ModeFollowsControl'
    BY <1>1 DEF IInv, TypeOK, Status, Final, PartState, Control, StartRollback, ModeFollowsControl,
       LogFollowsControl, UpdateStatus, locals
  <1>4. RollbackProgress'
    BY <1>1 DEF IInv, TypeOK, Status, Final, PartState, Control, StartRollback, RollbackProgress,
       ModeFollowsControl, LogFollowsControl, UpdateStatus, locals
  <1>5. RetryBound' /\ VotesCounted' /\ DoneIsCommitted' /\ ExecuteKnowsCommits' /\ AllDone' /\ RolledBackMeansNoneDone' /\ CommittedMeansAll' /\ DecisionBeforeCommit' /\ CommitNeedsAllVotes' /\ MixedMeansSome' /\ RecoveryLeavesNoDoubt'
    BY <1>1 DEF IInv, TypeOK, Status, Final, PartState, Control, StartRollback, RetryBound, VotesCounted,
       LogFollowsControl, DoneIsCommitted, DecisionBeforeCommit, AllDone, ExecuteKnowsCommits,
       ModeFollowsControl, RolledBackMeansNoneDone, CommittedMeansAll, CommitNeedsAllVotes, MixedMeansSome,
       RecoveryLeavesNoDoubt, RollbackProgress, UpdateStatus, locals
  <1> QED BY <1>1, <1>2, <1>3, <1>4, <1>5 DEF IInv

\* RollbackOk preserves the invariant.
LEMMA RollbackOkPreserves ==
  ASSUME IInv, NEW p \in Participants, RollbackOk(p)
  PROVE  IInv'
  <1> USE TwoPhaseCommitAssumption DEF Participants
  <1>1. TypeOK'
    BY DEF IInv, TypeOK, RollbackOk, LogFollowsControl, ModeFollowsControl, AllDone, Status, Final, PartState,
       Control, Visits, locals, Visits, locals
  <1>2. VotesCounted'
    BY <1>1 DEF IInv, TypeOK, Status, Final, PartState, Control, RollbackOk, VotesCounted, LogFollowsControl,
       Visits, locals
  <1>3. DoneIsCommitted'
    BY <1>1 DEF IInv, TypeOK, Status, Final, PartState, Control, RollbackOk, DoneIsCommitted,
       LogFollowsControl, DecisionBeforeCommit, AllDone, Visits, locals
  <1>4. ExecuteKnowsCommits'
    BY <1>1 DEF IInv, TypeOK, Status, Final, PartState, Control, RollbackOk, ExecuteKnowsCommits,
       DoneIsCommitted, LogFollowsControl, ModeFollowsControl, Visits, locals
  <1>5. RollbackProgress'
    BY <1>1 DEF IInv, TypeOK, Status, Final, PartState, Control, RollbackOk, RollbackProgress,
       ModeFollowsControl, LogFollowsControl, Visits, locals
  <1>6. CommittedMeansAll'
    BY <1>1 DEF IInv, TypeOK, Status, Final, PartState, Control, RollbackOk, CommittedMeansAll,
       LogFollowsControl, DoneIsCommitted, AllDone, Visits, locals
  <1>7. DecisionBeforeCommit'
    BY <1>1 DEF IInv, TypeOK, Status, Final, PartState, Control, RollbackOk, DecisionBeforeCommit,
       LogFollowsControl, Visits, locals
  <1>8. CommitNeedsAllVotes'
    BY <1>1 DEF IInv, TypeOK, Status, Final, PartState, Control, RollbackOk, CommitNeedsAllVotes,
       LogFollowsControl, VotesCounted, DecisionBeforeCommit, Visits, locals
  <1>9. MixedMeansSome'
    BY <1>1 DEF IInv, TypeOK, Status, Final, PartState, Control, RollbackOk, MixedMeansSome, LogFollowsControl,
       DoneIsCommitted, Visits, locals
  <1>10. RecoveryLeavesNoDoubt'
    BY <1>1 DEF IInv, TypeOK, Status, Final, PartState, Control, RollbackOk, RecoveryLeavesNoDoubt,
       LogFollowsControl, ModeFollowsControl, RollbackProgress, DoneIsCommitted, AllDone, Visits, locals
  <1>11. RetryBound' /\ LogFollowsControl' /\ ModeFollowsControl' /\ AllDone' /\ RolledBackMeansNoneDone'
    BY <1>1 DEF IInv, TypeOK, Status, Final, PartState, Control, RollbackOk, RetryBound, LogFollowsControl,
       ModeFollowsControl, AllDone, RolledBackMeansNoneDone, Visits, locals
  <1> QED BY <1>1, <1>2, <1>3, <1>4, <1>5, <1>6, <1>7, <1>8, <1>9, <1>10, <1>11 DEF IInv

\* RollbackErr preserves the invariant.
LEMMA RollbackErrPreserves ==
  ASSUME IInv, NEW p \in Participants, RollbackErr(p)
  PROVE  IInv'
  <1> USE TwoPhaseCommitAssumption DEF Participants
  <1>1. TypeOK'
    BY DEF IInv, TypeOK, RollbackErr, LogFollowsControl, ModeFollowsControl, AllDone, Status, Final, PartState,
       Control, Visits, locals, Visits, locals
  <1>2. RollbackProgress'
    BY <1>1 DEF IInv, TypeOK, Status, Final, PartState, Control, RollbackErr, RollbackProgress,
       ModeFollowsControl, LogFollowsControl, Visits, locals
  <1>3. RetryBound' /\ LogFollowsControl' /\ ModeFollowsControl' /\ VotesCounted' /\ DoneIsCommitted' /\ ExecuteKnowsCommits' /\ AllDone' /\ RolledBackMeansNoneDone' /\ CommittedMeansAll' /\ DecisionBeforeCommit' /\ CommitNeedsAllVotes' /\ MixedMeansSome' /\ RecoveryLeavesNoDoubt'
    BY <1>1 DEF IInv, TypeOK, Status, Final, PartState, Control, RollbackErr, RetryBound, LogFollowsControl,
       ModeFollowsControl, VotesCounted, DoneIsCommitted, DecisionBeforeCommit, AllDone, ExecuteKnowsCommits,
       RolledBackMeansNoneDone, CommittedMeansAll, CommitNeedsAllVotes, MixedMeansSome, RecoveryLeavesNoDoubt,
       RollbackProgress, Visits, locals
  <1> QED BY <1>1, <1>2, <1>3 DEF IInv

\* RecoverRollbackFails preserves the invariant.
LEMMA RecoverRollbackFailsPreserves ==
  ASSUME IInv, RecoverRollbackFails
  PROVE  IInv'
  <1> USE TwoPhaseCommitAssumption DEF Participants
  <1>1. TypeOK'
    BY DEF IInv, TypeOK, RecoverRollbackFails, LogFollowsControl, ModeFollowsControl, AllDone, Status, Final,
       PartState, Control, locals, locals
  <1>2. LogFollowsControl'
    BY <1>1 DEF IInv, TypeOK, Status, Final, PartState, Control, RecoverRollbackFails, LogFollowsControl, locals
  <1>3. ModeFollowsControl'
    BY <1>1 DEF IInv, TypeOK, Status, Final, PartState, Control, RecoverRollbackFails, ModeFollowsControl,
       LogFollowsControl, locals
  <1>4. RetryBound' /\ VotesCounted' /\ DoneIsCommitted' /\ ExecuteKnowsCommits' /\ AllDone' /\ RolledBackMeansNoneDone' /\ RollbackProgress' /\ CommittedMeansAll' /\ DecisionBeforeCommit' /\ CommitNeedsAllVotes' /\ MixedMeansSome' /\ RecoveryLeavesNoDoubt'
    BY <1>1 DEF IInv, TypeOK, Status, Final, PartState, Control, RecoverRollbackFails, RetryBound,
       VotesCounted, LogFollowsControl, DoneIsCommitted, DecisionBeforeCommit, AllDone, ExecuteKnowsCommits,
       ModeFollowsControl, RolledBackMeansNoneDone, RollbackProgress, CommittedMeansAll, CommitNeedsAllVotes,
       MixedMeansSome, RecoveryLeavesNoDoubt, locals
  <1> QED BY <1>1, <1>2, <1>3, <1>4 DEF IInv

\* LogRolledBack preserves the invariant.
LEMMA LogRolledBackPreserves ==
  ASSUME IInv, LogRolledBack
  PROVE  IInv'
  <1> USE TwoPhaseCommitAssumption DEF Participants
  <1>1. TypeOK'
    BY DEF IInv, TypeOK, LogRolledBack, LogFollowsControl, ModeFollowsControl, AllDone, Status, Final,
       PartState, Control, UpdateStatus, locals, UpdateStatus, locals
  <1>2. LogFollowsControl'
    BY <1>1 DEF IInv, TypeOK, Status, Final, PartState, Control, LogRolledBack, LogFollowsControl,
       UpdateStatus, locals
  <1>3. ModeFollowsControl'
    BY <1>1 DEF IInv, TypeOK, Status, Final, PartState, Control, LogRolledBack, ModeFollowsControl,
       LogFollowsControl, UpdateStatus, locals
  <1>4. RolledBackMeansNoneDone'
    BY <1>1 DEF IInv, TypeOK, Status, Final, PartState, Control, LogRolledBack, RolledBackMeansNoneDone,
       LogFollowsControl, ModeFollowsControl, UpdateStatus, locals
  <1>5. MixedMeansSome'
    BY <1>1 DEF IInv, TypeOK, Status, Final, PartState, Control, LogRolledBack, MixedMeansSome,
       LogFollowsControl, DoneIsCommitted, UpdateStatus, locals
  <1>6. RecoveryLeavesNoDoubt'
    BY <1>1 DEF IInv, TypeOK, Status, Final, PartState, Control, LogRolledBack, RecoveryLeavesNoDoubt,
       LogFollowsControl, ModeFollowsControl, RollbackProgress, DoneIsCommitted, AllDone, UpdateStatus, locals
  <1>7. RetryBound' /\ VotesCounted' /\ DoneIsCommitted' /\ ExecuteKnowsCommits' /\ AllDone' /\ RollbackProgress' /\ CommittedMeansAll' /\ DecisionBeforeCommit' /\ CommitNeedsAllVotes'
    BY <1>1 DEF IInv, TypeOK, Status, Final, PartState, Control, LogRolledBack, RetryBound, VotesCounted,
       LogFollowsControl, DoneIsCommitted, DecisionBeforeCommit, AllDone, ExecuteKnowsCommits,
       ModeFollowsControl, RollbackProgress, CommittedMeansAll, CommitNeedsAllVotes, UpdateStatus, locals
  <1> QED BY <1>1, <1>2, <1>3, <1>4, <1>5, <1>6, <1>7 DEF IInv

\* Report preserves the invariant.
LEMMA ReportPreserves ==
  ASSUME IInv, Report
  PROVE  IInv'
  <1> USE TwoPhaseCommitAssumption DEF Participants
  <1>1. TypeOK'
    BY DEF IInv, TypeOK, Report, LogFollowsControl, ModeFollowsControl, AllDone, Status, Final, PartState,
       Control, locals, States, is_valid_transition, locals
  <1>2. LogFollowsControl'
    BY <1>1 DEF IInv, TypeOK, Status, Final, PartState, Control, Report, LogFollowsControl, locals
  <1>3. ModeFollowsControl'
    BY <1>1 DEF IInv, TypeOK, Status, Final, PartState, Control, Report, ModeFollowsControl, LogFollowsControl,
       locals
  <1>4. RetryBound' /\ VotesCounted' /\ DoneIsCommitted' /\ ExecuteKnowsCommits' /\ AllDone' /\ RolledBackMeansNoneDone' /\ RollbackProgress' /\ CommittedMeansAll' /\ DecisionBeforeCommit' /\ CommitNeedsAllVotes' /\ MixedMeansSome' /\ RecoveryLeavesNoDoubt'
    BY <1>1 DEF IInv, TypeOK, Status, Final, PartState, Control, Report, RetryBound, VotesCounted,
       LogFollowsControl, DoneIsCommitted, DecisionBeforeCommit, AllDone, ExecuteKnowsCommits,
       ModeFollowsControl, RolledBackMeansNoneDone, RollbackProgress, CommittedMeansAll, CommitNeedsAllVotes,
       MixedMeansSome, RecoveryLeavesNoDoubt, locals
  <1> QED BY <1>1, <1>2, <1>3, <1>4 DEF IInv

\* Crash preserves the invariant.
LEMMA CrashPreserves ==
  ASSUME IInv, Crash
  PROVE  IInv'
  <1> USE TwoPhaseCommitAssumption DEF Participants
  <1>1. TypeOK'
    BY DEF IInv, TypeOK, Crash, LogFollowsControl, ModeFollowsControl, AllDone, Status, Final, PartState,
       Control, locals, locals
  <1>2. LogFollowsControl'
    BY <1>1 DEF IInv, TypeOK, Status, Final, PartState, Control, Crash, LogFollowsControl, locals
  <1>3. ModeFollowsControl'
    BY <1>1 DEF IInv, TypeOK, Status, Final, PartState, Control, Crash, ModeFollowsControl, LogFollowsControl,
       locals
  <1>4. RetryBound' /\ VotesCounted' /\ DoneIsCommitted' /\ ExecuteKnowsCommits' /\ AllDone' /\ RolledBackMeansNoneDone' /\ RollbackProgress' /\ CommittedMeansAll' /\ DecisionBeforeCommit' /\ CommitNeedsAllVotes' /\ MixedMeansSome' /\ RecoveryLeavesNoDoubt'
    BY <1>1 DEF IInv, TypeOK, Status, Final, PartState, Control, Crash, RetryBound, VotesCounted,
       LogFollowsControl, DoneIsCommitted, DecisionBeforeCommit, AllDone, ExecuteKnowsCommits,
       ModeFollowsControl, RolledBackMeansNoneDone, RollbackProgress, CommittedMeansAll, CommitNeedsAllVotes,
       MixedMeansSome, RecoveryLeavesNoDoubt, locals
  <1> QED BY <1>1, <1>2, <1>3, <1>4 DEF IInv

\* Recover preserves the invariant.
LEMMA RecoverPreserves ==
  ASSUME IInv, Recover
  PROVE  IInv'
  <1> USE TwoPhaseCommitAssumption DEF Participants
  <1>1. TypeOK'
    <2>1. failed' \in BOOLEAN
      BY DEF Recover
    <2>2. attempt' \in 0..MaxRetries /\ todo' \in SUBSET Participants /\ done' \in SUBSET Participants
      BY DEF Recover
    <2> QED BY <2>1, <2>2 DEF IInv, TypeOK, Recover, Control
  <1>2. LogFollowsControl'
    BY <1>1 DEF IInv, TypeOK, Status, Final, PartState, Control, Recover, LogFollowsControl, locals
  <1>3. ModeFollowsControl'
    BY <1>1 DEF IInv, TypeOK, Status, Final, PartState, Control, Recover, ModeFollowsControl,
       LogFollowsControl, locals
  <1>4. VotesCounted'
    BY <1>1 DEF IInv, TypeOK, Status, Final, PartState, Control, Recover, VotesCounted, LogFollowsControl,
       locals
  <1>5. DoneIsCommitted'
    BY <1>1 DEF IInv, TypeOK, Status, Final, PartState, Control, Recover, DoneIsCommitted, LogFollowsControl,
       DecisionBeforeCommit, AllDone, locals
  <1>6. RollbackProgress'
    BY <1>1 DEF IInv, TypeOK, Status, Final, PartState, Control, Recover, RollbackProgress, ModeFollowsControl,
       LogFollowsControl, locals
  <1>7. RetryBound' /\ ExecuteKnowsCommits' /\ AllDone' /\ RolledBackMeansNoneDone' /\ CommittedMeansAll' /\ DecisionBeforeCommit' /\ CommitNeedsAllVotes' /\ MixedMeansSome' /\ RecoveryLeavesNoDoubt'
    BY <1>1 DEF IInv, TypeOK, Status, Final, PartState, Control, Recover, RetryBound, ExecuteKnowsCommits,
       DoneIsCommitted, LogFollowsControl, ModeFollowsControl, AllDone, RolledBackMeansNoneDone,
       CommittedMeansAll, DecisionBeforeCommit, CommitNeedsAllVotes, VotesCounted, MixedMeansSome,
       RecoveryLeavesNoDoubt, RollbackProgress, locals
  <1> QED BY <1>1, <1>2, <1>3, <1>4, <1>5, <1>6, <1>7 DEF IInv

-----------------------------------------------------------------------------
\* Every step preserves the invariant.
LEMMA NextIInv == IInv /\ [Next]_vars => IInv'
  <1> SUFFICES ASSUME IInv, [Next]_vars PROVE IInv'
    OBVIOUS
  <1>1. CASE Execute
    BY <1>1, SaveLogPreserves, CreateStatePreserves, StartPreparePreserves, AllPreparedPreserves,
       StartCommitPreserves, StartRollbackPreserves, ReportPreserves DEF Execute
  <1>2. CASE CommitPhase
    BY <1>2, NextRoundPreserves, CommitPhaseEndsPreserves, LogCommittedPreserves DEF CommitPhase
  <1>3. CASE RollbackPhase
    BY <1>3, RecoverRollbackFailsPreserves, LogRolledBackPreserves DEF RollbackPhase
  <1>4. ASSUME NEW p \in Participants, Calls(p) PROVE IInv'
    BY <1>4, PrepareOkPreserves, PrepareErrPreserves, CommitOkPreserves, CommitErrPreserves, RollbackOkPreserves,
       RollbackErrPreserves DEF Calls
  <1>5. CASE Crash \/ Recover
    BY <1>5, CrashPreserves, RecoverPreserves
  <1>6. CASE UNCHANGED vars
    BY <1>6 DEF vars, locals, IInv, TypeOK, RetryBound, LogFollowsControl, ModeFollowsControl, VotesCounted,
       DoneIsCommitted, ExecuteKnowsCommits, AllDone, RolledBackMeansNoneDone, RollbackProgress,
       CommittedMeansAll, DecisionBeforeCommit, CommitNeedsAllVotes, MixedMeansSome, RecoveryLeavesNoDoubt
  <1> QED BY <1>1, <1>2, <1>3, <1>4, <1>5, <1>6 DEF Next

\* The inductive invariant holds in every reachable state.
LEMMA IInvHolds == Spec => []IInv
  BY InitIInv, NextIInv, PTL DEF Spec

\* The log, the participants and the coordinator's locals stay well typed.
THEOREM TypeCorrect == Spec => []TypeOK
  <1>1. IInv => TypeOK
    BY DEF IInv
  <1> QED BY IInvHolds, <1>1, PTL

\* A Committed log is the truth, after any number of crashes and recoveries.
THEOREM CommittedIsTrue == Spec => []CommittedMeansAll
  <1>1. IInv => CommittedMeansAll
    BY DEF IInv
  <1> QED BY IInvHolds, <1>1, PTL

\* No participant commits before the decision is durable, so the rollback with
\* which recover answers Preparing and Prepared is safe.
THEOREM DecisionPrecedesCommit == Spec => []DecisionBeforeCommit
  <1>1. IInv => DecisionBeforeCommit
    BY DEF IInv
  <1> QED BY IInvHolds, <1>1, PTL

\* Nobody commits unless every participant voted yes.
THEOREM CommitIsUnanimous == Spec => []CommitNeedsAllVotes
  <1>1. IInv => CommitNeedsAllVotes
    BY DEF IInv
  <1> QED BY IInvHolds, <1>1, PTL

\* recover writes a final status only when nobody is left prepared.
THEOREM RecoveryResolves == Spec => []RecoveryLeavesNoDoubt
  <1>1. IInv => RecoveryLeavesNoDoubt
    BY DEF IInv
  <1> QED BY IInvHolds, <1>1, PTL

\* execute that runs to its end writes rolled_back only if nobody committed,
\* provided that participants do not report an error for a commit that took
\* effect.
THEOREM UncrashedRollbacksAreClean == Spec => []UncrashedRollbackIsClean
  <1>1. IInv => UncrashedRollbackIsClean
    BY DEF IInv, ModeFollowsControl, ExecuteKnowsCommits, RolledBackMeansNoneDone, UncrashedRollbackIsClean
  <1> QED BY IInvHolds, <1>1, PTL
=============================================================================
