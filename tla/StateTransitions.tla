-------------------------- MODULE StateTransitions --------------------------
(***************************************************************************)
(* The states of a persisted job and the transitions between them          *)
(* (StateTransition and ALLOWED_TRANSITIONS of crates/dbx-core/src/        *)
(* state_persistence.rs).                                                  *)
(***************************************************************************)

States == {"created", "running", "paused", "osc_syncing", "completed", "failed", "cancelled", "rolling_back",
           "fully_rolled_back", "partially_rolled_back", "recovery_required"}

ALLOWED_TRANSITIONS ==
  [s \in States |->
     CASE s = "created"               -> {"running", "cancelled"}
       [] s = "running"               -> {"paused", "osc_syncing", "completed", "failed"}
       [] s = "paused"                -> {"running", "cancelled"}
       [] s = "osc_syncing"           -> {"completed", "failed"}
       [] s = "completed"             -> {"rolling_back", "fully_rolled_back"}
       [] s = "failed"                -> {"running", "cancelled", "rolling_back", "recovery_required"}
       [] s = "rolling_back"          -> {"fully_rolled_back", "partially_rolled_back", "recovery_required"}
       [] s = "partially_rolled_back" -> {"recovery_required"}
       [] OTHER                       -> {}]

is_valid_transition(from, to) == to \in ALLOWED_TRANSITIONS[from]
=============================================================================
