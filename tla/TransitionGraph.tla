--------------------------- MODULE TransitionGraph --------------------------
(***************************************************************************)
(* What the state machine promises about one key: the persisted state is   *)
(* created, then moves along ALLOWED_TRANSITIONS one edge at a time, until *)
(* it is created anew.                                                     *)
(***************************************************************************)
EXTENDS StateTransitions

VARIABLE st     \* the persisted state, or "absent"

GraphInit == st = "absent"

Creates == st' = "created"

Moves ==
  /\ st # "absent"
  /\ st' \in ALLOWED_TRANSITIONS[st]

GraphNext == Creates \/ Moves

GraphSpec == GraphInit /\ [][GraphNext]_st
=============================================================================
