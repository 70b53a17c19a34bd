---------------------------- MODULE PoolLifecycle ---------------------------
(***************************************************************************)
(* What connection.rs promises about the life of every pool, whatever is   *)
(* routed, probed, reclaimed and replaced around it.  A pool is made by    *)
(* one task that owns it, and only its owner puts it into the routing      *)
(* table, where it takes the place of at most one other.  A reclaim may    *)
(* take it out and own it again.  A pool on its way out (detached, being   *)
(* closed, gone) never comes back, and none disappears on the way.         *)
(***************************************************************************)
CONSTANT Pools

VARIABLE place    \* where each pool is

LifecycleInit == place = [p \in Pools |-> "unmade"]

Make(p) ==
  /\ place[p] = "unmade"
  /\ place' = [place EXCEPT ![p] = "owned"]

\* The owner puts the pool into the table ...
Publish(p) ==
  /\ place[p] = "owned"
  /\ place' = [place EXCEPT ![p] = "routed"]

\* ... in the place of another one, which is closed or dropped.
Supersede(p, q) ==
  /\ place[p] = "owned"
  /\ place[q] = "routed"
  /\ \E end \in {"closing", "gone"} : place' = [place EXCEPT ![p] = "routed", ![q] = end]

Reclaim(p) ==
  /\ place[p] = "routed"
  /\ place' = [place EXCEPT ![p] = "owned"]

\* The ways out of each place, for a pool that is not put anywhere else.
Out(from) ==
  CASE from = "routed"   -> {"detached", "closing"}
    [] from = "owned"    -> {"closing", "gone"}
    [] from = "detached" -> {"closing", "gone"}
    [] from = "closing"  -> {"gone"}
    [] OTHER             -> {}

\* Any number of pools go out at once.
Retire ==
  /\ place' = [p \in Pools |-> place'[p]]
  /\ \A p \in Pools : place'[p] = place[p] \/ place'[p] \in Out(place[p])

LifecycleNext ==
  \/ Retire
  \/ \E p \in Pools : Make(p) \/ Publish(p) \/ Reclaim(p)
  \/ \E p, q \in Pools : Supersede(p, q)

LifecycleSpec == LifecycleInit /\ [][LifecycleNext]_place
=============================================================================
