------------------------ MODULE SharedRuntimesProofs ------------------------
(***************************************************************************)
(* TLAPS proofs about SharedRuntimes, for any number of openers, cells,    *)
(* calls and stops.                                                        *)
(***************************************************************************)
EXTENDS SharedRuntimes, FiniteSetTheorems, TLAPS

\* An opener past the lookup has a cell, and a client has its session id from
\* open_session to its disconnect or drop.
LocalsFollowControl ==
  \A o \in Openers :
    /\ pc[o] \notin {"idle", "lookup"} => cell[o] \in Cells
    /\ hasId[o] <=> pc[o] = "session"

\* get_or_try_init lets one opener at a time initialise a cell.
SpawnersAreExclusive ==
  \A o \in Openers : pc[o] = "spawn" =>
    /\ cellState[cell[o]] = "spawning"
    /\ \A p \in Openers : pc[p] = "spawn" /\ cell[p] = cell[o] => p = o

\* A place is reserved on a runtime, never on a cell without one.
ReservedIsReady ==
  /\ \A o \in Openers : pc[o] = "reserve" => cellState[cell[o]] = "ready"
  /\ \A c \in Cells : count[c] > 0 => cellState[c] = "ready"

IInv ==
  /\ TypeOK
  /\ LocalsFollowControl
  /\ SpawnersAreExclusive
  /\ ReservedIsReady
  /\ CountIsExact
  /\ SessionsAreOnCurrent
  /\ IdleRuntimeHasTimer

-----------------------------------------------------------------------------
\* The openers with a place on a runtime are finitely many.
LEMMA HoldersFinite == \A c : IsFiniteSet(Holders(c)) /\ Cardinality(Holders(c)) \in Nat
  BY SharedRuntimesAssumption, FS_Subset, FS_CardinalityType DEF Holders

\* An opener that takes a place on c adds one to its holders.
LEMMA HolderJoins ==
  ASSUME NEW o \in Openers, NEW c, o \notin Holders(c), Holders(c)' = Holders(c) \cup {o}
  PROVE  Cardinality(Holders(c)') = Cardinality(Holders(c)) + 1
  BY HoldersFinite, FS_AddElement

\* An opener that gives its place on c back takes one from its holders.
LEMMA HolderLeaves ==
  ASSUME NEW o \in Openers, NEW c, o \in Holders(c), Holders(c)' = Holders(c) \ {o}
  PROVE  /\ Cardinality(Holders(c)') = Cardinality(Holders(c)) - 1
         /\ Cardinality(Holders(c)) > 0
  <1>1. IsFiniteSet(Holders(c)) /\ Cardinality(Holders(c)) \in Nat
    BY HoldersFinite
  <1>2. Cardinality(Holders(c)) # 0
    BY <1>1, FS_EmptySet
  <1> QED BY <1>1, <1>2, FS_RemoveElement

\* What decrement_session_count does to the counts and the timers.
LEMMA DecrementEffect ==
  ASSUME TypeOK, NEW r \in Cells, Decrement(r)
  PROVE  /\ count' \in [Cells -> Nat]
         /\ timers' \in [Cells -> Nat]
         /\ \A c \in Cells : count'[c] <= count[c] /\ timers'[c] >= timers[c]
         /\ \A c \in Cells : count'[c] = 0 => count[c] = 0 \/ timers'[c] > 0
  BY DEF TypeOK, Decrement

\* A client that is dropped gives its place back, or has no place.
LEMMA DropEffect ==
  ASSUME IInv, NEW o \in Openers, DropClient(o)
  PROVE  /\ count' \in [Cells -> Nat]
         /\ timers' \in [Cells -> Nat]
         /\ \A c \in Cells : count'[c] <= count[c] /\ timers'[c] >= timers[c]
         /\ \A c \in Cells : count'[c] = 0 => count[c] = 0 \/ timers'[c] > 0
  <1>1. cell[o] \in Cells /\ TypeOK
    BY DEF IInv, LocalsFollowControl, DropClient
  <1>2. CASE hasId[o]
    <2>1. Decrement(cell[o])
      BY <1>2 DEF DropClient
    <2>2. PICK r \in Cells : r = cell[o]
      BY <1>1
    <2> QED BY <1>1, <2>1, <2>2, DecrementEffect
  <1>3. CASE ~hasId[o]
    <2>1. count' = count /\ timers' = timers
      BY <1>3 DEF DropClient
    <2> QED BY <1>1, <2>1 DEF TypeOK
  <1> QED BY <1>2, <1>3

-----------------------------------------------------------------------------
\* Nothing runs at the start.
LEMMA InitIInv == Init => IInv
  <1> SUFFICES ASSUME Init PROVE IInv
    OBVIOUS
  <1> USE SharedRuntimesAssumption DEF Init
  <1>1. TypeOK
    BY DEF TypeOK, OpenerPc
  <1>2. CountIsExact
    <2>1. \A c \in Cells : Holders(c) = {}
      BY DEF Holders
    <2> QED BY <2>1, FS_EmptySet DEF CountIsExact
  <1> QED
    BY <1>1, <1>2 DEF IInv, LocalsFollowControl, SpawnersAreExclusive, ReservedIsReady,
       SessionsAreOnCurrent, IdleRuntimeHasTimer

\* Every step preserves the types.
LEMMA TypeOKPreserved == ASSUME IInv, Next PROVE TypeOK'
  <1> USE SharedRuntimesAssumption DEF Cells
  <1>1. CASE \E o \in Openers : Begin(o)
    <2>1. PICK o \in Openers : Begin(o)
      BY <1>1
    <2>2. pc' \in [Openers -> OpenerPc]
      BY <2>1 DEF IInv, TypeOK, OpenerPc, Begin, GoTo
    <2>3. opens' \in 0..MaxOpens
      BY <2>1 DEF IInv, TypeOK, Begin
    <2> QED BY <2>1, <2>2, <2>3 DEF IInv, TypeOK, Begin, mapVars, processVars, history
  <1>2. CASE \E o \in Openers : Lookup(o)
    <2>1. PICK o \in Openers : Lookup(o)
      BY <1>2
    <2>2. made' \in 0..MaxCells
      BY <2>1 DEF IInv, TypeOK, Lookup, None
    <2>3. current' \in Cells \cup {None}
      BY <2>1 DEF IInv, TypeOK, Lookup, None
    <2>4. cell' \in [Openers -> Cells \cup {None}]
      BY <2>1 DEF IInv, TypeOK, Lookup, None
    <2>5. pc' \in [Openers -> OpenerPc]
      BY <2>1 DEF IInv, TypeOK, OpenerPc, Lookup, GoTo
    <2> QED BY <2>1, <2>2, <2>3, <2>4, <2>5 DEF IInv, TypeOK, Lookup, processVars, history, bounds
  <1>3. CASE \E o \in Openers : StartSpawn(o)
    <2>1. PICK o \in Openers : StartSpawn(o)
      BY <1>3
    <2>2. cell[o] \in Cells
      BY <2>1 DEF IInv, LocalsFollowControl, StartSpawn
    <2>3. cellState' \in [Cells -> {"empty", "spawning", "ready"}]
      BY <2>1, <2>2 DEF IInv, TypeOK, StartSpawn
    <2>4. pc' \in [Openers -> OpenerPc]
      BY <2>1, <2>2 DEF IInv, TypeOK, OpenerPc, StartSpawn, GoTo
    <2> QED BY <2>1, <2>3, <2>4 DEF IInv, TypeOK, StartSpawn, processVars, history, bounds
  <1>4. CASE \E o \in Openers : SpawnOk(o)
    <2>1. PICK o \in Openers : SpawnOk(o)
      BY <1>4
    <2>2. cell[o] \in Cells
      BY <2>1 DEF IInv, LocalsFollowControl, SpawnOk
    <2>3. cellState' \in [Cells -> {"empty", "spawning", "ready"}]
      BY <2>1, <2>2 DEF IInv, TypeOK, SpawnOk
    <2>4. pc' \in [Openers -> OpenerPc]
      BY <2>1, <2>2 DEF IInv, TypeOK, OpenerPc, SpawnOk, GoTo
    <2> QED BY <2>1, <2>3, <2>4 DEF IInv, TypeOK, SpawnOk, processVars, history, bounds
  <1>5. CASE \E o \in Openers : SpawnErr(o)
    <2>1. PICK o \in Openers : SpawnErr(o)
      BY <1>5
    <2>2. cell[o] \in Cells
      BY <2>1 DEF IInv, LocalsFollowControl, SpawnErr
    <2>3. cellState' \in [Cells -> {"empty", "spawning", "ready"}]
      BY <2>1, <2>2 DEF IInv, TypeOK, SpawnErr
    <2>4. pc' \in [Openers -> OpenerPc]
      BY <2>1, <2>2 DEF IInv, TypeOK, OpenerPc, SpawnErr, GoTo
    <2> QED BY <2>1, <2>3, <2>4 DEF IInv, TypeOK, SpawnErr, processVars, history, bounds
  <1>6. CASE \E o \in Openers : JoinRuntime(o)
    BY <1>6, SMTT(30) DEF IInv, TypeOK, OpenerPc, LocalsFollowControl, None, JoinRuntime, GoTo, mapVars,
       processVars, history, bounds
  <1>7. CASE \E o \in Openers : Reserve(o)
    <2>1. PICK o \in Openers : Reserve(o)
      BY <1>7
    <2>2. cell[o] \in Cells
      BY <2>1 DEF IInv, LocalsFollowControl, Reserve
    <2>3. count' \in [Cells -> Nat]
      BY <2>1, <2>2 DEF IInv, TypeOK, Reserve
    <2>4. used' \in [Cells -> BOOLEAN]
      BY <2>1, <2>2 DEF IInv, TypeOK, Reserve
    <2>5. pc' \in [Openers -> OpenerPc]
      BY <2>1, <2>2 DEF IInv, TypeOK, OpenerPc, Reserve, GoTo
    <2> QED BY <2>1, <2>3, <2>4, <2>5 DEF IInv, TypeOK, Reserve, mapVars, bounds
  <1>8. CASE \E o \in Openers : OpenOk(o)
    BY <1>8 DEF IInv, TypeOK, OpenerPc, LocalsFollowControl, None, OpenOk, GoTo, mapVars,
       processVars, history, bounds
  <1>9. CASE \E o \in Openers : OpenErr(o)
    <2>1. PICK o \in Openers : OpenErr(o)
      BY <1>9
    <2>2. cell[o] \in Cells
      BY <2>1 DEF IInv, LocalsFollowControl, OpenErr
    <2>3. count' \in [Cells -> Nat]
      BY <2>1, <2>2 DEF IInv, TypeOK, OpenErr, Decrement
    <2>4. timers' \in [Cells -> Nat]
      BY <2>1, <2>2, SMTT(30) DEF IInv, TypeOK, OpenErr, Decrement
    <2>5. pc' \in [Openers -> OpenerPc]
      BY <2>1, <2>2 DEF IInv, TypeOK, OpenerPc, OpenErr, GoTo
    <2> QED BY <2>1, <2>3, <2>4, <2>5 DEF IInv, TypeOK, OpenErr, mapVars, history, bounds
  <1>10. CASE \E o \in Openers : Forget(o)
    BY <1>10 DEF IInv, TypeOK, OpenerPc, LocalsFollowControl, None, Forget, GoTo, processVars,
       history, bounds, None
  <1>11. CASE \E o \in Openers : ReplaceRuntime(o)
    BY <1>11 DEF IInv, TypeOK, OpenerPc, LocalsFollowControl, None, ReplaceRuntime, Kill, GoTo,
       mapVars, history, bounds
  <1>12. CASE \E o \in Openers : Dropped(o)
    <2>1. PICK o \in Openers : Dropped(o)
      BY <1>12
    <2>2. cellState' \in [Cells -> {"empty", "spawning", "ready"}]
      BY <2>1 DEF IInv, TypeOK, Dropped, LocalsFollowControl
    <2>3. abandoned' \in [Cells -> Nat]
      <3>1. CASE pc[o] = "open"
        <4>1. cell[o] \in Cells
          BY <2>1, <3>1 DEF IInv, LocalsFollowControl
        <4>2. abandoned' = [abandoned EXCEPT ![cell[o]] = @ + 1]
          BY <2>1, <3>1 DEF Dropped
        <4> QED BY <4>1, <4>2, SMTT(30) DEF IInv, TypeOK
      <3>2. CASE pc[o] # "open"
        BY <2>1, <3>2 DEF IInv, TypeOK, Dropped
      <3> QED BY <3>1, <3>2
    <2>4. pc' \in [Openers -> OpenerPc]
      BY <2>1 DEF IInv, TypeOK, OpenerPc, Dropped, GoTo
    <2> QED BY <2>1, <2>2, <2>3, <2>4 DEF IInv, TypeOK, Dropped, processVars, bounds
  <1>13. CASE \E o \in Openers : CloseOk(o)
    <2>1. PICK o \in Openers : CloseOk(o)
      BY <1>13
    <2>2. cell[o] \in Cells
      BY <2>1 DEF IInv, LocalsFollowControl, CloseOk
    <2>3. count' \in [Cells -> Nat]
      BY <2>1, <2>2 DEF IInv, TypeOK, CloseOk, Decrement
    <2>4. timers' \in [Cells -> Nat]
      BY <2>1, <2>2 DEF IInv, TypeOK, CloseOk, Decrement
    <2>5. hasId' \in [Openers -> BOOLEAN]
      BY <2>1, <2>2 DEF IInv, TypeOK, CloseOk, Decrement
    <2>6. pc' \in [Openers -> OpenerPc]
      BY <2>1, <2>2 DEF IInv, TypeOK, OpenerPc, CloseOk, GoTo
    <2> QED BY <2>1, <2>3, <2>4, <2>5, <2>6 DEF IInv, TypeOK, CloseOk, mapVars, history, bounds
  <1>14. CASE \E o \in Openers : CloseErr(o)
    BY <1>14 DEF IInv, TypeOK, OpenerPc, LocalsFollowControl, None, CloseErr, Kill, mapVars,
       openerVars, history, bounds
  <1>15. CASE \E o \in Openers : DropClient(o)
    <2>1. PICK o \in Openers : DropClient(o)
      BY <1>15
    <2>2. count' \in [Cells -> Nat] /\ timers' \in [Cells -> Nat]
      BY <2>1, DropEffect
    <2>3. hasId' \in [Openers -> BOOLEAN]
      BY <2>1 DEF IInv, TypeOK, DropClient
    <2>4. pc' \in [Openers -> OpenerPc]
      BY <2>1 DEF IInv, TypeOK, OpenerPc, DropClient, GoTo
    <2> QED BY <2>1, <2>2, <2>3, <2>4 DEF IInv, TypeOK, DropClient, mapVars, history, bounds
  <1>16. CASE \E c \in Cells : TimerWakes(c)
    <2>1. PICK c \in Cells : TimerWakes(c)
      BY <1>16
    <2>2. timers' \in [Cells -> Nat]
      BY <2>1, SMTT(30) DEF IInv, TypeOK, TimerWakes
    <2>3. killers' \in [Cells -> Nat]
      BY <2>1, SMTT(30) DEF IInv, TypeOK, TimerWakes
    <2> QED BY <2>1, <2>2, <2>3 DEF IInv, TypeOK, TimerWakes, mapVars, openerVars, history, bounds
  <1>17. CASE \E c \in Cells : TimerKills(c)
    BY <1>17, SMTT(30) DEF IInv, TypeOK, OpenerPc, LocalsFollowControl, None, TimerKills, Kill, mapVars,
       openerVars, history, bounds
  <1>18. CASE \E c \in Cells : RuntimeDies(c)
    BY <1>18 DEF IInv, TypeOK, OpenerPc, LocalsFollowControl, None, RuntimeDies, Kill, mapVars,
       openerVars, history, bounds
  <1>19. CASE \E c \in Cells : KillStopped(c)
    BY <1>19 DEF IInv, TypeOK, OpenerPc, LocalsFollowControl, None, KillStopped, Kill, mapVars,
       openerVars, history, bounds
  <1>20. CASE StopDaemons
    <2>1. StopDaemons
      BY <1>20
    <2>2. stops' \in 0..MaxStops
      BY <2>1 DEF IInv, TypeOK, StopDaemons, None
    <2>3. stopping' \in SUBSET Cells
      BY <2>1 DEF IInv, TypeOK, StopDaemons, None
    <2>4. current' \in Cells \cup {None}
      BY <2>1 DEF IInv, TypeOK, StopDaemons, None
    <2> QED BY <2>1, <2>2, <2>3, <2>4 DEF IInv, TypeOK, StopDaemons, openerVars, history
  <1> QED BY <1>1, <1>2, <1>3, <1>4, <1>5, <1>6, <1>7, <1>8, <1>9, <1>10, <1>11, <1>12, <1>13,
       <1>14, <1>15, <1>16, <1>17, <1>18, <1>19, <1>20 DEF Next, Opening, Closing, Ending

\* Every step keeps cells and session ids in line with the control.
LEMMA LocalsPreserved == ASSUME IInv, Next PROVE LocalsFollowControl'
  <1> USE SharedRuntimesAssumption DEF Cells
  <1>1. CASE \E o \in Openers : Begin(o)
    BY <1>1 DEF IInv, TypeOK, LocalsFollowControl, None, Begin, GoTo, mapVars, processVars, history
  <1>2. CASE \E o \in Openers : Lookup(o)
    BY <1>2 DEF IInv, TypeOK, LocalsFollowControl, None, Lookup, GoTo, processVars, history,
       bounds, None
  <1>3. CASE \E o \in Openers : StartSpawn(o)
    BY <1>3 DEF IInv, TypeOK, LocalsFollowControl, None, StartSpawn, GoTo, processVars, history,
       bounds
  <1>4. CASE \E o \in Openers : SpawnOk(o)
    BY <1>4 DEF IInv, TypeOK, LocalsFollowControl, None, SpawnOk, GoTo, processVars, history, bounds
  <1>5. CASE \E o \in Openers : SpawnErr(o)
    BY <1>5 DEF IInv, TypeOK, LocalsFollowControl, None, SpawnErr, GoTo, processVars, history,
       bounds
  <1>6. CASE \E o \in Openers : JoinRuntime(o)
    BY <1>6 DEF IInv, TypeOK, LocalsFollowControl, None, JoinRuntime, GoTo, mapVars, processVars,
       history, bounds
  <1>7. CASE \E o \in Openers : Reserve(o)
    BY <1>7 DEF IInv, TypeOK, LocalsFollowControl, None, Reserve, GoTo, mapVars, bounds
  <1>8. CASE \E o \in Openers : OpenOk(o)
    BY <1>8 DEF IInv, TypeOK, LocalsFollowControl, None, OpenOk, GoTo, mapVars, processVars,
       history, bounds
  <1>9. CASE \E o \in Openers : OpenErr(o)
    <2>1. PICK o \in Openers : OpenErr(o)
      BY <1>9
    <2>2. \A p \in Openers : cell'[p] = cell[p] /\ hasId'[p] = hasId[p]
      BY <2>1 DEF OpenErr
    <2>3. \A p \in Openers \ {o} : pc'[p] = pc[p]
      BY <2>1 DEF IInv, TypeOK, OpenErr, GoTo
    <2>4. pc[o] = "open" /\ pc'[o] # "session"
      BY <2>1 DEF IInv, TypeOK, OpenErr, GoTo
    <2> QED BY <2>2, <2>3, <2>4 DEF IInv, LocalsFollowControl
  <1>10. CASE \E o \in Openers : Forget(o)
    BY <1>10 DEF IInv, TypeOK, LocalsFollowControl, None, Forget, GoTo, processVars, history,
       bounds, None
  <1>11. CASE \E o \in Openers : ReplaceRuntime(o)
    BY <1>11 DEF IInv, TypeOK, LocalsFollowControl, None, ReplaceRuntime, Kill, GoTo, mapVars,
       history, bounds
  <1>12. CASE \E o \in Openers : Dropped(o)
    BY <1>12, SMTT(30) DEF IInv, TypeOK, LocalsFollowControl, None, Dropped, GoTo, processVars, bounds
  <1>13. CASE \E o \in Openers : CloseOk(o)
    BY <1>13 DEF IInv, TypeOK, LocalsFollowControl, None, CloseOk, Decrement, GoTo, mapVars,
       history, bounds
  <1>14. CASE \E o \in Openers : CloseErr(o)
    BY <1>14 DEF IInv, TypeOK, LocalsFollowControl, None, CloseErr, Kill, mapVars, openerVars,
       history, bounds
  <1>15. CASE \E o \in Openers : DropClient(o)
    BY <1>15 DEF IInv, TypeOK, LocalsFollowControl, None, DropClient, Decrement, GoTo, mapVars,
       history, bounds
  <1>16. CASE \E c \in Cells : TimerWakes(c)
    BY <1>16 DEF IInv, TypeOK, LocalsFollowControl, None, TimerWakes, mapVars, openerVars, history,
       bounds
  <1>17. CASE \E c \in Cells : TimerKills(c)
    BY <1>17 DEF IInv, TypeOK, LocalsFollowControl, None, TimerKills, Kill, mapVars, openerVars,
       history, bounds
  <1>18. CASE \E c \in Cells : RuntimeDies(c)
    BY <1>18 DEF IInv, TypeOK, LocalsFollowControl, None, RuntimeDies, Kill, mapVars, openerVars,
       history, bounds
  <1>19. CASE \E c \in Cells : KillStopped(c)
    BY <1>19 DEF IInv, TypeOK, LocalsFollowControl, None, KillStopped, Kill, mapVars, openerVars,
       history, bounds
  <1>20. CASE StopDaemons
    BY <1>20 DEF IInv, TypeOK, LocalsFollowControl, None, StopDaemons, openerVars, history, None
  <1> QED BY <1>1, <1>2, <1>3, <1>4, <1>5, <1>6, <1>7, <1>8, <1>9, <1>10, <1>11, <1>12, <1>13,
       <1>14, <1>15, <1>16, <1>17, <1>18, <1>19, <1>20 DEF Next, Opening, Closing, Ending

\* A cell is initialised only while it is empty.
LEMMA SpawnersPreserved == ASSUME IInv, Next PROVE SpawnersAreExclusive'
  <1> USE SharedRuntimesAssumption DEF Cells
  <1>1. CASE \E o \in Openers : Begin(o)
    BY <1>1 DEF IInv, TypeOK, LocalsFollowControl, SpawnersAreExclusive, Begin, GoTo, mapVars,
       processVars, history
  <1>2. CASE \E o \in Openers : Lookup(o)
    BY <1>2 DEF IInv, TypeOK, LocalsFollowControl, SpawnersAreExclusive, Lookup, GoTo, processVars,
       history, bounds, None
  <1>3. CASE \E o \in Openers : StartSpawn(o)
    BY <1>3 DEF IInv, TypeOK, LocalsFollowControl, SpawnersAreExclusive, StartSpawn, GoTo,
       processVars, history, bounds
  <1>4. CASE \E o \in Openers : SpawnOk(o)
    BY <1>4 DEF IInv, TypeOK, LocalsFollowControl, SpawnersAreExclusive, SpawnOk, GoTo,
       processVars, history, bounds
  <1>5. CASE \E o \in Openers : SpawnErr(o)
    BY <1>5 DEF IInv, TypeOK, LocalsFollowControl, SpawnersAreExclusive, SpawnErr, GoTo,
       processVars, history, bounds
  <1>6. CASE \E o \in Openers : JoinRuntime(o)
    BY <1>6 DEF IInv, TypeOK, LocalsFollowControl, SpawnersAreExclusive, JoinRuntime, GoTo,
       mapVars, processVars, history, bounds
  <1>7. CASE \E o \in Openers : Reserve(o)
    BY <1>7 DEF IInv, TypeOK, LocalsFollowControl, SpawnersAreExclusive, Reserve, GoTo, mapVars,
       bounds
  <1>8. CASE \E o \in Openers : OpenOk(o)
    BY <1>8 DEF IInv, TypeOK, LocalsFollowControl, SpawnersAreExclusive, OpenOk, GoTo, mapVars,
       processVars, history, bounds
  <1>9. CASE \E o \in Openers : OpenErr(o)
    BY <1>9 DEF IInv, TypeOK, LocalsFollowControl, SpawnersAreExclusive, OpenErr, Decrement, GoTo,
       mapVars, history, bounds
  <1>10. CASE \E o \in Openers : Forget(o)
    BY <1>10 DEF IInv, TypeOK, LocalsFollowControl, SpawnersAreExclusive, Forget, GoTo,
       processVars, history, bounds, None
  <1>11. CASE \E o \in Openers : ReplaceRuntime(o)
    BY <1>11 DEF IInv, TypeOK, LocalsFollowControl, SpawnersAreExclusive, ReplaceRuntime, Kill,
       GoTo, mapVars, history, bounds
  <1>12. CASE \E o \in Openers : Dropped(o)
    BY <1>12, SMTT(30) DEF IInv, TypeOK, LocalsFollowControl, SpawnersAreExclusive, Dropped, GoTo,
       processVars, bounds
  <1>13. CASE \E o \in Openers : CloseOk(o)
    BY <1>13 DEF IInv, TypeOK, LocalsFollowControl, SpawnersAreExclusive, CloseOk, Decrement, GoTo,
       mapVars, history, bounds
  <1>14. CASE \E o \in Openers : CloseErr(o)
    BY <1>14 DEF IInv, TypeOK, LocalsFollowControl, SpawnersAreExclusive, CloseErr, Kill, mapVars,
       openerVars, history, bounds
  <1>15. CASE \E o \in Openers : DropClient(o)
    BY <1>15 DEF IInv, TypeOK, LocalsFollowControl, SpawnersAreExclusive, DropClient, Decrement,
       GoTo, mapVars, history, bounds
  <1>16. CASE \E c \in Cells : TimerWakes(c)
    BY <1>16 DEF IInv, TypeOK, LocalsFollowControl, SpawnersAreExclusive, TimerWakes, mapVars,
       openerVars, history, bounds
  <1>17. CASE \E c \in Cells : TimerKills(c)
    BY <1>17 DEF IInv, TypeOK, LocalsFollowControl, SpawnersAreExclusive, TimerKills, Kill,
       mapVars, openerVars, history, bounds
  <1>18. CASE \E c \in Cells : RuntimeDies(c)
    BY <1>18 DEF IInv, TypeOK, LocalsFollowControl, SpawnersAreExclusive, RuntimeDies, Kill,
       mapVars, openerVars, history, bounds
  <1>19. CASE \E c \in Cells : KillStopped(c)
    BY <1>19 DEF IInv, TypeOK, LocalsFollowControl, SpawnersAreExclusive, KillStopped, Kill,
       mapVars, openerVars, history, bounds
  <1>20. CASE StopDaemons
    BY <1>20 DEF IInv, TypeOK, LocalsFollowControl, SpawnersAreExclusive, StopDaemons, openerVars,
       history, None
  <1> QED BY <1>1, <1>2, <1>3, <1>4, <1>5, <1>6, <1>7, <1>8, <1>9, <1>10, <1>11, <1>12, <1>13,
       <1>14, <1>15, <1>16, <1>17, <1>18, <1>19, <1>20 DEF Next, Opening, Closing, Ending

\* A filled cell stays filled.
LEMMA ReadyPreserved == ASSUME IInv, Next PROVE ReservedIsReady'
  <1> USE SharedRuntimesAssumption DEF Cells
  <1>1. CASE \E o \in Openers : Begin(o)
    BY <1>1 DEF IInv, TypeOK, LocalsFollowControl, SpawnersAreExclusive, ReservedIsReady, Begin,
       GoTo, mapVars, processVars, history
  <1>2. CASE \E o \in Openers : Lookup(o)
    BY <1>2 DEF IInv, TypeOK, LocalsFollowControl, SpawnersAreExclusive, ReservedIsReady, Lookup,
       GoTo, processVars, history, bounds, None
  <1>3. CASE \E o \in Openers : StartSpawn(o)
    <2>1. PICK o \in Openers : StartSpawn(o)
      BY <1>3
    <2>2. cell[o] \in Cells /\ cellState[cell[o]] = "empty" /\ cell' = cell /\ count' = count
      BY <2>1 DEF IInv, LocalsFollowControl, StartSpawn, processVars
    <2>3. \A c \in Cells : cellState[c] = "ready" => cellState'[c] = "ready"
      BY <2>1, <2>2 DEF IInv, TypeOK, StartSpawn
    <2>4. \A p \in Openers : pc'[p] = "reserve" => pc[p] = "reserve" /\ cell[p] \in Cells
      BY <2>1 DEF IInv, TypeOK, LocalsFollowControl, StartSpawn, GoTo
    <2> QED BY <2>2, <2>3, <2>4 DEF IInv, ReservedIsReady
  <1>4. CASE \E o \in Openers : SpawnOk(o)
    <2>1. PICK o \in Openers : SpawnOk(o)
      BY <1>4
    <2>2. cell[o] \in Cells /\ cell' = cell /\ count' = count
      BY <2>1 DEF IInv, LocalsFollowControl, SpawnOk, processVars
    <2>3. \A c \in Cells : cellState[c] = "ready" \/ c = cell[o] => cellState'[c] = "ready"
      BY <2>1, <2>2 DEF IInv, TypeOK, SpawnOk
    <2>4. \A p \in Openers : pc'[p] = "reserve" => (pc[p] = "reserve" \/ p = o) /\ cell[p] \in Cells
      BY <2>1, <2>2 DEF IInv, TypeOK, LocalsFollowControl, SpawnOk, GoTo
    <2> QED BY <2>2, <2>3, <2>4 DEF IInv, ReservedIsReady
  <1>5. CASE \E o \in Openers : SpawnErr(o)
    BY <1>5 DEF IInv, TypeOK, LocalsFollowControl, SpawnersAreExclusive, ReservedIsReady, SpawnErr,
       GoTo, processVars, history, bounds
  <1>6. CASE \E o \in Openers : JoinRuntime(o)
    BY <1>6 DEF IInv, TypeOK, LocalsFollowControl, SpawnersAreExclusive, ReservedIsReady,
       JoinRuntime, GoTo, mapVars, processVars, history, bounds
  <1>7. CASE \E o \in Openers : Reserve(o)
    BY <1>7 DEF IInv, TypeOK, LocalsFollowControl, SpawnersAreExclusive, ReservedIsReady, Reserve,
       GoTo, mapVars, bounds
  <1>8. CASE \E o \in Openers : OpenOk(o)
    BY <1>8 DEF IInv, TypeOK, LocalsFollowControl, SpawnersAreExclusive, ReservedIsReady, OpenOk,
       GoTo, mapVars, processVars, history, bounds
  <1>9. CASE \E o \in Openers : OpenErr(o)
    <2>1. PICK o \in Openers : OpenErr(o)
      BY <1>9
    <2>2. \A c \in Cells : count'[c] <= count[c] /\ count'[c] \in Nat
      BY <2>1 DEF IInv, TypeOK, LocalsFollowControl, OpenErr, Decrement
    <2>3. cellState' = cellState /\ cell' = cell
      BY <2>1 DEF OpenErr, mapVars
    <2>4. \A p \in Openers : pc'[p] = "reserve" => pc[p] = "reserve"
      BY <2>1 DEF IInv, TypeOK, OpenErr, GoTo
    <2> QED BY <2>2, <2>3, <2>4, SMTT(30) DEF IInv, TypeOK, ReservedIsReady
  <1>10. CASE \E o \in Openers : Forget(o)
    BY <1>10 DEF IInv, TypeOK, LocalsFollowControl, SpawnersAreExclusive, ReservedIsReady, Forget,
       GoTo, processVars, history, bounds, None
  <1>11. CASE \E o \in Openers : ReplaceRuntime(o)
    BY <1>11 DEF IInv, TypeOK, LocalsFollowControl, SpawnersAreExclusive, ReservedIsReady,
       ReplaceRuntime, Kill, GoTo, mapVars, history, bounds
  <1>12. CASE \E o \in Openers : Dropped(o)
    <2>1. PICK o \in Openers : Dropped(o)
      BY <1>12
    <2>2. cell' = cell /\ count' = count
      BY <2>1 DEF Dropped, processVars
    <2>3. \A c \in Cells : cellState[c] = "ready" => cellState'[c] = "ready"
      <3>1. CASE pc[o] = "spawn"
        BY <2>1, <3>1 DEF IInv, TypeOK, LocalsFollowControl, SpawnersAreExclusive, Dropped
      <3>2. CASE pc[o] # "spawn"
        BY <2>1, <3>2 DEF Dropped
      <3> QED BY <3>1, <3>2
    <2>4. \A p \in Openers : pc'[p] = "reserve" => pc[p] = "reserve" /\ cell[p] \in Cells
      BY <2>1 DEF IInv, TypeOK, LocalsFollowControl, Dropped, GoTo
    <2> QED BY <2>2, <2>3, <2>4 DEF IInv, ReservedIsReady
  <1>13. CASE \E o \in Openers : CloseOk(o)
    BY <1>13, SMTT(30) DEF IInv, TypeOK, LocalsFollowControl, SpawnersAreExclusive, ReservedIsReady, CloseOk,
       Decrement, GoTo, mapVars, history, bounds
  <1>14. CASE \E o \in Openers : CloseErr(o)
    BY <1>14 DEF IInv, TypeOK, LocalsFollowControl, SpawnersAreExclusive, ReservedIsReady,
       CloseErr, Kill, mapVars, openerVars, history, bounds
  <1>15. CASE \E o \in Openers : DropClient(o)
    <2>1. PICK o \in Openers : DropClient(o)
      BY <1>15
    <2>2. \A c \in Cells : count'[c] <= count[c] /\ count'[c] \in Nat
      BY <2>1, DropEffect
    <2>3. cellState' = cellState /\ cell' = cell
      BY <2>1 DEF DropClient, mapVars
    <2>4. \A p \in Openers : pc'[p] = "reserve" => pc[p] = "reserve"
      BY <2>1 DEF IInv, TypeOK, DropClient, GoTo
    <2> QED BY <2>2, <2>3, <2>4, SMTT(30) DEF IInv, TypeOK, ReservedIsReady
  <1>16. CASE \E c \in Cells : TimerWakes(c)
    BY <1>16 DEF IInv, TypeOK, LocalsFollowControl, SpawnersAreExclusive, ReservedIsReady,
       TimerWakes, mapVars, openerVars, history, bounds
  <1>17. CASE \E c \in Cells : TimerKills(c)
    BY <1>17 DEF IInv, TypeOK, LocalsFollowControl, SpawnersAreExclusive, ReservedIsReady,
       TimerKills, Kill, mapVars, openerVars, history, bounds
  <1>18. CASE \E c \in Cells : RuntimeDies(c)
    BY <1>18 DEF IInv, TypeOK, LocalsFollowControl, SpawnersAreExclusive, ReservedIsReady,
       RuntimeDies, Kill, mapVars, openerVars, history, bounds
  <1>19. CASE \E c \in Cells : KillStopped(c)
    BY <1>19 DEF IInv, TypeOK, LocalsFollowControl, SpawnersAreExclusive, ReservedIsReady,
       KillStopped, Kill, mapVars, openerVars, history, bounds
  <1>20. CASE StopDaemons
    BY <1>20 DEF IInv, TypeOK, LocalsFollowControl, SpawnersAreExclusive, ReservedIsReady,
       StopDaemons, openerVars, history, None
  <1> QED BY <1>1, <1>2, <1>3, <1>4, <1>5, <1>6, <1>7, <1>8, <1>9, <1>10, <1>11, <1>12, <1>13,
       <1>14, <1>15, <1>16, <1>17, <1>18, <1>19, <1>20 DEF Next, Opening, Closing, Ending

\* Only an unused, failed or stopped runtime leaves the map.
LEMMA CurrentPreserved == ASSUME IInv, Next PROVE SessionsAreOnCurrent'
  <1> USE SharedRuntimesAssumption DEF Cells
  <1>1. CASE \E o \in Openers : Begin(o)
    BY <1>1 DEF IInv, TypeOK, LocalsFollowControl, ReservedIsReady, SessionsAreOnCurrent, Begin,
       GoTo, mapVars, processVars, history
  <1>2. CASE \E o \in Openers : Lookup(o)
    BY <1>2 DEF IInv, TypeOK, LocalsFollowControl, ReservedIsReady, SessionsAreOnCurrent, Lookup,
       GoTo, processVars, history, bounds, None
  <1>3. CASE \E o \in Openers : StartSpawn(o)
    BY <1>3 DEF IInv, TypeOK, LocalsFollowControl, ReservedIsReady, SessionsAreOnCurrent,
       StartSpawn, GoTo, processVars, history, bounds
  <1>4. CASE \E o \in Openers : SpawnOk(o)
    BY <1>4 DEF IInv, TypeOK, LocalsFollowControl, ReservedIsReady, SessionsAreOnCurrent, SpawnOk,
       GoTo, processVars, history, bounds
  <1>5. CASE \E o \in Openers : SpawnErr(o)
    BY <1>5 DEF IInv, TypeOK, LocalsFollowControl, ReservedIsReady, SessionsAreOnCurrent, SpawnErr,
       GoTo, processVars, history, bounds
  <1>6. CASE \E o \in Openers : JoinRuntime(o)
    BY <1>6 DEF IInv, TypeOK, LocalsFollowControl, ReservedIsReady, SessionsAreOnCurrent,
       JoinRuntime, GoTo, mapVars, processVars, history, bounds
  <1>7. CASE \E o \in Openers : Reserve(o)
    BY <1>7 DEF IInv, TypeOK, LocalsFollowControl, ReservedIsReady, SessionsAreOnCurrent, Reserve,
       GoTo, mapVars, bounds
  <1>8. CASE \E o \in Openers : OpenOk(o)
    BY <1>8 DEF IInv, TypeOK, LocalsFollowControl, ReservedIsReady, SessionsAreOnCurrent, OpenOk,
       GoTo, mapVars, processVars, history, bounds
  <1>9. CASE \E o \in Openers : OpenErr(o)
    BY <1>9 DEF IInv, TypeOK, LocalsFollowControl, ReservedIsReady, SessionsAreOnCurrent, OpenErr,
       Decrement, GoTo, mapVars, history, bounds
  <1>10. CASE \E o \in Openers : Forget(o)
    BY <1>10 DEF IInv, TypeOK, LocalsFollowControl, ReservedIsReady, SessionsAreOnCurrent, Forget,
       GoTo, processVars, history, bounds, None
  <1>11. CASE \E o \in Openers : ReplaceRuntime(o)
    BY <1>11 DEF IInv, TypeOK, LocalsFollowControl, ReservedIsReady, SessionsAreOnCurrent,
       ReplaceRuntime, Kill, GoTo, mapVars, history, bounds
  <1>12. CASE \E o \in Openers : Dropped(o)
    BY <1>12 DEF IInv, TypeOK, LocalsFollowControl, ReservedIsReady, SessionsAreOnCurrent, Dropped,
       GoTo, processVars, bounds
  <1>13. CASE \E o \in Openers : CloseOk(o)
    BY <1>13 DEF IInv, TypeOK, LocalsFollowControl, ReservedIsReady, SessionsAreOnCurrent, CloseOk,
       Decrement, GoTo, mapVars, history, bounds
  <1>14. CASE \E o \in Openers : CloseErr(o)
    BY <1>14 DEF IInv, TypeOK, LocalsFollowControl, ReservedIsReady, SessionsAreOnCurrent,
       CloseErr, Kill, mapVars, openerVars, history, bounds
  <1>15. CASE \E o \in Openers : DropClient(o)
    <2>1. PICK o \in Openers : DropClient(o)
      BY <1>15
    <2>2. current' = current /\ failed' = failed /\ stopping' = stopping
      BY <2>1 DEF DropClient, mapVars
    <2>3. \A c \in Cells : count'[c] <= count[c] /\ count'[c] \in Nat
      BY <2>1, DropEffect
    <2> QED BY <2>2, <2>3 DEF IInv, TypeOK, SessionsAreOnCurrent
  <1>16. CASE \E c \in Cells : TimerWakes(c)
    BY <1>16 DEF IInv, TypeOK, LocalsFollowControl, ReservedIsReady, SessionsAreOnCurrent,
       TimerWakes, mapVars, openerVars, history, bounds
  <1>17. CASE \E c \in Cells : TimerKills(c)
    BY <1>17 DEF IInv, TypeOK, LocalsFollowControl, ReservedIsReady, SessionsAreOnCurrent,
       TimerKills, Kill, mapVars, openerVars, history, bounds
  <1>18. CASE \E c \in Cells : RuntimeDies(c)
    BY <1>18 DEF IInv, TypeOK, LocalsFollowControl, ReservedIsReady, SessionsAreOnCurrent,
       RuntimeDies, Kill, mapVars, openerVars, history, bounds
  <1>19. CASE \E c \in Cells : KillStopped(c)
    BY <1>19 DEF IInv, TypeOK, LocalsFollowControl, ReservedIsReady, SessionsAreOnCurrent,
       KillStopped, Kill, mapVars, openerVars, history, bounds
  <1>20. CASE StopDaemons
    BY <1>20 DEF IInv, TypeOK, LocalsFollowControl, ReservedIsReady, SessionsAreOnCurrent,
       StopDaemons, openerVars, history, None
  <1> QED BY <1>1, <1>2, <1>3, <1>4, <1>5, <1>6, <1>7, <1>8, <1>9, <1>10, <1>11, <1>12, <1>13,
       <1>14, <1>15, <1>16, <1>17, <1>18, <1>19, <1>20 DEF Next, Opening, Closing, Ending

\* Whoever gives the last place back starts a timer.
LEMMA TimerPreserved == ASSUME IInv, Next PROVE IdleRuntimeHasTimer'
  <1> USE SharedRuntimesAssumption DEF Cells
  <1>1. CASE \E o \in Openers : Begin(o)
    BY <1>1 DEF IInv, TypeOK, LocalsFollowControl, IdleRuntimeHasTimer, Begin, GoTo, mapVars,
       processVars, history
  <1>2. CASE \E o \in Openers : Lookup(o)
    BY <1>2 DEF IInv, TypeOK, LocalsFollowControl, IdleRuntimeHasTimer, Lookup, GoTo, processVars,
       history, bounds, None
  <1>3. CASE \E o \in Openers : StartSpawn(o)
    BY <1>3 DEF IInv, TypeOK, LocalsFollowControl, IdleRuntimeHasTimer, StartSpawn, GoTo,
       processVars, history, bounds
  <1>4. CASE \E o \in Openers : SpawnOk(o)
    BY <1>4 DEF IInv, TypeOK, LocalsFollowControl, IdleRuntimeHasTimer, SpawnOk, GoTo, processVars,
       history, bounds
  <1>5. CASE \E o \in Openers : SpawnErr(o)
    BY <1>5 DEF IInv, TypeOK, LocalsFollowControl, IdleRuntimeHasTimer, SpawnErr, GoTo,
       processVars, history, bounds
  <1>6. CASE \E o \in Openers : JoinRuntime(o)
    BY <1>6 DEF IInv, TypeOK, LocalsFollowControl, IdleRuntimeHasTimer, JoinRuntime, GoTo, mapVars,
       processVars, history, bounds
  <1>7. CASE \E o \in Openers : Reserve(o)
    BY <1>7 DEF IInv, TypeOK, LocalsFollowControl, IdleRuntimeHasTimer, Reserve, GoTo, mapVars,
       bounds
  <1>8. CASE \E o \in Openers : OpenOk(o)
    BY <1>8 DEF IInv, TypeOK, LocalsFollowControl, IdleRuntimeHasTimer, OpenOk, GoTo, mapVars,
       processVars, history, bounds
  <1>9. CASE \E o \in Openers : OpenErr(o)
    BY <1>9, SMTT(30) DEF IInv, TypeOK, LocalsFollowControl, IdleRuntimeHasTimer, OpenErr, Decrement, GoTo,
       mapVars, history, bounds
  <1>10. CASE \E o \in Openers : Forget(o)
    BY <1>10 DEF IInv, TypeOK, LocalsFollowControl, IdleRuntimeHasTimer, Forget, GoTo, processVars,
       history, bounds, None
  <1>11. CASE \E o \in Openers : ReplaceRuntime(o)
    BY <1>11 DEF IInv, TypeOK, LocalsFollowControl, IdleRuntimeHasTimer, ReplaceRuntime, Kill,
       GoTo, mapVars, history, bounds
  <1>12. CASE \E o \in Openers : Dropped(o)
    BY <1>12 DEF IInv, TypeOK, LocalsFollowControl, IdleRuntimeHasTimer, Dropped, GoTo,
       processVars, bounds
  <1>13. CASE \E o \in Openers : CloseOk(o)
    BY <1>13, SMTT(30) DEF IInv, TypeOK, LocalsFollowControl, IdleRuntimeHasTimer, CloseOk, Decrement, GoTo,
       mapVars, history, bounds
  <1>14. CASE \E o \in Openers : CloseErr(o)
    BY <1>14 DEF IInv, TypeOK, LocalsFollowControl, IdleRuntimeHasTimer, CloseErr, Kill, mapVars,
       openerVars, history, bounds
  <1>15. CASE \E o \in Openers : DropClient(o)
    <2>1. PICK o \in Openers : DropClient(o)
      BY <1>15
    <2>2. used' = used /\ failed' = failed /\ killers' = killers
      BY <2>1 DEF DropClient, history
    <2>3. /\ \A c \in Cells : timers'[c] \in Nat /\ timers'[c] >= timers[c]
          /\ \A c \in Cells : count'[c] = 0 => count[c] = 0 \/ timers'[c] > 0
      BY <2>1, DropEffect
    <2> SUFFICES ASSUME NEW c \in Cells
        PROVE  used'[c] /\ count'[c] = 0 /\ ~failed'[c] => timers'[c] + killers'[c] > 0
      BY DEF IdleRuntimeHasTimer
    <2>4. killers'[c] \in Nat /\ timers[c] \in Nat /\ killers'[c] = killers[c]
      BY <2>2 DEF IInv, TypeOK
    <2>5. CASE count[c] = 0
      <3>1. used[c] /\ ~failed[c] => timers[c] + killers[c] > 0
        BY <2>5, Zenon DEF IInv, IdleRuntimeHasTimer
      <3>2. used'[c] /\ ~failed'[c] => timers[c] + killers[c] > 0
        BY <2>2, <3>1, Zenon
      <3>3. timers[c] + killers[c] > 0 => timers'[c] + killers'[c] > 0
        BY <2>3, <2>4
      <3> QED BY <3>2, <3>3, Zenon
    <2>6. CASE count[c] # 0
      <3>1. count'[c] = 0 => timers'[c] + killers'[c] > 0
        BY <2>3, <2>4, <2>6
      <3> QED BY <3>1, Zenon
    <2> QED BY <2>5, <2>6
  <1>16. CASE \E c \in Cells : TimerWakes(c)
    BY <1>16 DEF IInv, TypeOK, LocalsFollowControl, IdleRuntimeHasTimer, TimerWakes, mapVars,
       openerVars, history, bounds
  <1>17. CASE \E c \in Cells : TimerKills(c)
    BY <1>17 DEF IInv, TypeOK, LocalsFollowControl, IdleRuntimeHasTimer, TimerKills, Kill, mapVars,
       openerVars, history, bounds
  <1>18. CASE \E c \in Cells : RuntimeDies(c)
    BY <1>18 DEF IInv, TypeOK, LocalsFollowControl, IdleRuntimeHasTimer, RuntimeDies, Kill,
       mapVars, openerVars, history, bounds
  <1>19. CASE \E c \in Cells : KillStopped(c)
    BY <1>19 DEF IInv, TypeOK, LocalsFollowControl, IdleRuntimeHasTimer, KillStopped, Kill,
       mapVars, openerVars, history, bounds
  <1>20. CASE StopDaemons
    BY <1>20 DEF IInv, TypeOK, LocalsFollowControl, IdleRuntimeHasTimer, StopDaemons, openerVars,
       history, None
  <1> QED BY <1>1, <1>2, <1>3, <1>4, <1>5, <1>6, <1>7, <1>8, <1>9, <1>10, <1>11, <1>12, <1>13,
       <1>14, <1>15, <1>16, <1>17, <1>18, <1>19, <1>20 DEF Next, Opening, Closing, Ending

\* Places are taken and given back one at a time.
LEMMA CountPreserved == ASSUME IInv, Next PROVE CountIsExact'
  <1> USE SharedRuntimesAssumption DEF Cells
  <1>1. CASE \E o \in Openers : Begin(o)
    <2>1. \A c \in Cells : Holders(c)' = Holders(c)
      BY <1>1 DEF IInv, TypeOK, LocalsFollowControl, Holders, Begin, GoTo, mapVars, processVars,
       history
    <2>2. count' = count /\ abandoned' = abandoned
      BY <1>1 DEF Begin, GoTo, mapVars, processVars, history
    <2> QED BY <2>1, <2>2 DEF IInv, CountIsExact
  <1>2. CASE \E o \in Openers : Lookup(o)
    <2>1. \A c \in Cells : Holders(c)' = Holders(c)
      BY <1>2 DEF IInv, TypeOK, LocalsFollowControl, Holders, Lookup, GoTo, processVars, history,
       bounds, None
    <2>2. count' = count /\ abandoned' = abandoned
      BY <1>2 DEF Lookup, GoTo, processVars, history, bounds, None
    <2> QED BY <2>1, <2>2 DEF IInv, CountIsExact
  <1>3. CASE \E o \in Openers : StartSpawn(o)
    <2>1. \A c \in Cells : Holders(c)' = Holders(c)
      BY <1>3 DEF IInv, TypeOK, LocalsFollowControl, Holders, StartSpawn, GoTo, processVars,
       history, bounds
    <2>2. count' = count /\ abandoned' = abandoned
      BY <1>3 DEF StartSpawn, GoTo, processVars, history, bounds
    <2> QED BY <2>1, <2>2 DEF IInv, CountIsExact
  <1>4. CASE \E o \in Openers : SpawnOk(o)
    <2>1. \A c \in Cells : Holders(c)' = Holders(c)
      BY <1>4 DEF IInv, TypeOK, LocalsFollowControl, Holders, SpawnOk, GoTo, processVars, history,
       bounds
    <2>2. count' = count /\ abandoned' = abandoned
      BY <1>4 DEF SpawnOk, GoTo, processVars, history, bounds
    <2> QED BY <2>1, <2>2 DEF IInv, CountIsExact
  <1>5. CASE \E o \in Openers : SpawnErr(o)
    <2>1. \A c \in Cells : Holders(c)' = Holders(c)
      BY <1>5 DEF IInv, TypeOK, LocalsFollowControl, Holders, SpawnErr, GoTo, processVars, history,
       bounds
    <2>2. count' = count /\ abandoned' = abandoned
      BY <1>5 DEF SpawnErr, GoTo, processVars, history, bounds
    <2> QED BY <2>1, <2>2 DEF IInv, CountIsExact
  <1>6. CASE \E o \in Openers : JoinRuntime(o)
    <2>1. \A c \in Cells : Holders(c)' = Holders(c)
      BY <1>6 DEF IInv, TypeOK, LocalsFollowControl, Holders, JoinRuntime, GoTo, mapVars,
       processVars, history, bounds
    <2>2. count' = count /\ abandoned' = abandoned
      BY <1>6 DEF JoinRuntime, GoTo, mapVars, processVars, history, bounds
    <2> QED BY <2>1, <2>2 DEF IInv, CountIsExact
  <1>7. CASE \E o \in Openers : Reserve(o)
    <2>1. PICK o \in Openers : Reserve(o)
      BY <1>7
    <2>2. CASE current = cell[o] /\ ~failed[cell[o]]
      <3>1. PICK r \in Cells : r = cell[o] /\ o \notin Holders(r)
        BY <2>1 DEF IInv, TypeOK, LocalsFollowControl, Holders, Reserve
      <3>2. Holders(r)' = Holders(r) \cup {o}
        BY <2>1, <2>2, <3>1 DEF IInv, TypeOK, LocalsFollowControl, Holders, Reserve, GoTo
      <3>3. \A c \in Cells \ {r} : Holders(c)' = Holders(c) /\ count'[c] = count[c]
        BY <2>1, <2>2, <3>1, SMTT(30) DEF IInv, TypeOK, LocalsFollowControl, Holders, Reserve, GoTo
      <3>4. count'[r] = count[r] + 1 /\ abandoned' = abandoned
        BY <2>1, <2>2, <3>1 DEF IInv, TypeOK, Reserve
      <3>5. Cardinality(Holders(r)') = Cardinality(Holders(r)) + 1
        BY <3>1, <3>2, HolderJoins
      <3>6. Cardinality(Holders(r)) \in Nat
        BY HoldersFinite
      <3> SUFFICES ASSUME NEW c \in Cells
          PROVE  count'[c] = Cardinality(Holders(c)') + abandoned'[c]
        BY DEF CountIsExact
      <3>a. count[c] = Cardinality(Holders(c)) + abandoned[c] /\ count[c] \in Nat /\ abandoned[c] \in Nat
        BY DEF IInv, TypeOK, CountIsExact
      <3>b. CASE c = r
        BY <3>a, <3>b, <3>1, <3>3, <3>4, <3>5, <3>6
      <3>c. CASE c # r
        BY <3>a, <3>c, <3>1, <3>3, <3>4, <3>5, <3>6
      <3> QED BY <3>b, <3>c
    <2>3. CASE ~(current = cell[o] /\ ~failed[cell[o]])
      <3>1. \A c \in Cells : Holders(c)' = Holders(c)
        BY <2>1, <2>3 DEF IInv, TypeOK, LocalsFollowControl, Holders, Reserve, GoTo
      <3>2. \A c \in Cells : count'[c] = count[c] /\ abandoned'[c] = abandoned[c]
        BY <2>1, <2>3 DEF IInv, TypeOK, Reserve
      <3> QED BY <3>1, <3>2 DEF IInv, CountIsExact
    <2> QED BY <2>2, <2>3
  <1>8. CASE \E o \in Openers : OpenOk(o)
    <2>1. \A c \in Cells : Holders(c)' = Holders(c)
      BY <1>8 DEF IInv, TypeOK, LocalsFollowControl, Holders, OpenOk, GoTo, mapVars, processVars,
       history, bounds
    <2>2. count' = count /\ abandoned' = abandoned
      BY <1>8 DEF OpenOk, GoTo, mapVars, processVars, history, bounds
    <2> QED BY <2>1, <2>2 DEF IInv, CountIsExact
  <1>9. CASE \E o \in Openers : OpenErr(o)
    <2>1. PICK o \in Openers : OpenErr(o)
      BY <1>9
    <2>2. PICK r \in Cells : r = cell[o] /\ o \in Holders(r)
      BY <2>1 DEF IInv, TypeOK, LocalsFollowControl, Holders, OpenErr
    <2>3. Holders(r)' = Holders(r) \ {o}
      BY <2>1, <2>2 DEF IInv, TypeOK, LocalsFollowControl, Holders, OpenErr, GoTo, mapVars,
       history, bounds
    <2>4. \A c \in Cells \ {r} : Holders(c)' = Holders(c) /\ count'[c] = count[c]
      BY <2>1, <2>2 DEF IInv, TypeOK, LocalsFollowControl, Holders, OpenErr, Decrement, GoTo,
       mapVars, history, bounds
    <2>5. count'[r] = IF count[r] = 0 THEN 0 ELSE count[r] - 1
      BY <2>1, <2>2 DEF IInv, TypeOK, OpenErr, Decrement, GoTo, mapVars, history, bounds
    <2>6. abandoned' = abandoned
      BY <2>1 DEF OpenErr, Decrement, GoTo, mapVars, history, bounds
    <2>7. /\ Cardinality(Holders(r)') = Cardinality(Holders(r)) - 1
          /\ Cardinality(Holders(r)) > 0
      BY <2>2, <2>3, HolderLeaves
    <2>8. Cardinality(Holders(r)) \in Nat
      BY HoldersFinite
    <2> SUFFICES ASSUME NEW c \in Cells
        PROVE  count'[c] = Cardinality(Holders(c)') + abandoned'[c]
      BY DEF CountIsExact
    <2>a. count[c] = Cardinality(Holders(c)) + abandoned[c] /\ count[c] \in Nat /\ abandoned[c] \in Nat
      BY DEF IInv, TypeOK, CountIsExact
    <2>b. CASE c = r
      BY <2>a, <2>b, <2>2, <2>4, <2>5, <2>6, <2>7, <2>8
    <2>c. CASE c # r
      BY <2>a, <2>c, <2>2, <2>4, <2>5, <2>6, <2>7, <2>8
    <2> QED BY <2>b, <2>c
  <1>10. CASE \E o \in Openers : Forget(o)
    <2>1. \A c \in Cells : Holders(c)' = Holders(c)
      BY <1>10 DEF IInv, TypeOK, LocalsFollowControl, Holders, Forget, GoTo, processVars, history,
       bounds, None
    <2>2. count' = count /\ abandoned' = abandoned
      BY <1>10 DEF Forget, GoTo, processVars, history, bounds, None
    <2> QED BY <2>1, <2>2 DEF IInv, CountIsExact
  <1>11. CASE \E o \in Openers : ReplaceRuntime(o)
    <2>1. \A c \in Cells : Holders(c)' = Holders(c)
      BY <1>11 DEF IInv, TypeOK, LocalsFollowControl, Holders, ReplaceRuntime, Kill, GoTo, mapVars,
       history, bounds
    <2>2. count' = count /\ abandoned' = abandoned
      BY <1>11 DEF ReplaceRuntime, Kill, GoTo, mapVars, history, bounds
    <2> QED BY <2>1, <2>2 DEF IInv, CountIsExact
  <1>12. CASE \E o \in Openers : Dropped(o)
    <2>1. PICK o \in Openers : Dropped(o)
      BY <1>12
    <2>2. CASE pc[o] = "open"
      <3>1. PICK r \in Cells : r = cell[o] /\ o \in Holders(r)
        BY <2>1, <2>2 DEF IInv, TypeOK, LocalsFollowControl, Holders
      <3>2. Holders(r)' = Holders(r) \ {o}
        BY <2>1, <2>2, <3>1 DEF IInv, TypeOK, LocalsFollowControl, Holders, Dropped, GoTo
      <3>3. \A c \in Cells \ {r} : Holders(c)' = Holders(c) /\ abandoned'[c] = abandoned[c]
        BY <2>1, <2>2, <3>1 DEF IInv, TypeOK, LocalsFollowControl, Holders, Dropped, GoTo
      <3>4. abandoned'[r] = abandoned[r] + 1 /\ count' = count
        BY <2>1, <2>2, <3>1 DEF IInv, TypeOK, Dropped, processVars
      <3>5. Cardinality(Holders(r)') = Cardinality(Holders(r)) - 1
        BY <3>1, <3>2, HolderLeaves
      <3>6. Cardinality(Holders(r)) \in Nat
        BY HoldersFinite
      <3> SUFFICES ASSUME NEW c \in Cells
          PROVE  count'[c] = Cardinality(Holders(c)') + abandoned'[c]
        BY DEF CountIsExact
      <3>a. count[c] = Cardinality(Holders(c)) + abandoned[c] /\ count[c] \in Nat /\ abandoned[c] \in Nat
        BY DEF IInv, TypeOK, CountIsExact
      <3>b. CASE c = r
        BY <3>a, <3>b, <3>1, <3>3, <3>4, <3>5, <3>6
      <3>c. CASE c # r
        BY <3>a, <3>c, <3>1, <3>3, <3>4, <3>5, <3>6
      <3> QED BY <3>b, <3>c
    <2>3. CASE pc[o] # "open"
      <3>1. \A c \in Cells : Holders(c)' = Holders(c)
        BY <2>1, <2>3 DEF IInv, TypeOK, LocalsFollowControl, Holders, Dropped, GoTo
      <3>2. count' = count /\ abandoned' = abandoned
        BY <2>1, <2>3 DEF Dropped, processVars
      <3> QED BY <3>1, <3>2 DEF IInv, CountIsExact
    <2> QED BY <2>2, <2>3
  <1>13. CASE \E o \in Openers : CloseOk(o)
    <2>1. PICK o \in Openers : CloseOk(o)
      BY <1>13
    <2>2. PICK r \in Cells : r = cell[o] /\ o \in Holders(r)
      BY <2>1 DEF IInv, TypeOK, LocalsFollowControl, Holders, CloseOk
    <2>3. Holders(r)' = Holders(r) \ {o}
      BY <2>1, <2>2 DEF IInv, TypeOK, LocalsFollowControl, Holders, CloseOk, GoTo, mapVars,
       history, bounds
    <2>4. \A c \in Cells \ {r} : Holders(c)' = Holders(c) /\ count'[c] = count[c]
      BY <2>1, <2>2 DEF IInv, TypeOK, LocalsFollowControl, Holders, CloseOk, Decrement, GoTo,
       mapVars, history, bounds
    <2>5. count'[r] = IF count[r] = 0 THEN 0 ELSE count[r] - 1
      BY <2>1, <2>2 DEF IInv, TypeOK, CloseOk, Decrement, GoTo, mapVars, history, bounds
    <2>6. abandoned' = abandoned
      BY <2>1 DEF CloseOk, Decrement, GoTo, mapVars, history, bounds
    <2>7. /\ Cardinality(Holders(r)') = Cardinality(Holders(r)) - 1
          /\ Cardinality(Holders(r)) > 0
      BY <2>2, <2>3, HolderLeaves
    <2>8. Cardinality(Holders(r)) \in Nat
      BY HoldersFinite
    <2> SUFFICES ASSUME NEW c \in Cells
        PROVE  count'[c] = Cardinality(Holders(c)') + abandoned'[c]
      BY DEF CountIsExact
    <2>a. count[c] = Cardinality(Holders(c)) + abandoned[c] /\ count[c] \in Nat /\ abandoned[c] \in Nat
      BY DEF IInv, TypeOK, CountIsExact
    <2>b. CASE c = r
      BY <2>a, <2>b, <2>2, <2>4, <2>5, <2>6, <2>7, <2>8
    <2>c. CASE c # r
      BY <2>a, <2>c, <2>2, <2>4, <2>5, <2>6, <2>7, <2>8
    <2> QED BY <2>b, <2>c
  <1>14. CASE \E o \in Openers : CloseErr(o)
    <2>1. \A c \in Cells : Holders(c)' = Holders(c)
      BY <1>14 DEF IInv, TypeOK, LocalsFollowControl, Holders, CloseErr, Kill, mapVars, openerVars,
       history, bounds
    <2>2. count' = count /\ abandoned' = abandoned
      BY <1>14 DEF CloseErr, Kill, mapVars, openerVars, history, bounds
    <2> QED BY <2>1, <2>2 DEF IInv, CountIsExact
  <1>15. CASE \E o \in Openers : DropClient(o)
    <2>1. PICK o \in Openers : DropClient(o)
      BY <1>15
    <2>2. abandoned' = abandoned
      BY <2>1 DEF DropClient, history
    <2>3. CASE hasId[o]
      <3>1. PICK r \in Cells : r = cell[o] /\ o \in Holders(r)
        BY <2>1, <2>3 DEF IInv, TypeOK, LocalsFollowControl, Holders
      <3>2. Holders(r)' = Holders(r) \ {o}
        BY <2>1, <2>3, <3>1 DEF IInv, TypeOK, LocalsFollowControl, Holders, DropClient, GoTo
      <3>3. \A c \in Cells \ {r} : Holders(c)' = Holders(c)
        BY <2>1, <2>3, <3>1 DEF IInv, TypeOK, LocalsFollowControl, Holders, DropClient, GoTo
      <3>4. \A c \in Cells \ {r} : count'[c] = count[c]
        BY <2>1, <2>3, <3>1 DEF IInv, TypeOK, DropClient, Decrement
      <3>5. count'[r] = IF count[r] = 0 THEN 0 ELSE count[r] - 1
        BY <2>1, <2>3, <3>1 DEF IInv, TypeOK, DropClient, Decrement
      <3>6. /\ Cardinality(Holders(r)') = Cardinality(Holders(r)) - 1
            /\ Cardinality(Holders(r)) > 0
        BY <3>1, <3>2, HolderLeaves
      <3>7. Cardinality(Holders(r)) \in Nat
        BY HoldersFinite
      <3> SUFFICES ASSUME NEW c \in Cells
          PROVE  count'[c] = Cardinality(Holders(c)') + abandoned'[c]
        BY DEF CountIsExact
      <3>a. count[c] = Cardinality(Holders(c)) + abandoned[c] /\ count[c] \in Nat /\ abandoned[c] \in Nat
        BY DEF IInv, TypeOK, CountIsExact
      <3>b. CASE c = r
        BY <3>a, <3>b, <2>2, <3>1, <3>3, <3>4, <3>5, <3>6, <3>7
      <3>c. CASE c # r
        BY <3>a, <3>c, <2>2, <3>1, <3>3, <3>4, <3>5, <3>6, <3>7
      <3> QED BY <3>b, <3>c
    <2>4. CASE ~hasId[o]
      <3>1. \A c \in Cells : Holders(c)' = Holders(c)
        BY <2>1, <2>4 DEF IInv, TypeOK, LocalsFollowControl, Holders, DropClient, GoTo
      <3>2. count' = count
        BY <2>1, <2>4 DEF DropClient
      <3> QED BY <2>2, <3>1, <3>2 DEF IInv, CountIsExact
    <2> QED BY <2>3, <2>4
  <1>16. CASE \E c \in Cells : TimerWakes(c)
    <2>1. \A c \in Cells : Holders(c)' = Holders(c)
      BY <1>16 DEF IInv, TypeOK, LocalsFollowControl, Holders, TimerWakes, mapVars, openerVars,
       history, bounds
    <2>2. count' = count /\ abandoned' = abandoned
      BY <1>16 DEF TimerWakes, mapVars, openerVars, history, bounds
    <2> QED BY <2>1, <2>2 DEF IInv, CountIsExact
  <1>17. CASE \E c \in Cells : TimerKills(c)
    <2>1. \A c \in Cells : Holders(c)' = Holders(c)
      BY <1>17 DEF IInv, TypeOK, LocalsFollowControl, Holders, TimerKills, Kill, mapVars,
       openerVars, history, bounds
    <2>2. count' = count /\ abandoned' = abandoned
      BY <1>17 DEF TimerKills, Kill, mapVars, openerVars, history, bounds
    <2> QED BY <2>1, <2>2 DEF IInv, CountIsExact
  <1>18. CASE \E c \in Cells : RuntimeDies(c)
    <2>1. \A c \in Cells : Holders(c)' = Holders(c)
      BY <1>18 DEF IInv, TypeOK, LocalsFollowControl, Holders, RuntimeDies, Kill, mapVars,
       openerVars, history, bounds
    <2>2. count' = count /\ abandoned' = abandoned
      BY <1>18 DEF RuntimeDies, Kill, mapVars, openerVars, history, bounds
    <2> QED BY <2>1, <2>2 DEF IInv, CountIsExact
  <1>19. CASE \E c \in Cells : KillStopped(c)
    <2>1. \A c \in Cells : Holders(c)' = Holders(c)
      BY <1>19 DEF IInv, TypeOK, LocalsFollowControl, Holders, KillStopped, Kill, mapVars,
       openerVars, history, bounds
    <2>2. count' = count /\ abandoned' = abandoned
      BY <1>19 DEF KillStopped, Kill, mapVars, openerVars, history, bounds
    <2> QED BY <2>1, <2>2 DEF IInv, CountIsExact
  <1>20. CASE StopDaemons
    <2>1. \A c \in Cells : Holders(c)' = Holders(c)
      BY <1>20 DEF IInv, TypeOK, LocalsFollowControl, Holders, StopDaemons, openerVars, history,
       None
    <2>2. count' = count /\ abandoned' = abandoned
      BY <1>20 DEF StopDaemons, openerVars, history, None
    <2> QED BY <2>1, <2>2 DEF IInv, CountIsExact
  <1> QED BY <1>1, <1>2, <1>3, <1>4, <1>5, <1>6, <1>7, <1>8, <1>9, <1>10, <1>11, <1>12, <1>13,
       <1>14, <1>15, <1>16, <1>17, <1>18, <1>19, <1>20 DEF Next, Opening, Closing, Ending

\* Every step preserves the invariant.
LEMMA NextIInv == IInv /\ [Next]_vars => IInv'
  <1>1. ASSUME IInv, Next PROVE IInv'
    BY <1>1, TypeOKPreserved, LocalsPreserved, SpawnersPreserved, ReadyPreserved, CountPreserved,
       CurrentPreserved, TimerPreserved DEF IInv
  <1>2. ASSUME IInv, UNCHANGED vars PROVE IInv'
    BY <1>2 DEF IInv, TypeOK, LocalsFollowControl, SpawnersAreExclusive, ReservedIsReady,
       CountIsExact,
       Holders, SessionsAreOnCurrent, IdleRuntimeHasTimer, vars, mapVars, processVars, openerVars,
       history, bounds
  <1> QED BY <1>1, <1>2

(***************************************************************************)
(* The map, the runtimes and the openers keep their types.                 *)
(***************************************************************************)
THEOREM TypeCorrect == Spec => []TypeOK
  <1>1. IInv => TypeOK
    BY DEF IInv
  <1> QED BY <1>1, InitIInv, NextIInv, PTL DEF Spec

(***************************************************************************)
(* active_sessions counts exactly the places held, and the ones of dropped *)
(* calls.                                                                  *)
(***************************************************************************)
THEOREM CountsAreExact == Spec => []CountIsExact
  <1>1. IInv => CountIsExact
    BY DEF IInv
  <1> QED BY <1>1, InitIInv, NextIInv, PTL DEF Spec

(***************************************************************************)
(* A live runtime with sessions is in the map or about to be killed.       *)
(***************************************************************************)
THEOREM SessionsStayOnCurrent == Spec => []SessionsAreOnCurrent
  <1>1. IInv => SessionsAreOnCurrent
    BY DEF IInv
  <1> QED BY <1>1, InitIInv, NextIInv, PTL DEF Spec

(***************************************************************************)
(* A live runtime that was used and is idle has a timer.                   *)
(***************************************************************************)
THEOREM IdleRuntimesHaveTimers == Spec => []IdleRuntimeHasTimer
  <1>1. IInv => IdleRuntimeHasTimer
    BY DEF IInv
  <1> QED BY <1>1, InitIInv, NextIInv, PTL DEF Spec
=============================================================================
