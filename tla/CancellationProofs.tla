------------------------- MODULE CancellationProofs -------------------------
(***************************************************************************)
(* TLAPS proofs about what a cancel reaches: the running queries of the    *)
(* registry (RunningQueries, for any execution ids, connections, pools,    *)
(* cancellers and any number of registrations) and the runs of the AI      *)
(* agent (AgentLoop, for any call ids, turns and repairs).                 *)
(***************************************************************************)
EXTENDS RunningQueries, AgentLoop, FiniteSetTheorems, FunctionTheorems, TLAPS

-----------------------------------------------------------------------------
(* The registry of running queries.                                        *)

Live(r) == pc[r] \in {"cancelPrevious", "firePrevious", "running", "recording"}

\* A registration has an execution id from the moment its number was drawn.
DrawnHasExec ==
  \A r \in Regs : pc[r] # "idle" => r <= nextId /\ execOf[r] \in ExecIds

\* An entry of `inner` is a live registration of that execution id.
InnerOwner ==
  \A e \in ExecIds : inner[e] # None => Live(inner[e]) /\ execOf[inner[e]] = e

\* `previous` is set by the insert, and names a registration that was inserted.
PreviousInserted ==
  \A q \in Regs :
    /\ pc[q] \in {"idle", "insert"} => previous[q] = None
    /\ pc[q] = "cancelPrevious" => previous[q] # None
    /\ previous[q] # None => pc[previous[q]] \notin {"idle", "insert"}

\* A replaced registration is cancelled, or its replacement is about to do it.
ReplacedIsCancelled ==
  \A q \in Regs : previous[q] # None => pc[q] = "cancelPrevious" \/ token[previous[q]]

\* A live registration leaves the table only by being replaced.
OutMeansReplaced ==
  \A r \in Regs : Live(r) /\ inner[execOf[r]] # r => Superseded(r)

\* An interrupt belongs to a registration of that execution id that ran, and
\* that was replaced if it is over.
InterruptOwner ==
  \A e \in ExecIds : interrupts[e] # None =>
    /\ execOf[interrupts[e]] = e
    /\ pc[interrupts[e]] \in {"running", "recording", "dropInterrupt", "done"}
    /\ pc[interrupts[e]] = "done" => Superseded(interrupts[e])

\* A registration that matched is waiting for its cancel, held by the
\* canceller, cancelled, over, or about to be cancelled by its replacement.
Tracked(c, r) ==
  /\ Live(r) \/ Ended(r)
  /\ \/ execOf[r] \in todo[c]
     \/ heldToken[c] = r /\ cpc[c] # "next"
     \/ token[r]
     \/ Ended(r)
     \/ CancelPending(r)

SnapshotTracked ==
  \A c \in Cancellers : cpc[c] # "idle" => \A r \in seen[c] : Tracked(c, r)

\* A canceller between two critical sections knows its execution id.
CurKnown == \A c \in Cancellers : cpc[c] \in {"takeInterrupt", "fire", "cancelToken"} => cur[c] \in ExecIds

IInv ==
  /\ TypeOK
  /\ DrawnHasExec
  /\ InnerOwner
  /\ PreviousInserted
  /\ ReplacedIsCancelled
  /\ OutMeansReplaced
  /\ InterruptOwner
  /\ SnapshotTracked
  /\ CurKnown

-----------------------------------------------------------------------------
\* The initial table is empty and nobody holds anything.
LEMMA InitIInv == Init => IInv
  BY RunningQueriesAssumption DEF Init, IInv, TypeOK, DrawnHasExec, InnerOwner, PreviousInserted, ReplacedIsCancelled,
     OutMeansReplaced, InterruptOwner, SnapshotTracked, Tracked, CurKnown, Live, Ended, Superseded, CancelPending,
     Regs, None, WorkerPc, CancelPc

\* DrawId preserves the invariant.
LEMMA DrawIdPreserves ==
  ASSUME IInv, NEW r \in Regs, NEW e \in ExecIds, NEW c \in Conns, DrawId(r, e, c)
  PROVE  IInv'
  <1> USE RunningQueriesAssumption DEF Regs, None
  <1>1. TypeOK'
    BY DEF IInv, TypeOK, DrawId, DrawnHasExec, PreviousInserted, CurKnown, WorkerPc, CancelPc, tableVars, regVars, cancelVars
  <1>2. DrawnHasExec'
    BY <1>1 DEF IInv, TypeOK, WorkerPc, CancelPc, DrawId, DrawnHasExec, tableVars, regVars, cancelVars
  <1>3. InnerOwner'
    BY <1>1 DEF IInv, TypeOK, WorkerPc, CancelPc, DrawId, InnerOwner, DrawnHasExec, Live, tableVars, regVars,
       cancelVars
  <1>4. PreviousInserted'
    BY <1>1 DEF IInv, TypeOK, WorkerPc, CancelPc, DrawId, PreviousInserted, DrawnHasExec, InnerOwner, Live,
       tableVars, regVars, cancelVars
  <1>5. ReplacedIsCancelled'
    BY <1>1 DEF IInv, TypeOK, WorkerPc, CancelPc, DrawId, ReplacedIsCancelled, DrawnHasExec, PreviousInserted,
       tableVars, regVars, cancelVars
  <1>6. OutMeansReplaced'
    BY <1>1 DEF IInv, TypeOK, WorkerPc, CancelPc, DrawId, OutMeansReplaced, DrawnHasExec, InnerOwner,
       PreviousInserted, Live, Superseded, tableVars, regVars, cancelVars
  <1>7. InterruptOwner'
    BY <1>1 DEF IInv, TypeOK, WorkerPc, CancelPc, DrawId, InterruptOwner, DrawnHasExec, OutMeansReplaced,
       PreviousInserted, Live, Superseded, tableVars, regVars, cancelVars
  <1>8. SnapshotTracked'
    BY <1>1 DEF IInv, TypeOK, WorkerPc, CancelPc, DrawId, SnapshotTracked, Tracked, InnerOwner,
       PreviousInserted, ReplacedIsCancelled, OutMeansReplaced, DrawnHasExec, Live, Ended, Superseded,
       CancelPending, tableVars, regVars, cancelVars
  <1>9. CurKnown'
    BY <1>1 DEF IInv, TypeOK, WorkerPc, CancelPc, DrawId, CurKnown, tableVars, regVars, cancelVars
  <1> QED BY <1>1, <1>2, <1>3, <1>4, <1>5, <1>6, <1>7, <1>8, <1>9 DEF IInv

\* Insert preserves the invariant.
LEMMA InsertPreserves ==
  ASSUME IInv, NEW r \in Regs, Insert(r)
  PROVE  IInv'
  <1> USE RunningQueriesAssumption DEF Regs, None
  <1>1. TypeOK'
    BY DEF IInv, TypeOK, Insert, DrawnHasExec, PreviousInserted, CurKnown, WorkerPc, CancelPc, tableVars, regVars, cancelVars
  <1>2. DrawnHasExec'
    BY <1>1 DEF IInv, TypeOK, WorkerPc, CancelPc, Insert, DrawnHasExec, tableVars, regVars, cancelVars
  <1>3. InnerOwner'
    BY <1>1 DEF IInv, TypeOK, WorkerPc, CancelPc, Insert, InnerOwner, DrawnHasExec, Live, tableVars, regVars,
       cancelVars
  <1>4. PreviousInserted'
    <2>1. execOf[r] \in ExecIds /\ pc[r] = "insert"
      BY DEF IInv, DrawnHasExec, Insert
    <2>2. inner[execOf[r]] # None => inner[execOf[r]] # r /\ pc[inner[execOf[r]]] \notin {"idle", "insert"}
      BY <2>1 DEF IInv, InnerOwner, Live
    <2>3. ASSUME NEW q \in Regs, q # r
          PROVE  pc'[q] = pc[q] /\ previous'[q] = previous[q]
      BY <2>3 DEF Insert, IInv, TypeOK
    <2>4. previous'[r] = inner[execOf[r]] /\ pc'[r] \in {"running", "cancelPrevious"}
          /\ (pc'[r] = "cancelPrevious" => inner[execOf[r]] # None)
      BY DEF Insert, IInv, TypeOK
    <2> QED BY <2>1, <2>2, <2>3, <2>4, SMTT(30) DEF IInv, TypeOK, PreviousInserted
  <1>5. ReplacedIsCancelled'
    BY <1>1 DEF IInv, TypeOK, WorkerPc, CancelPc, Insert, ReplacedIsCancelled, DrawnHasExec, PreviousInserted,
       tableVars, regVars, cancelVars
  <1>6. OutMeansReplaced'
    BY <1>1 DEF IInv, TypeOK, WorkerPc, CancelPc, Insert, OutMeansReplaced, DrawnHasExec, InnerOwner,
       PreviousInserted, Live, Superseded, tableVars, regVars, cancelVars
  <1>7. InterruptOwner'
    BY <1>1 DEF IInv, TypeOK, WorkerPc, CancelPc, Insert, InterruptOwner, DrawnHasExec, OutMeansReplaced,
       PreviousInserted, Live, Superseded, tableVars, regVars, cancelVars
  <1>8. SnapshotTracked'
    BY <1>1 DEF IInv, TypeOK, WorkerPc, CancelPc, Insert, SnapshotTracked, Tracked, InnerOwner,
       PreviousInserted, ReplacedIsCancelled, OutMeansReplaced, DrawnHasExec, Live, Ended, Superseded,
       CancelPending, tableVars, regVars, cancelVars
  <1>9. CurKnown'
    BY <1>1 DEF IInv, TypeOK, WorkerPc, CancelPc, Insert, CurKnown, tableVars, regVars, cancelVars
  <1> QED BY <1>1, <1>2, <1>3, <1>4, <1>5, <1>6, <1>7, <1>8, <1>9 DEF IInv

\* CancelPrevious preserves the invariant.
LEMMA CancelPreviousPreserves ==
  ASSUME IInv, NEW r \in Regs, CancelPrevious(r)
  PROVE  IInv'
  <1> USE RunningQueriesAssumption DEF Regs, None
  <1>1. TypeOK'
    BY DEF IInv, TypeOK, CancelPrevious, DrawnHasExec, PreviousInserted, CurKnown, WorkerPc, CancelPc, tableVars, regVars, cancelVars
  <1>2. DrawnHasExec'
    BY <1>1 DEF IInv, TypeOK, WorkerPc, CancelPc, CancelPrevious, DrawnHasExec, tableVars, regVars, cancelVars
  <1>3. InnerOwner'
    BY <1>1 DEF IInv, TypeOK, WorkerPc, CancelPc, CancelPrevious, InnerOwner, DrawnHasExec, Live, tableVars,
       regVars, cancelVars
  <1>4. PreviousInserted'
    BY <1>1 DEF IInv, TypeOK, WorkerPc, CancelPc, CancelPrevious, PreviousInserted, DrawnHasExec, InnerOwner,
       Live, tableVars, regVars, cancelVars
  <1>5. ReplacedIsCancelled'
    BY <1>1 DEF IInv, TypeOK, WorkerPc, CancelPc, CancelPrevious, ReplacedIsCancelled, DrawnHasExec,
       PreviousInserted, tableVars, regVars, cancelVars
  <1>6. OutMeansReplaced'
    BY <1>1 DEF IInv, TypeOK, WorkerPc, CancelPc, CancelPrevious, OutMeansReplaced, DrawnHasExec, InnerOwner,
       PreviousInserted, Live, Superseded, tableVars, regVars, cancelVars
  <1>7. InterruptOwner'
    BY <1>1 DEF IInv, TypeOK, WorkerPc, CancelPc, CancelPrevious, InterruptOwner, DrawnHasExec,
       OutMeansReplaced, PreviousInserted, Live, Superseded, tableVars, regVars, cancelVars
  <1>8. SnapshotTracked'
    BY <1>1 DEF IInv, TypeOK, WorkerPc, CancelPc, CancelPrevious, SnapshotTracked, Tracked, InnerOwner,
       PreviousInserted, ReplacedIsCancelled, OutMeansReplaced, DrawnHasExec, Live, Ended, Superseded,
       CancelPending, tableVars, regVars, cancelVars
  <1>9. CurKnown'
    BY <1>1 DEF IInv, TypeOK, WorkerPc, CancelPc, CancelPrevious, CurKnown, tableVars, regVars, cancelVars
  <1> QED BY <1>1, <1>2, <1>3, <1>4, <1>5, <1>6, <1>7, <1>8, <1>9 DEF IInv

\* FirePrevious preserves the invariant.
LEMMA FirePreviousPreserves ==
  ASSUME IInv, NEW r \in Regs, FirePrevious(r)
  PROVE  IInv'
  <1> USE RunningQueriesAssumption DEF Regs, None
  <1>1. TypeOK'
    BY DEF IInv, TypeOK, FirePrevious, DrawnHasExec, PreviousInserted, CurKnown, WorkerPc, CancelPc, tableVars, regVars, cancelVars
  <1>2. DrawnHasExec'
    BY <1>1 DEF IInv, TypeOK, WorkerPc, CancelPc, FirePrevious, DrawnHasExec, tableVars, regVars, cancelVars
  <1>3. InnerOwner'
    BY <1>1 DEF IInv, TypeOK, WorkerPc, CancelPc, FirePrevious, InnerOwner, DrawnHasExec, Live, tableVars,
       regVars, cancelVars
  <1>4. PreviousInserted'
    BY <1>1 DEF IInv, TypeOK, WorkerPc, CancelPc, FirePrevious, PreviousInserted, DrawnHasExec, InnerOwner,
       Live, tableVars, regVars, cancelVars
  <1>5. ReplacedIsCancelled'
    BY <1>1 DEF IInv, TypeOK, WorkerPc, CancelPc, FirePrevious, ReplacedIsCancelled, DrawnHasExec,
       PreviousInserted, tableVars, regVars, cancelVars
  <1>6. OutMeansReplaced'
    BY <1>1 DEF IInv, TypeOK, WorkerPc, CancelPc, FirePrevious, OutMeansReplaced, DrawnHasExec, InnerOwner,
       PreviousInserted, Live, Superseded, tableVars, regVars, cancelVars
  <1>7. InterruptOwner'
    BY <1>1 DEF IInv, TypeOK, WorkerPc, CancelPc, FirePrevious, InterruptOwner, DrawnHasExec, OutMeansReplaced,
       PreviousInserted, Live, Superseded, tableVars, regVars, cancelVars
  <1>8. SnapshotTracked'
    BY <1>1 DEF IInv, TypeOK, WorkerPc, CancelPc, FirePrevious, SnapshotTracked, Tracked, InnerOwner,
       PreviousInserted, ReplacedIsCancelled, OutMeansReplaced, DrawnHasExec, Live, Ended, Superseded,
       CancelPending, tableVars, regVars, cancelVars
  <1>9. CurKnown'
    BY <1>1 DEF IInv, TypeOK, WorkerPc, CancelPc, FirePrevious, CurKnown, tableVars, regVars, cancelVars
  <1> QED BY <1>1, <1>2, <1>3, <1>4, <1>5, <1>6, <1>7, <1>8, <1>9 DEF IInv

\* TakePool preserves the invariant.
LEMMA TakePoolPreserves ==
  ASSUME IInv, NEW r \in Regs, NEW p \in Pools, TakePool(r, p)
  PROVE  IInv'
  <1> USE RunningQueriesAssumption DEF Regs, None
  <1>1. TypeOK'
    BY DEF IInv, TypeOK, TakePool, DrawnHasExec, WorkerPc, CancelPc, tableVars, regVars, cancelVars
  <1>2. DrawnHasExec' /\ InnerOwner' /\ PreviousInserted' /\ ReplacedIsCancelled' /\ OutMeansReplaced' /\ CurKnown'
    BY <1>1 DEF IInv, TypeOK, WorkerPc, CancelPc, TakePool, DrawnHasExec, InnerOwner, Live, PreviousInserted,
       ReplacedIsCancelled, OutMeansReplaced, Superseded, CurKnown, tableVars, regVars, cancelVars
  <1>3. InterruptOwner'
    BY <1>1 DEF IInv, TypeOK, WorkerPc, TakePool, InterruptOwner, Superseded, tableVars, regVars, cancelVars
  <1>4. SnapshotTracked'
    BY <1>1 DEF IInv, TypeOK, WorkerPc, CancelPc, TakePool, SnapshotTracked, Tracked, Live, Ended, CancelPending,
       tableVars, regVars, cancelVars
  <1> QED BY <1>1, <1>2, <1>3, <1>4 DEF IInv

\* SetPoolKey preserves the invariant.
LEMMA SetPoolKeyPreserves ==
  ASSUME IInv, NEW r \in Regs, SetPoolKey(r)
  PROVE  IInv'
  <1> USE RunningQueriesAssumption DEF Regs, None
  <1>1. TypeOK'
    BY DEF IInv, TypeOK, SetPoolKey, DrawnHasExec, WorkerPc, CancelPc, tableVars, regVars, cancelVars
  <1>2. DrawnHasExec' /\ InnerOwner' /\ PreviousInserted' /\ ReplacedIsCancelled' /\ OutMeansReplaced' /\ CurKnown'
    BY <1>1 DEF IInv, TypeOK, WorkerPc, CancelPc, SetPoolKey, DrawnHasExec, InnerOwner, Live, PreviousInserted,
       ReplacedIsCancelled, OutMeansReplaced, Superseded, CurKnown, tableVars, regVars, cancelVars
  <1>3. InterruptOwner'
    BY <1>1 DEF IInv, TypeOK, WorkerPc, SetPoolKey, InterruptOwner, Superseded, tableVars, regVars, cancelVars
  <1>4. SnapshotTracked'
    BY <1>1 DEF IInv, TypeOK, WorkerPc, CancelPc, SetPoolKey, SnapshotTracked, Tracked, Live, Ended, CancelPending,
       tableVars, regVars, cancelVars
  <1> QED BY <1>1, <1>2, <1>3, <1>4 DEF IInv

\* RegisterInterrupt preserves the invariant.
LEMMA RegisterInterruptPreserves ==
  ASSUME IInv, NEW r \in Regs, RegisterInterrupt(r)
  PROVE  IInv'
  <1> USE RunningQueriesAssumption DEF Regs, None
  <1>1. TypeOK'
    BY DEF IInv, TypeOK, RegisterInterrupt, DrawnHasExec, PreviousInserted, CurKnown, WorkerPc, CancelPc, tableVars, regVars, cancelVars
  <1>2. InterruptOwner'
    BY <1>1 DEF IInv, TypeOK, WorkerPc, CancelPc, RegisterInterrupt, InterruptOwner, DrawnHasExec,
       OutMeansReplaced, PreviousInserted, Live, Superseded, tableVars, regVars, cancelVars
  <1>3. DrawnHasExec' /\ InnerOwner' /\ PreviousInserted' /\ ReplacedIsCancelled' /\ OutMeansReplaced' /\ SnapshotTracked' /\ CurKnown'
    BY <1>1 DEF IInv, TypeOK, WorkerPc, CancelPc, RegisterInterrupt, DrawnHasExec, InnerOwner, Live,
       PreviousInserted, ReplacedIsCancelled, OutMeansReplaced, Superseded, SnapshotTracked, Tracked, Ended,
       CancelPending, CurKnown, tableVars, regVars, cancelVars
  <1> QED BY <1>1, <1>2, <1>3 DEF IInv

\* DropInner preserves the invariant.
LEMMA DropInnerPreserves ==
  ASSUME IInv, NEW r \in Regs, DropInner(r)
  PROVE  IInv'
  <1> USE RunningQueriesAssumption DEF Regs, None
  <1>1. TypeOK'
    BY DEF IInv, TypeOK, DropInner, DrawnHasExec, PreviousInserted, CurKnown, WorkerPc, CancelPc, tableVars, regVars, cancelVars
  <1>2. DrawnHasExec'
    BY <1>1 DEF IInv, TypeOK, WorkerPc, CancelPc, DropInner, DrawnHasExec, tableVars, regVars, cancelVars
  <1>3. InnerOwner'
    BY <1>1 DEF IInv, TypeOK, WorkerPc, CancelPc, DropInner, InnerOwner, DrawnHasExec, Live, tableVars,
       regVars, cancelVars
  <1>4. PreviousInserted'
    BY <1>1 DEF IInv, TypeOK, WorkerPc, CancelPc, DropInner, PreviousInserted, DrawnHasExec, InnerOwner, Live,
       tableVars, regVars, cancelVars
  <1>5. ReplacedIsCancelled'
    BY <1>1 DEF IInv, TypeOK, WorkerPc, CancelPc, DropInner, ReplacedIsCancelled, DrawnHasExec,
       PreviousInserted, tableVars, regVars, cancelVars
  <1>6. OutMeansReplaced'
    BY <1>1 DEF IInv, TypeOK, WorkerPc, CancelPc, DropInner, OutMeansReplaced, DrawnHasExec, InnerOwner,
       PreviousInserted, Live, Superseded, tableVars, regVars, cancelVars
  <1>7. InterruptOwner'
    BY <1>1 DEF IInv, TypeOK, WorkerPc, CancelPc, DropInner, InterruptOwner, DrawnHasExec, OutMeansReplaced,
       PreviousInserted, Live, Superseded, tableVars, regVars, cancelVars
  <1>8. SnapshotTracked'
    BY <1>1 DEF IInv, TypeOK, WorkerPc, CancelPc, DropInner, SnapshotTracked, Tracked, InnerOwner,
       PreviousInserted, ReplacedIsCancelled, OutMeansReplaced, DrawnHasExec, Live, Ended, Superseded,
       CancelPending, tableVars, regVars, cancelVars
  <1>9. CurKnown'
    BY <1>1 DEF IInv, TypeOK, WorkerPc, CancelPc, DropInner, CurKnown, tableVars, regVars, cancelVars
  <1> QED BY <1>1, <1>2, <1>3, <1>4, <1>5, <1>6, <1>7, <1>8, <1>9 DEF IInv

\* DropInterrupt preserves the invariant.
LEMMA DropInterruptPreserves ==
  ASSUME IInv, NEW r \in Regs, DropInterrupt(r)
  PROVE  IInv'
  <1> USE RunningQueriesAssumption DEF Regs, None
  <1>1. TypeOK'
    BY DEF IInv, TypeOK, DropInterrupt, DrawnHasExec, PreviousInserted, CurKnown, WorkerPc, CancelPc, tableVars, regVars, cancelVars
  <1>2. DrawnHasExec'
    BY <1>1 DEF IInv, TypeOK, WorkerPc, CancelPc, DropInterrupt, DrawnHasExec, tableVars, regVars, cancelVars
  <1>3. InnerOwner'
    BY <1>1 DEF IInv, TypeOK, WorkerPc, CancelPc, DropInterrupt, InnerOwner, DrawnHasExec, Live, tableVars,
       regVars, cancelVars
  <1>4. PreviousInserted'
    BY <1>1 DEF IInv, TypeOK, WorkerPc, CancelPc, DropInterrupt, PreviousInserted, DrawnHasExec, InnerOwner,
       Live, tableVars, regVars, cancelVars
  <1>5. ReplacedIsCancelled'
    BY <1>1 DEF IInv, TypeOK, WorkerPc, CancelPc, DropInterrupt, ReplacedIsCancelled, DrawnHasExec,
       PreviousInserted, tableVars, regVars, cancelVars
  <1>6. OutMeansReplaced'
    BY <1>1 DEF IInv, TypeOK, WorkerPc, CancelPc, DropInterrupt, OutMeansReplaced, DrawnHasExec, InnerOwner,
       PreviousInserted, Live, Superseded, tableVars, regVars, cancelVars
  <1>7. InterruptOwner'
    BY <1>1 DEF IInv, TypeOK, WorkerPc, CancelPc, DropInterrupt, InterruptOwner, DrawnHasExec,
       OutMeansReplaced, PreviousInserted, Live, Superseded, tableVars, regVars, cancelVars
  <1>8. SnapshotTracked'
    BY <1>1 DEF IInv, TypeOK, WorkerPc, CancelPc, DropInterrupt, SnapshotTracked, Tracked, InnerOwner,
       PreviousInserted, ReplacedIsCancelled, OutMeansReplaced, DrawnHasExec, Live, Ended, Superseded,
       CancelPending, tableVars, regVars, cancelVars
  <1>9. CurKnown'
    BY <1>1 DEF IInv, TypeOK, WorkerPc, CancelPc, DropInterrupt, CurKnown, tableVars, regVars, cancelVars
  <1> QED BY <1>1, <1>2, <1>3, <1>4, <1>5, <1>6, <1>7, <1>8, <1>9 DEF IInv

\* CancelOne preserves the invariant.
LEMMA CancelOnePreserves ==
  ASSUME IInv, NEW c \in Cancellers, NEW e \in ExecIds, CancelOne(c, e)
  PROVE  IInv'
  <1> USE RunningQueriesAssumption DEF Regs, None
  <1>1. TypeOK'
    BY DEF IInv, TypeOK, CancelOne, DrawnHasExec, PreviousInserted, CurKnown, WorkerPc, CancelPc, tableVars, regVars, cancelVars
  <1>2. SnapshotTracked'
    BY <1>1 DEF IInv, TypeOK, WorkerPc, CancelPc, CancelOne, SnapshotTracked, Tracked, InnerOwner,
       PreviousInserted, ReplacedIsCancelled, OutMeansReplaced, DrawnHasExec, Live, Ended, Superseded,
       CancelPending, tableVars, regVars, cancelVars
  <1>3. CurKnown'
    BY <1>1 DEF IInv, TypeOK, WorkerPc, CancelPc, CancelOne, CurKnown, tableVars, regVars, cancelVars
  <1>4. DrawnHasExec' /\ InnerOwner' /\ PreviousInserted' /\ ReplacedIsCancelled' /\ OutMeansReplaced' /\ InterruptOwner'
    BY <1>1 DEF IInv, TypeOK, WorkerPc, CancelPc, CancelOne, DrawnHasExec, InnerOwner, Live, PreviousInserted,
       ReplacedIsCancelled, OutMeansReplaced, Superseded, InterruptOwner, tableVars, regVars, cancelVars
  <1> QED BY <1>1, <1>2, <1>3, <1>4 DEF IInv

\* CancelMatching preserves the invariant.
LEMMA CancelMatchingPreserves ==
  ASSUME IInv, NEW c \in Cancellers, NEW S \in SUBSET Conns, CancelMatching(c, S)
  PROVE  IInv'
  <1> USE RunningQueriesAssumption DEF Regs, None, Matching
  <1>1. TypeOK'
    BY DEF IInv, TypeOK, CancelMatching, DrawnHasExec, PreviousInserted, CurKnown, WorkerPc, CancelPc, tableVars, regVars, cancelVars
  <1>2. SnapshotTracked'
    BY <1>1 DEF IInv, TypeOK, WorkerPc, CancelPc, CancelMatching, SnapshotTracked, Tracked, InnerOwner,
       PreviousInserted, ReplacedIsCancelled, OutMeansReplaced, DrawnHasExec, Live, Ended, Superseded,
       CancelPending, tableVars, regVars, cancelVars
  <1>3. CurKnown'
    BY <1>1 DEF IInv, TypeOK, WorkerPc, CancelPc, CancelMatching, CurKnown, tableVars, regVars, cancelVars
  <1>4. DrawnHasExec' /\ InnerOwner' /\ PreviousInserted' /\ ReplacedIsCancelled' /\ OutMeansReplaced' /\ InterruptOwner'
    BY <1>1 DEF IInv, TypeOK, WorkerPc, CancelPc, CancelMatching, DrawnHasExec, InnerOwner, Live,
       PreviousInserted, ReplacedIsCancelled, OutMeansReplaced, Superseded, InterruptOwner, tableVars, regVars,
       cancelVars
  <1> QED BY <1>1, <1>2, <1>3, <1>4 DEF IInv

\* ReadToken preserves the invariant.
LEMMA ReadTokenPreserves ==
  ASSUME IInv, NEW c \in Cancellers, NEW e \in ExecIds, ReadToken(c, e)
  PROVE  IInv'
  <1> USE RunningQueriesAssumption DEF Regs, None
  <1>1. TypeOK'
    BY DEF IInv, TypeOK, ReadToken, DrawnHasExec, PreviousInserted, CurKnown, WorkerPc, CancelPc, tableVars, regVars, cancelVars
  <1>2. SnapshotTracked'
    BY <1>1 DEF IInv, TypeOK, WorkerPc, CancelPc, ReadToken, SnapshotTracked, Tracked, InnerOwner,
       PreviousInserted, ReplacedIsCancelled, OutMeansReplaced, DrawnHasExec, Live, Ended, Superseded,
       CancelPending, tableVars, regVars, cancelVars
  <1>3. CurKnown'
    BY <1>1 DEF IInv, TypeOK, WorkerPc, CancelPc, ReadToken, CurKnown, tableVars, regVars, cancelVars
  <1>4. DrawnHasExec' /\ InnerOwner' /\ PreviousInserted' /\ ReplacedIsCancelled' /\ OutMeansReplaced' /\ InterruptOwner'
    BY <1>1 DEF IInv, TypeOK, WorkerPc, CancelPc, ReadToken, DrawnHasExec, InnerOwner, Live, PreviousInserted,
       ReplacedIsCancelled, OutMeansReplaced, Superseded, InterruptOwner, tableVars, regVars, cancelVars
  <1> QED BY <1>1, <1>2, <1>3, <1>4 DEF IInv

\* TakeInterrupt preserves the invariant.
LEMMA TakeInterruptPreserves ==
  ASSUME IInv, NEW c \in Cancellers, TakeInterrupt(c)
  PROVE  IInv'
  <1> USE RunningQueriesAssumption DEF Regs, None
  <1>1. TypeOK'
    BY DEF IInv, TypeOK, TakeInterrupt, DrawnHasExec, PreviousInserted, CurKnown, WorkerPc, CancelPc, tableVars, regVars, cancelVars
  <1>2. InterruptOwner'
    BY <1>1 DEF IInv, TypeOK, WorkerPc, CancelPc, TakeInterrupt, InterruptOwner, DrawnHasExec,
       OutMeansReplaced, PreviousInserted, Live, Superseded, tableVars, regVars, cancelVars
  <1>3. SnapshotTracked'
    BY <1>1 DEF IInv, TypeOK, WorkerPc, CancelPc, TakeInterrupt, SnapshotTracked, Tracked, InnerOwner,
       PreviousInserted, ReplacedIsCancelled, OutMeansReplaced, DrawnHasExec, Live, Ended, Superseded,
       CancelPending, tableVars, regVars, cancelVars
  <1>4. CurKnown'
    BY <1>1 DEF IInv, TypeOK, WorkerPc, CancelPc, TakeInterrupt, CurKnown, tableVars, regVars, cancelVars
  <1>5. DrawnHasExec' /\ InnerOwner' /\ PreviousInserted' /\ ReplacedIsCancelled' /\ OutMeansReplaced'
    BY <1>1 DEF IInv, TypeOK, WorkerPc, CancelPc, TakeInterrupt, DrawnHasExec, InnerOwner, Live,
       PreviousInserted, ReplacedIsCancelled, OutMeansReplaced, Superseded, tableVars, regVars, cancelVars
  <1> QED BY <1>1, <1>2, <1>3, <1>4, <1>5 DEF IInv

\* Fire preserves the invariant.
LEMMA FirePreserves ==
  ASSUME IInv, NEW c \in Cancellers, Fire(c)
  PROVE  IInv'
  <1> USE RunningQueriesAssumption DEF Regs, None
  <1>1. TypeOK'
    BY DEF IInv, TypeOK, Fire, DrawnHasExec, PreviousInserted, CurKnown, WorkerPc, CancelPc, tableVars, regVars, cancelVars
  <1>2. SnapshotTracked'
    BY <1>1 DEF IInv, TypeOK, WorkerPc, CancelPc, Fire, SnapshotTracked, Tracked, InnerOwner, PreviousInserted,
       ReplacedIsCancelled, OutMeansReplaced, DrawnHasExec, Live, Ended, Superseded, CancelPending, tableVars,
       regVars, cancelVars
  <1>3. CurKnown'
    BY <1>1 DEF IInv, TypeOK, WorkerPc, CancelPc, Fire, CurKnown, tableVars, regVars, cancelVars
  <1>4. DrawnHasExec' /\ InnerOwner' /\ PreviousInserted' /\ ReplacedIsCancelled' /\ OutMeansReplaced' /\ InterruptOwner'
    BY <1>1 DEF IInv, TypeOK, WorkerPc, CancelPc, Fire, DrawnHasExec, InnerOwner, Live, PreviousInserted,
       ReplacedIsCancelled, OutMeansReplaced, Superseded, InterruptOwner, tableVars, regVars, cancelVars
  <1> QED BY <1>1, <1>2, <1>3, <1>4 DEF IInv

\* CancelToken preserves the invariant.
LEMMA CancelTokenPreserves ==
  ASSUME IInv, NEW c \in Cancellers, CancelToken(c)
  PROVE  IInv'
  <1> USE RunningQueriesAssumption DEF Regs, None
  <1>1. TypeOK'
    BY DEF IInv, TypeOK, CancelToken, DrawnHasExec, PreviousInserted, CurKnown, WorkerPc, CancelPc, tableVars, regVars, cancelVars
  <1>2. ReplacedIsCancelled'
    BY <1>1 DEF IInv, TypeOK, WorkerPc, CancelPc, CancelToken, ReplacedIsCancelled, DrawnHasExec,
       PreviousInserted, tableVars, regVars, cancelVars
  <1>3. SnapshotTracked'
    <2> SUFFICES ASSUME NEW d \in Cancellers, cpc'[d] # "idle", NEW r \in seen'[d]
                 PROVE  Tracked(d, r)'
      BY DEF SnapshotTracked
    <2>1. r \in Regs /\ r \in seen[d] /\ cpc[d] # "idle" /\ Tracked(d, r)
      BY DEF IInv, TypeOK, CancelToken, SnapshotTracked
    <2>2. pc' = pc /\ execOf' = execOf /\ previous' = previous /\ todo' = todo
      BY DEF CancelToken
    <2>3. token[r] => token'[r]
      BY <2>1 DEF CancelToken
    <2>4. CASE d = c
      <3>1. heldToken[c] = r => token'[r]
        BY <2>1 DEF CancelToken
      <3> QED BY <2>1, <2>2, <2>3, <2>4, <3>1 DEF Tracked, Live, Ended, CancelPending
    <2>5. CASE d # c
      <3>1. heldToken'[d] = heldToken[d] /\ cpc'[d] = cpc[d]
        BY <2>5 DEF CancelToken, IInv, TypeOK
      <3> QED BY <2>1, <2>2, <2>3, <3>1 DEF Tracked, Live, Ended, CancelPending
    <2> QED BY <2>4, <2>5
  <1>4. CurKnown'
    BY <1>1 DEF IInv, TypeOK, WorkerPc, CancelPc, CancelToken, CurKnown, tableVars, regVars, cancelVars
  <1>5. DrawnHasExec' /\ InnerOwner' /\ PreviousInserted' /\ OutMeansReplaced' /\ InterruptOwner'
    BY <1>1 DEF IInv, TypeOK, WorkerPc, CancelPc, CancelToken, DrawnHasExec, InnerOwner, Live,
       PreviousInserted, OutMeansReplaced, Superseded, InterruptOwner, tableVars, regVars, cancelVars
  <1> QED BY <1>1, <1>2, <1>3, <1>4, <1>5 DEF IInv

\* CancelReturns preserves the invariant.
LEMMA CancelReturnsPreserves ==
  ASSUME IInv, NEW c \in Cancellers, CancelReturns(c)
  PROVE  IInv'
  <1> USE RunningQueriesAssumption DEF Regs, None
  <1>1. TypeOK'
    BY DEF IInv, TypeOK, CancelReturns, DrawnHasExec, PreviousInserted, CurKnown, WorkerPc, CancelPc, tableVars, regVars, cancelVars
  <1>2. SnapshotTracked'
    BY <1>1 DEF IInv, TypeOK, WorkerPc, CancelPc, CancelReturns, SnapshotTracked, Tracked, InnerOwner,
       PreviousInserted, ReplacedIsCancelled, OutMeansReplaced, DrawnHasExec, Live, Ended, Superseded,
       CancelPending, tableVars, regVars, cancelVars
  <1>3. CurKnown'
    BY <1>1 DEF IInv, TypeOK, WorkerPc, CancelPc, CancelReturns, CurKnown, tableVars, regVars, cancelVars
  <1>4. DrawnHasExec' /\ InnerOwner' /\ PreviousInserted' /\ ReplacedIsCancelled' /\ OutMeansReplaced' /\ InterruptOwner'
    BY <1>1 DEF IInv, TypeOK, WorkerPc, CancelPc, CancelReturns, DrawnHasExec, InnerOwner, Live,
       PreviousInserted, ReplacedIsCancelled, OutMeansReplaced, Superseded, InterruptOwner, tableVars, regVars,
       cancelVars
  <1> QED BY <1>1, <1>2, <1>3, <1>4 DEF IInv

-----------------------------------------------------------------------------
\* Every step of the specification preserves the invariant.
LEMMA NextIInv == IInv /\ [Next]_vars => IInv'
  <1> SUFFICES ASSUME IInv, [Next]_vars PROVE IInv'
    OBVIOUS
  <1>1. ASSUME NEW r \in Regs, Worker(r) PROVE IInv'
    BY <1>1, DrawIdPreserves, InsertPreserves, CancelPreviousPreserves, FirePreviousPreserves, TakePoolPreserves,
       SetPoolKeyPreserves,
       RegisterInterruptPreserves, DropInnerPreserves, DropInterruptPreserves DEF Worker
  <1>2. ASSUME NEW c \in Cancellers, Canceller(c) PROVE IInv'
    <2>1. ASSUME NEW S \in {{k} : k \in Conns} \cup {Conns}, CancelMatching(c, S) PROVE IInv'
      <3>1. S \in SUBSET Conns
        OBVIOUS
      <3> QED BY <2>1, <3>1, CancelMatchingPreserves
    <2> QED BY <1>2, <2>1, CancelOnePreserves, ReadTokenPreserves, TakeInterruptPreserves, FirePreserves,
               CancelTokenPreserves, CancelReturnsPreserves DEF Canceller, CancelStep
  <1>3. CASE UNCHANGED vars
    BY <1>3 DEF vars, tableVars, regVars, cancelVars, IInv, TypeOK, DrawnHasExec, InnerOwner, PreviousInserted,
       ReplacedIsCancelled, OutMeansReplaced, InterruptOwner, SnapshotTracked, Tracked, CurKnown, Live, Ended,
       Superseded, CancelPending
  <1> QED BY <1>1, <1>2, <1>3 DEF Next

\* The inductive invariant holds in every reachable state.
LEMMA IInvHolds == Spec => []IInv
  BY InitIInv, NextIInv, PTL DEF Spec

\* The two maps, the registrations and the cancellers' locals stay well typed,
\* whatever register_task, remove and cancel do to them.
THEOREM TypeCorrect == Spec => []TypeOK
  <1>1. IInv => TypeOK
    BY DEF IInv
  <1> QED BY IInvHolds, <1>1, PTL

\* No query is stranded: one that runs outside the table was cancelled, or the
\* register_task that replaced it is about to cancel it.
THEOREM OrphansAreCancelled == Spec => []OrphanIsCancelled
  <1>1. IInv => OrphanIsCancelled
    <2> SUFFICES ASSUME IInv, NEW r \in Regs, Live(r), inner[execOf[r]] # r PROVE token[r] \/ CancelPending(r)
      BY DEF OrphanIsCancelled, Live
    <2>1. PICK q \in Regs : previous[q] = r
      BY DEF IInv, OutMeansReplaced, Superseded
    <2>2. previous[q] # None
      BY <2>1, RunningQueriesAssumption DEF Regs, None
    <2> QED BY <2>1, <2>2 DEF IInv, ReplacedIsCancelled, CancelPending
  <1> QED BY IInvHolds, <1>1, PTL

\* cancel_matching reaches every registration that was in the table when it
\* collected the execution ids.
THEOREM BroadcastsReachTheirSnapshot == Spec => []BroadcastReachesSnapshot
  <1>1. IInv => BroadcastReachesSnapshot
    BY DEF IInv, SnapshotTracked, Tracked, BroadcastReachesSnapshot
  <1> QED BY IInvHolds, <1>1, PTL

\* Only a registration that was replaced leaves an interrupt behind.
THEOREM LeftoverInterruptsWereReplaced == Spec => []LeftoverInterruptWasReplaced
  <1>1. IInv => LeftoverInterruptWasReplaced
    BY DEF IInv, InterruptOwner, LeftoverInterruptWasReplaced
  <1> QED BY IInvHolds, <1>1, PTL

-----------------------------------------------------------------------------
\* The execution id of r was never held by two registrations at once.
Alone(r) == \A q \in Regs : execOf[q] = execOf[r] => previous[q] = None

\* A registration that no other one of its execution id met in the table is in
\* the table while it runs, and its entry has the pool it recorded last; it has
\* no pool before.
PoolRecorded ==
  \A r \in Regs :
    /\ pc[r] \in {"idle", "insert", "cancelPrevious", "firePrevious"} => usingPool[r] = Nil
    /\ pc[r] \in {"idle", "insert"} => poolKey[r] = Nil
    /\ pc[r] = "firePrevious" => previous[r] # None
    /\ pc[r] \in {"running", "recording"} /\ Alone(r) => inner[execOf[r]] = r
    /\ pc[r] = "running" /\ Alone(r) => poolKey[r] = usingPool[r]

\* PoolRecorded survives the registration steps.
LEMMA RegisterKeepsPool ==
  ASSUME IInv, PoolRecorded, NEW r \in Regs,
         \/ \E e \in ExecIds, c \in Conns : DrawId(r, e, c)
         \/ CancelPrevious(r) \/ FirePrevious(r) \/ RegisterInterrupt(r) \/ DropInterrupt(r)
  PROVE  PoolRecorded'
  <1> USE RunningQueriesAssumption DEF Regs, None
  <1>1. CASE \E e \in ExecIds, c \in Conns : DrawId(r, e, c)
    <2>1. PICK e \in ExecIds, c \in Conns : DrawId(r, e, c)
      BY <1>1
    <2>2. pc[r] = "idle" /\ previous[r] = None
      BY <2>1 DEF IInv, TypeOK, DrawId, DrawnHasExec, PreviousInserted
    <2>3. pc'[r] = "insert" /\ (\A q \in Regs : q # r => pc'[q] = pc[q] /\ execOf'[q] = execOf[q])
      BY <2>1 DEF IInv, TypeOK, DrawId
    <2>4. UNCHANGED <<inner, poolKey, usingPool, previous>>
      BY <2>1 DEF DrawId
    <2> QED BY <2>2, <2>3, <2>4 DEF PoolRecorded, Alone
  <1>2. CASE CancelPrevious(r)
    BY <1>2 DEF IInv, TypeOK, CancelPrevious, PoolRecorded, Alone, PreviousInserted, tableVars
  <1>3. CASE FirePrevious(r)
    BY <1>3 DEF IInv, TypeOK, FirePrevious, PoolRecorded, Alone, PreviousInserted
  <1>4. CASE RegisterInterrupt(r)
    BY <1>4 DEF RegisterInterrupt, PoolRecorded, Alone, regVars
  <1>5. CASE DropInterrupt(r)
    BY <1>5 DEF IInv, TypeOK, DropInterrupt, PoolRecorded, Alone
  <1> QED BY <1>1, <1>2, <1>3, <1>4, <1>5

\* An insert over another registration ends the claim of its execution id; an
\* insert into a free place starts without a pool.
LEMMA InsertKeepsPool ==
  ASSUME IInv, PoolRecorded, NEW r \in Regs, Insert(r)
  PROVE  PoolRecorded'
  <1> USE RunningQueriesAssumption DEF Regs, None
  <1>1. execOf[r] \in ExecIds /\ pc[r] = "insert" /\ inner[execOf[r]] # r
    BY DEF IInv, DrawnHasExec, InnerOwner, Live, Insert
  <1>2. /\ previous'[r] = inner[execOf[r]] /\ inner'[execOf[r]] = r
        /\ pc'[r] = (IF inner[execOf[r]] = None THEN "running" ELSE "cancelPrevious")
        /\ poolKey'[r] = Nil /\ usingPool[r] = Nil
    BY <1>1 DEF IInv, TypeOK, Insert, PoolRecorded
  <1>3. execOf' = execOf /\ usingPool' = usingPool
    BY DEF Insert
  <1>4. ASSUME NEW q \in Regs, q # r
        PROVE  /\ pc'[q] = pc[q] /\ previous'[q] = previous[q]
               /\ poolKey'[q] = (IF q = inner[execOf[r]] THEN Nil ELSE poolKey[q])
    BY <1>4 DEF IInv, TypeOK, Insert
  <1>5. \A e \in ExecIds : e # execOf[r] => inner'[e] = inner[e]
    BY <1>1 DEF IInv, TypeOK, Insert
  <1>6. ASSUME NEW q \in Regs, q # r, pc[q] \in {"running", "recording"}, Alone(q)'
        PROVE  inner'[execOf[q]] = q /\ poolKey'[q] = poolKey[q] /\ Alone(q)
    <2>1. Alone(q)
      BY <1>1, <1>3, <1>4, <1>6 DEF IInv, PreviousInserted, Alone
    <2>2. inner[execOf[q]] = q /\ execOf[q] \in ExecIds
      BY <1>6, <2>1 DEF PoolRecorded, IInv, DrawnHasExec
    <2>3. execOf[q] # execOf[r]
      BY <1>2, <1>3, <1>6, <2>2 DEF Alone
    <2>4. inner[execOf[r]] # q
      BY <1>1, <2>3 DEF IInv, InnerOwner
    <2> QED BY <1>4, <1>5, <1>6, <2>1, <2>2, <2>3, <2>4
  <1>7. ASSUME NEW q \in Regs, pc[q] \in {"idle", "insert"}, q # r PROVE poolKey'[q] = Nil
    BY <1>4, <1>7 DEF PoolRecorded
  <1> QED BY <1>1, <1>2, <1>3, <1>4, <1>6, <1>7 DEF PoolRecorded

\* Taking a pool only moves the claim of the taker to its next set_pool_key.
LEMMA TakePoolKeepsPool ==
  ASSUME IInv, PoolRecorded, NEW r \in Regs, NEW p \in Pools, TakePool(r, p)
  PROVE  PoolRecorded'
  <1>1. pc[r] = "running" /\ UNCHANGED <<inner, execOf, previous, poolKey>>
    BY DEF TakePool, tableVars
  <1>2. pc'[r] = "recording" /\ \A q \in Regs : q # r => pc'[q] = pc[q] /\ usingPool'[q] = usingPool[q]
    BY DEF IInv, TypeOK, TakePool
  <1> QED BY <1>1, <1>2 DEF PoolRecorded, Alone

\* set_pool_key of a registration that is alone writes its own entry; one that is
\* not alone makes no claim, nor does the entry it writes to.
LEMMA SetPoolKeyKeepsPool ==
  ASSUME IInv, PoolRecorded, NEW r \in Regs, SetPoolKey(r)
  PROVE  PoolRecorded'
  <1> USE RunningQueriesAssumption DEF Regs, None
  <1>1. /\ execOf[r] \in ExecIds /\ pc[r] = "recording"
        /\ UNCHANGED <<inner, execOf, previous, usingPool>>
    BY DEF IInv, DrawnHasExec, SetPoolKey, tableVars
  <1>2. \A q \in Regs : /\ pc'[q] = (IF q = r THEN "running" ELSE pc[q])
                        /\ poolKey'[q] = (IF q = inner[execOf[r]] THEN usingPool[r] ELSE poolKey[q])
    BY DEF IInv, TypeOK, SetPoolKey
  <1>3. \A q \in Regs : Alone(q)' <=> Alone(q)
    BY <1>1 DEF Alone
  <1>4. ASSUME NEW q \in Regs, q = inner[execOf[r]], q # r PROVE Live(q) /\ ~Alone(q)
    <2>1. Live(q) /\ execOf[q] = execOf[r]
      BY <1>1, <1>4 DEF IInv, InnerOwner
    <2>2. ~Alone(r)
      BY <1>1, <1>4 DEF PoolRecorded
    <2> QED BY <2>1, <2>2 DEF Alone
  <1>5. ASSUME NEW q \in Regs, pc'[q] = "running", Alone(q) PROVE poolKey'[q] = usingPool[q]
    <2>1. CASE q = r
      <3>1. inner[execOf[r]] = r
        BY <1>1, <1>5, <2>1 DEF PoolRecorded
      <3> QED BY <1>2, <2>1, <3>1
    <2>2. CASE q # r
      BY <1>2, <1>4, <1>5, <2>2 DEF PoolRecorded
    <2> QED BY <2>1, <2>2
  <1>6. ASSUME NEW q \in Regs, pc'[q] \in {"idle", "insert"} PROVE poolKey'[q] = Nil
    BY <1>1, <1>2, <1>4, <1>6 DEF PoolRecorded, Live
  <1> QED BY <1>1, <1>2, <1>3, <1>5, <1>6 DEF PoolRecorded

\* remove takes only its own entry out of the table.
LEMMA DropInnerKeepsPool ==
  ASSUME IInv, PoolRecorded, NEW r \in Regs, DropInner(r)
  PROVE  PoolRecorded'
  <1> USE RunningQueriesAssumption DEF Regs, None
  <1>1. execOf[r] \in ExecIds /\ UNCHANGED <<execOf, previous>>
    BY DEF IInv, DrawnHasExec, DropInner
  <1>2. pc'[r] \in {"dropInterrupt", "done"}
    BY DEF IInv, TypeOK, DropInner
  <1>3. ASSUME NEW q \in Regs, q # r
        PROVE  /\ pc'[q] = pc[q] /\ usingPool'[q] = usingPool[q] /\ poolKey'[q] = poolKey[q]
               /\ execOf[q] \in ExecIds /\ inner[execOf[q]] = q => inner'[execOf[q]] = q
    BY <1>1, <1>3 DEF IInv, TypeOK, DropInner
  <1>4. \A q \in Regs : pc[q] \in {"running", "recording"} => execOf[q] \in ExecIds
    BY DEF IInv, DrawnHasExec
  <1>5. \A q \in Regs : Alone(q)' <=> Alone(q)
    BY <1>1 DEF Alone
  <1> QED BY <1>1, <1>2, <1>3, <1>4, <1>5 DEF PoolRecorded

\* Every step keeps PoolRecorded; a canceller touches none of its parts.
LEMMA NextKeepsPool == IInv /\ PoolRecorded /\ [Next]_vars => PoolRecorded'
  <1> SUFFICES ASSUME IInv, PoolRecorded, [Next]_vars PROVE PoolRecorded'
    OBVIOUS
  <1>1. ASSUME NEW r \in Regs, Worker(r) PROVE PoolRecorded'
    BY <1>1, RegisterKeepsPool, InsertKeepsPool, TakePoolKeepsPool, SetPoolKeyKeepsPool, DropInnerKeepsPool
       DEF Worker
  <1>2. ASSUME NEW c \in Cancellers, Canceller(c) PROVE UNCHANGED <<inner, execOf, poolKey, usingPool, previous, pc>>
    BY <1>2 DEF Canceller, CancelStep, CancelOne, CancelMatching, ReadToken, TakeInterrupt, Fire, CancelToken,
       CancelReturns, tableVars, regVars
  <1>3. CASE UNCHANGED <<inner, execOf, poolKey, usingPool, previous, pc>>
    BY <1>3 DEF PoolRecorded, Alone
  <1>4. UNCHANGED vars => UNCHANGED <<inner, execOf, poolKey, usingPool, previous, pc>>
    BY DEF vars, tableVars, regVars
  <1> QED BY <1>1, <1>2, <1>3, <1>4 DEF Next

\* From set_pool_key on, the pool a query runs on is active for is_pool_active,
\* as long as its execution id belongs to one registration at a time.
THEOREM PoolsOfRunningQueriesAreActive == Spec => []PoolOfRunningQueryIsActive
  <1> USE RunningQueriesAssumption DEF Regs, None
  <1>1. Init => PoolRecorded
    BY DEF Init, PoolRecorded, Alone
  <1>2. IInv /\ PoolRecorded => PoolOfRunningQueryIsActive
    <2> SUFFICES ASSUME IInv, PoolRecorded, NEW r \in Regs, pc[r] = "running", usingPool[r] # Nil,
                        \A q \in Regs : execOf[q] = execOf[r] => previous[q] = None
                 PROVE  is_pool_active(usingPool[r])
      BY DEF PoolOfRunningQueryIsActive
    <2>1. inner[execOf[r]] = r /\ poolKey[r] = usingPool[r] /\ execOf[r] \in ExecIds
      BY DEF PoolRecorded, Alone, IInv, DrawnHasExec
    <2> QED BY <2>1 DEF is_pool_active
  <1> QED BY <1>1, <1>2, IInvHolds, NextKeepsPool, PTL DEF Spec

-----------------------------------------------------------------------------
(* The agent loop.                                                         *)

InTools == {"toolCheck", "parallel", "sequential"}

\* The conversation begins with the user and is paired, but for the last message
\* while its tools run.
ConversationPaired ==
  /\ Len(messages) >= 1 /\ messages[1] = User
  /\ stage \in InTools => /\ Len(messages) >= 2
                          /\ messages[Len(messages)].calls # {}
                          /\ Paired(messages, Len(messages) - 1)
  /\ stage \notin InTools \cup {"done"} => Paired(messages, Len(messages))

\* A turn in progress is one of the turns there are.
TurnInRange ==
  stage \in {"plan", "summarize", "summary", "request", "stream"} \cup InTools => turn < MaxTurns

\* The permit of a stop stays until it ends the run, and what began after the stop
\* leaves the run where it can only end.
StopIsPending ==
  /\ stopped /\ stage # "done" => permit
  /\ late # {} => stopped
  /\ "text" \in late => stage \in {"text", "done"}

RunInv ==
  /\ RunTypeOK
  /\ TurnInRange
  /\ StopIsPending
  /\ StopPreventsRequests
  /\ ConversationPaired
-----------------------------------------------------------------------------
\* The calls before a call, and its place in the order of the calls.
Below(S, c) == {d \in S : d < c}
Rank(S, c) == Cardinality(Below(S, c))

\* The places are numbered from zero.
LEMMA RankInRange ==
  ASSUME NEW S \in SUBSET Nat, IsFiniteSet(S), NEW c \in S
  PROVE  /\ IsFiniteSet(Below(S, c))
         /\ Rank(S, c) \in Nat
         /\ Rank(S, c) \in 0..(Cardinality(S) - 1)
  <1>1. IsFiniteSet(S \ {c}) /\ Cardinality(S \ {c}) = Cardinality(S) - 1 /\ Cardinality(S) \in Nat
    BY FS_RemoveElement, FS_CardinalityType
  <1>2. Below(S, c) \in SUBSET (S \ {c})
    BY DEF Below
  <1>3. IsFiniteSet(Below(S, c)) /\ Rank(S, c) <= Cardinality(S \ {c})
    BY <1>1, <1>2, FS_Subset DEF Rank
  <1>4. Rank(S, c) \in Nat
    BY <1>3, FS_CardinalityType DEF Rank
  <1> QED BY <1>1, <1>3, <1>4

\* A later call has a later place.
LEMMA RankGrows ==
  ASSUME NEW S \in SUBSET Nat, IsFiniteSet(S), NEW x \in S, NEW y \in S, x < y
  PROVE  Rank(S, x) < Rank(S, y)
  <1>1. x \in Below(S, y)
    BY DEF Below
  <1>2. Below(S, x) \in SUBSET (Below(S, y) \ {x})
    <2> SUFFICES ASSUME NEW d \in Below(S, x) PROVE d \in Below(S, y) \ {x}
      OBVIOUS
    <2>1. d \in Nat /\ x \in Nat /\ y \in Nat /\ d \in S /\ d < x
      BY DEF Below
    <2>2. d < y /\ d # x
      BY <2>1
    <2> QED BY <2>1, <2>2 DEF Below
  <1>3. IsFiniteSet(Below(S, y)) /\ Rank(S, y) \in Nat
    BY RankInRange
  <1>4. Rank(S, x) \in Nat
    BY RankInRange
  <1>5. IsFiniteSet(Below(S, y) \ {x}) /\ Cardinality(Below(S, y) \ {x}) = Rank(S, y) - 1
    BY <1>1, <1>3, FS_RemoveElement DEF Rank
  <1>6. Rank(S, x) <= Cardinality(Below(S, y) \ {x})
    BY <1>2, <1>5, FS_Subset DEF Rank
  <1> QED BY <1>3, <1>4, <1>5, <1>6

\* A place belongs to one call.
LEMMA RankInjective ==
  ASSUME NEW S \in SUBSET Nat, IsFiniteSet(S), NEW a \in S, NEW b \in S, Rank(S, a) = Rank(S, b)
  PROVE  a = b
  <1>1. a < b \/ b < a \/ a = b
    OBVIOUS
  <1>2. Rank(S, a) \in Nat /\ Rank(S, b) \in Nat
    BY RankInRange
  <1>3. ~(a < b)
    BY <1>2, RankGrows
  <1>4. ~(b < a)
    BY <1>2, RankGrows
  <1> QED BY <1>1, <1>3, <1>4

\* Every place is taken.
LEMMA RankOnto ==
  ASSUME NEW S \in SUBSET Nat, IsFiniteSet(S), NEW i \in 0..(Cardinality(S) - 1)
  PROVE  \E c \in S : Rank(S, c) = i
  <1> DEFINE T == 0..(Cardinality(S) - 1)
             f == [c \in S |-> Rank(S, c)]
  <1>1. \A c \in S : Rank(S, c) \in T
    BY RankInRange
  <1>2. \A a, b \in S : Rank(S, a) = Rank(S, b) => a = b
    BY RankInjective
  <1>3. IsFiniteSet(T) /\ Cardinality(T) = Cardinality(S)
    BY FS_CardinalityType, FS_Interval
  <1> HIDE DEF T
  <1>4. f \in Injection(S, T)
    BY <1>1, <1>2 DEF Injection, IsInjective
  <1> HIDE DEF f
  <1>5. f \in Surjection(S, T)
    BY <1>3, <1>4, FS_Injection
  <1>6. \A t \in T : \E c \in S : f[c] = t
    BY <1>5 DEF Surjection
  <1> QED BY <1>6 DEF T, f

\* A finite set of numbers that is not empty has a greatest element.
LEMMA GreatestExists ==
  ASSUME NEW S \in SUBSET Nat, IsFiniteSet(S), S # {}
  PROVE  \E m \in S : \A k \in S : k <= m
  <1>1. Cardinality(S) \in Nat /\ Cardinality(S) # 0
    BY FS_CardinalityType, FS_EmptySet
  <1>2. PICK m \in S : Cardinality(Below(S, m)) = Cardinality(S) - 1
    <2>1. Cardinality(S) - 1 \in 0..(Cardinality(S) - 1)
      BY <1>1
    <2> QED BY <2>1, RankOnto DEF Rank
  <1>3. IsFiniteSet(S \ {m}) /\ Cardinality(S \ {m}) = Cardinality(S) - 1
    BY FS_RemoveElement
  <1>4. Below(S, m) \in SUBSET (S \ {m})
    BY DEF Below
  <1>5. Below(S, m) = S \ {m}
    BY <1>2, <1>3, <1>4, FS_Subset
  <1> QED BY <1>5 DEF Below

-----------------------------------------------------------------------------
\* What the kinds of messages have in common.
LEMMA MessageFacts ==
  ASSUME NEW m \in Messages
  PROVE  /\ m.calls \in SUBSET CallIds /\ IsFiniteSet(m.calls) /\ Cardinality(m.calls) \in Nat
         /\ m.calls # {} => m.role = "assistant"
  <1>1. m.calls \in SUBSET CallIds /\ (m.calls # {} => m.role = "assistant")
    BY DEF Messages, User, Assistant, Tool
  <1>2. IsFiniteSet(m.calls)
    BY <1>1, AgentLoopAssumption, FS_Subset
  <1> QED BY <1>1, <1>2, FS_CardinalityType

\* User and final answers call for nothing and answer nothing.
LEMMA PlainMessages ==
  /\ User \in Messages /\ User.calls = {} /\ User.role # "tool"
  /\ Assistant({}) \in Messages /\ Assistant({}).calls = {} /\ Assistant({}).role # "tool"
  BY DEF Messages, User, Assistant

\* Messages added at the end of a conversation.
LEMMA ConcatFacts ==
  ASSUME NEW a \in Seq(Messages), NEW b \in Seq(Messages)
  PROVE  /\ a \o b \in Seq(Messages)
         /\ Len(a) \in Nat /\ Len(b) \in Nat /\ Len(a \o b) = Len(a) + Len(b)
         /\ \A k \in 1..Len(a) : (a \o b)[k] = a[k]
         /\ \A k \in 1..Len(b) : (a \o b)[Len(a) + k] = b[k]
  OBVIOUS

\* A conversation stays paired when plain messages are added.
LEMMA ExtendPaired ==
  ASSUME NEW ms \in Seq(Messages), NEW new \in Seq(Messages), NEW n \in Nat, NEW p \in Nat,
         n <= p, n <= Len(ms), p <= Len(new),
         \A k \in 1..n : new[k] = ms[k],
         \A k \in (n + 1)..p : new[k].calls = {} /\ new[k].role # "tool",
         Paired(ms, n)
  PROVE  Paired(new, p)
  <1>1. ASSUME NEW i \in 1..p, new[i].calls # {}
        PROVE  /\ i + Cardinality(new[i].calls) <= p
               /\ {new[k].of : k \in (i + 1)..(i + Cardinality(new[i].calls))} = new[i].calls
    <2>1. i \in 1..n /\ new[i] = ms[i] /\ ms[i] \in Messages
      BY <1>1
    <2>2. Cardinality(ms[i].calls) \in Nat
      BY <2>1, MessageFacts
    <2>3. /\ i + Cardinality(ms[i].calls) <= n
          /\ {ms[k].of : k \in (i + 1)..(i + Cardinality(ms[i].calls))} = ms[i].calls
      BY <1>1, <2>1 DEF Paired
    <2>4. \A k \in (i + 1)..(i + Cardinality(ms[i].calls)) : new[k] = ms[k]
      BY <2>1, <2>2, <2>3
    <2> DEFINE I == (i + 1)..(i + Cardinality(ms[i].calls))
    <2>5. {new[k].of : k \in I} = {ms[k].of : k \in I}
      <3> HIDE DEF I
      <3>1. \A k \in I : new[k] = ms[k]
        BY <2>4 DEF I
      <3> QED BY <3>1
    <2>6. i + Cardinality(ms[i].calls) <= p
      BY <2>1, <2>2, <2>3
    <2> QED BY <2>1, <2>3, <2>5, <2>6
  <1>2. ASSUME NEW i \in 1..p, new[i].role = "tool"
        PROVE  \E j \in 1..(i - 1) : /\ new[i].of \in new[j].calls
                                     /\ \A k \in (j + 1)..i : new[k].role = "tool"
    <2>1. i \in 1..n
      BY <1>2
    <2>2. PICK j \in 1..(i - 1) : ms[i].of \in ms[j].calls /\ \A k \in (j + 1)..i : ms[k].role = "tool"
      BY <1>2, <2>1 DEF Paired
    <2>3. new[i] = ms[i] /\ new[j] = ms[j] /\ \A k \in (j + 1)..i : new[k] = ms[k]
      BY <2>1
    <2>4. new[i].of \in new[j].calls /\ \A k \in (j + 1)..i : new[k].role = "tool"
      BY <2>2, <2>3
    <2> QED BY <2>4
  <1> QED BY <1>1, <1>2 DEF Paired

\* The results of a turn are one message for every call.
LEMMA ResultFacts ==
  ASSUME NEW cs \in SUBSET CallIds
  PROVE  LET N == Cardinality(cs)
             rs == Results(cs)
         IN  /\ N \in Nat /\ rs \in Seq(Messages) /\ Len(rs) = N
             /\ \A i \in 1..N : rs[i].role = "tool" /\ rs[i].calls = {} /\ rs[i].of \in cs
             /\ \A c \in cs : \E i \in 1..N : rs[i].of = c
  <1> DEFINE N == Cardinality(cs)
             rs == Results(cs)
  <1>1. cs \in SUBSET Nat /\ IsFiniteSet(cs) /\ N \in Nat
    <2>1. IsFiniteSet(cs) /\ cs \in SUBSET Nat
      BY AgentLoopAssumption, FS_Subset
    <2> QED BY <2>1, FS_CardinalityType
  <1>2. DOMAIN rs = 1..N /\ rs = [i \in 1..N |-> rs[i]]
    BY DEF Results
  <1>3. ASSUME NEW i \in 1..N
        PROVE  \E c \in cs : rs[i] = Tool(c) /\ Rank(cs, c) = i - 1
    <2>1. i - 1 \in 0..(N - 1)
      BY <1>1
    <2>2. \E c \in cs : Rank(cs, c) = i - 1
      BY <1>1, <2>1, RankOnto
    <2>3. rs[i] = Tool(CHOOSE c \in cs : Rank(cs, c) = i - 1)
      BY DEF Results, Rank, Below
    <2> QED BY <2>2, <2>3
  <1> HIDE DEF N, rs
  <1>4. ASSUME NEW i \in 1..N
        PROVE  rs[i] \in Messages /\ rs[i].role = "tool" /\ rs[i].calls = {} /\ rs[i].of \in cs
    <2>1. PICK c \in cs : rs[i] = Tool(c)
      BY <1>3
    <2>2. Tool(c) \in Messages
      BY DEF Messages
    <2> QED BY <2>1, <2>2 DEF Tool
  <1>5. rs \in Seq(Messages) /\ Len(rs) = N
    <2>1. rs \in [1..N -> Messages]
      BY <1>2, <1>4
    <2> QED BY <1>1, <2>1
  <1>6. ASSUME NEW c \in cs
        PROVE  \E i \in 1..N : rs[i].of = c
    <2> DEFINE r == Rank(cs, c)
    <2>1. r \in 0..(N - 1)
      BY <1>1, RankInRange DEF N
    <2> HIDE DEF r
    <2>2. r + 1 \in 1..N /\ (r + 1) - 1 = r
      BY <1>1, <2>1
    <2>3. PICK e \in cs : rs[r + 1] = Tool(e) /\ Rank(cs, e) = (r + 1) - 1
      BY <1>3, <2>2
    <2>4. Rank(cs, e) = Rank(cs, c)
      BY <2>2, <2>3 DEF r
    <2>5. e = c
      BY <1>1, <2>4, RankInjective
    <2>6. rs[r + 1].of = c
      BY <2>3, <2>5 DEF Tool
    <2> QED BY <2>2, <2>6
  <1> QED BY <1>1, <1>4, <1>5, <1>6 DEF N, rs

\* The results of the calls of the last message complete the conversation.
LEMMA ResultsPaired ==
  ASSUME NEW ms \in Seq(Messages), NEW n \in Nat, Len(ms) = n + 1, Paired(ms, n), ms[n + 1].calls # {}
  PROVE  LET new == ms \o Results(ms[n + 1].calls)
         IN  new \in Seq(Messages) /\ Len(new) >= n + 1 /\ new[1] = ms[1] /\ Paired(new, Len(new))
  <1> DEFINE cs == ms[n + 1].calls
             N == Cardinality(cs)
             rs == Results(cs)
             new == ms \o rs
  <1>1. cs \in SUBSET CallIds /\ ms[n + 1] \in Messages
    <2>1. ms[n + 1] \in Messages
      OBVIOUS
    <2> QED BY <2>1, MessageFacts
  <1>2. N \in Nat /\ rs \in Seq(Messages) /\ Len(rs) = N
    BY <1>1, ResultFacts
  <1>3. \A i \in 1..N : rs[i].role = "tool" /\ rs[i].calls = {} /\ rs[i].of \in cs
    BY <1>1, ResultFacts
  <1>4. \A c \in cs : \E i \in 1..N : rs[i].of = c
    BY <1>1, ResultFacts
  <1> HIDE DEF N, rs, cs
  <1>5. /\ new \in Seq(Messages) /\ Len(new) = n + 1 + N
        /\ \A k \in 1..(n + 1) : new[k] = ms[k]
        /\ \A k \in 1..N : new[n + 1 + k] = rs[k]
    <2>1. /\ new \in Seq(Messages) /\ Len(new) = Len(ms) + Len(rs)
          /\ \A k \in 1..Len(ms) : new[k] = ms[k]
          /\ \A k \in 1..Len(rs) : new[Len(ms) + k] = rs[k]
      BY <1>2, ConcatFacts, Zenon
    <2> HIDE DEF new
    <2> QED BY <1>2, <2>1
  <1> HIDE DEF new
  <1>6. ASSUME NEW i \in 1..(n + 1 + N), new[i].calls # {}
        PROVE  /\ i + Cardinality(new[i].calls) <= n + 1 + N
               /\ {new[k].of : k \in (i + 1)..(i + Cardinality(new[i].calls))} = new[i].calls
    <2>1. CASE i \in 1..n
      <3>1. new[i] = ms[i] /\ ms[i] \in Messages
        BY <1>5, <2>1
      <3>2. Cardinality(ms[i].calls) \in Nat
        BY <3>1, MessageFacts
      <3>3. /\ i + Cardinality(ms[i].calls) <= n
            /\ {ms[k].of : k \in (i + 1)..(i + Cardinality(ms[i].calls))} = ms[i].calls
        BY <1>6, <2>1, <3>1 DEF Paired
      <3>4. \A k \in (i + 1)..(i + Cardinality(ms[i].calls)) : new[k] = ms[k]
        BY <1>5, <2>1, <3>2, <3>3
      <3>5. {new[k].of : k \in (i + 1)..(i + Cardinality(ms[i].calls))} = ms[i].calls
        BY <3>3, <3>4
      <3>6. i + Cardinality(ms[i].calls) <= n + 1 + N
        BY <1>1, <1>2, <2>1, <3>2, <3>3
      <3> QED BY <3>1, <3>5, <3>6
    <2>2. CASE i = n + 1
      <3>1. new[i] = ms[n + 1] /\ new[i].calls = cs
        BY <1>5, <2>2 DEF cs
      <3>2. {new[k].of : k \in (n + 2)..(n + 1 + N)} \subseteq cs
        <4> SUFFICES ASSUME NEW k \in (n + 2)..(n + 1 + N) PROVE new[k].of \in cs
          OBVIOUS
        <4>1. k - (n + 1) \in 1..N /\ n + 1 + (k - (n + 1)) = k
          BY <1>1, <1>2
        <4> QED BY <1>3, <1>5, <4>1
      <3>3. cs \subseteq {new[k].of : k \in (n + 2)..(n + 1 + N)}
        <4> SUFFICES ASSUME NEW c \in cs PROVE \E k \in (n + 2)..(n + 1 + N) : new[k].of = c
          OBVIOUS
        <4>1. PICK j \in 1..N : rs[j].of = c
          BY <1>4
        <4>2. n + 1 + j \in (n + 2)..(n + 1 + N)
          BY <1>2
        <4>3. new[n + 1 + j] = rs[j]
          BY <1>5
        <4> QED BY <4>1, <4>2, <4>3
      <3>4. Cardinality(new[i].calls) = N /\ i + 1 = n + 2
        BY <2>2, <3>1 DEF N
      <3>5. {new[k].of : k \in (n + 2)..(n + 1 + N)} = cs
        BY <3>2, <3>3
      <3>6. i + Cardinality(new[i].calls) = n + 1 + N
        BY <2>2, <3>4
      <3> QED BY <1>2, <3>1, <3>4, <3>5, <3>6
    <2>3. CASE i \in (n + 2)..(n + 1 + N)
      <3>1. i - (n + 1) \in 1..N /\ n + 1 + (i - (n + 1)) = i
        BY <1>1, <1>2, <2>3
      <3> QED BY <1>3, <1>5, <1>6, <3>1
    <2> QED BY <1>1, <1>2, <2>1, <2>2, <2>3
  <1>7. ASSUME NEW i \in 1..(n + 1 + N), new[i].role = "tool"
        PROVE  \E j \in 1..(i - 1) : /\ new[i].of \in new[j].calls
                                     /\ \A k \in (j + 1)..i : new[k].role = "tool"
    <2>1. CASE i \in 1..n
      <3>1. PICK j \in 1..(i - 1) : ms[i].of \in ms[j].calls /\ \A k \in (j + 1)..i : ms[k].role = "tool"
        BY <1>5, <1>7, <2>1 DEF Paired
      <3> QED BY <1>5, <2>1, <3>1
    <2>2. CASE i = n + 1
      <3>1. ms[n + 1] \in Messages /\ new[i] = ms[n + 1]
        BY <1>5, <2>2
      <3> QED BY <1>7, <3>1, MessageFacts
    <2>3. CASE i \in (n + 2)..(n + 1 + N)
      <3>1. \A k \in (n + 2)..i : new[k].role = "tool" /\ new[k].of \in cs
        <4> SUFFICES ASSUME NEW k \in (n + 2)..i PROVE new[k].role = "tool" /\ new[k].of \in cs
          OBVIOUS
        <4>1. k - (n + 1) \in 1..N /\ n + 1 + (k - (n + 1)) = k
          BY <1>1, <1>2, <2>3
        <4> QED BY <1>3, <1>5, <4>1
      <3>2. new[n + 1].calls = cs /\ n + 1 \in 1..(i - 1) /\ i \in (n + 2)..i
        BY <1>1, <1>2, <1>5, <2>3 DEF cs
      <3> QED BY <3>1, <3>2
    <2> QED BY <1>1, <1>2, <2>1, <2>2, <2>3
  <1>8. Paired(new, Len(new))
    BY <1>5, <1>6, <1>7 DEF Paired
  <1>9. Len(new) >= n + 1 /\ new[1] = ms[1]
    BY <1>1, <1>2, <1>5
  <1> QED BY <1>5, <1>8, <1>9 DEF new, rs, cs

\* A cut is inside the conversation and never at the result of a tool.
LEMMA CutFacts ==
  ASSUME messages \in Seq(Messages), Paired(messages, Len(messages)), NEW c \in Cuts
  PROVE  c \in Nat /\ 1 < c /\ c < Len(messages) /\ messages[c + 1].role # "tool"
  <1>1. PICK i \in 0..(Len(messages) - 1) : c = AdjustedCut(i) /\ c > 1
    BY DEF Cuts
  <1>2. i \in Nat /\ i + 1 \in 1..Len(messages) /\ Len(messages) \in Nat
    OBVIOUS
  <1>3. CASE messages[i + 1].role = "tool"
    <2>1. PICK j \in 1..((i + 1) - 1) : messages[i + 1].of \in messages[j].calls
      BY <1>2, <1>3 DEF Paired
    <2>2. messages[j] \in Messages
      BY <1>2
    <2>3. messages[j].role = "assistant"
      BY <2>1, <2>2, MessageFacts
    <2>4. j - 1 \in 0..(i - 1) /\ (j - 1) + 1 = j
      BY <1>2
    <2>5. j - 1 \in Origins(i)
      BY <2>1, <2>3, <2>4 DEF Origins
    <2>6. IsFiniteSet(Origins(i)) /\ Origins(i) \in SUBSET Nat
      <3>1. Origins(i) \in SUBSET (0..(i - 1))
        BY DEF Origins
      <3>2. IsFiniteSet(0..(i - 1)) /\ 0..(i - 1) \subseteq Nat
        BY <1>2, FS_Interval
      <3> QED BY <3>1, <3>2, FS_Subset
    <2>7. \E m \in Origins(i) : \A k \in Origins(i) : k <= m
      BY <2>5, <2>6, GreatestExists
    <2>8. c \in Origins(i)
      BY <1>1, <1>3, <2>5, <2>7 DEF AdjustedCut
    <2>9. c \in 0..(i - 1) /\ messages[c + 1].role = "assistant"
      BY <2>8 DEF Origins
    <2> QED BY <1>1, <1>2, <2>9
  <1>4. CASE messages[i + 1].role # "tool"
    <2>1. c = i
      BY <1>1, <1>4 DEF AdjustedCut
    <2> QED BY <1>1, <1>2, <1>4, <2>1
  <1> QED BY <1>3, <1>4

\* What is left of a conversation cut before a message that is not a result is
\* paired.
LEMMA CutPaired ==
  ASSUME NEW ms \in Seq(Messages), NEW c \in Nat, 1 < c, c < Len(ms), ms[c + 1].role # "tool",
         Paired(ms, Len(ms)), ms[1] = User
  PROVE  LET new == <<ms[1], User>> \o SubSeq(ms, c + 1, Len(ms))
         IN  new \in Seq(Messages) /\ Len(new) >= 1 /\ new[1] = User /\ Paired(new, Len(new))
  <1> DEFINE L == Len(ms)
             head == <<ms[1], User>>
             tail == SubSeq(ms, c + 1, L)
             new == head \o tail
  <1>1. L \in Nat /\ L - c \in Nat
    OBVIOUS
  <1>2. head \in Seq(Messages) /\ Len(head) = 2 /\ head[1] = User /\ head[2] = User
    BY PlainMessages
  <1>3. tail \in Seq(Messages) /\ Len(tail) = L - c /\ \A k \in 1..(L - c) : tail[k] = ms[c + k]
    <2>1. \A k \in (c + 1)..L : ms[k] \in Messages
      BY <1>1
    <2>2. tail = [k \in 1..(L - c) |-> ms[c + k]]
      OBVIOUS
    <2>3. \A k \in 1..(L - c) : c + k \in (c + 1)..L
      BY <1>1
    <2>4. tail \in [1..(L - c) -> Messages]
      BY <2>1, <2>2, <2>3
    <2> QED BY <1>1, <2>2, <2>4
  <1> HIDE DEF L, head, tail
  <1>4. /\ new \in Seq(Messages) /\ Len(new) = Len(head) + Len(tail)
        /\ \A k \in 1..Len(head) : new[k] = head[k]
        /\ \A k \in 1..Len(tail) : new[Len(head) + k] = tail[k]
    BY <1>2, <1>3, ConcatFacts, Zenon
  <1> HIDE DEF new
  <1>5. Len(new) = 2 + (L - c) /\ new[1] = User /\ new[2] = User
    BY <1>2, <1>3, <1>4
  <1>6. ASSUME NEW k \in 3..(2 + (L - c))
        PROVE  new[k] = ms[k + c - 2]
    <2>1. k - 2 \in 1..Len(tail) /\ Len(head) + (k - 2) = k
      BY <1>1, <1>2, <1>3
    <2>2. new[k] = tail[k - 2]
      BY <1>4, <2>1
    <2>3. k - 2 \in 1..(L - c) /\ c + (k - 2) = k + c - 2
      BY <1>1
    <2> QED BY <1>3, <2>2, <2>3
  <1>7. ASSUME NEW i \in 1..(2 + (L - c)), new[i].calls # {} \/ new[i].role = "tool"
        PROVE  /\ i \in 3..(2 + (L - c)) /\ i + c - 2 \in (c + 1)..L /\ i + c - 2 \in 1..L
               /\ new[i] = ms[i + c - 2] /\ ms[i + c - 2] \in Messages
    <2>1. i # 1 /\ i # 2
      BY <1>5, <1>7, PlainMessages
    <2>2. i \in 3..(2 + (L - c))
      BY <1>1, <2>1
    <2>3. i + c - 2 \in (c + 1)..L /\ i + c - 2 \in 1..L
      BY <1>1, <2>2
    <2> QED BY <1>6, <2>2, <2>3 DEF L
  <1>8. ASSUME NEW i \in 1..(2 + (L - c)), new[i].calls # {}
        PROVE  /\ i + Cardinality(new[i].calls) <= 2 + (L - c)
               /\ {new[k].of : k \in (i + 1)..(i + Cardinality(new[i].calls))} = new[i].calls
    <2> DEFINE o == i + c - 2
               C == Cardinality(ms[o].calls)
    <2>1. i \in 3..(2 + (L - c)) /\ o \in 1..L /\ new[i] = ms[o] /\ ms[o] \in Messages
      BY <1>7, <1>8
    <2>2. C \in Nat
      BY <2>1, MessageFacts
    <2>3. o + C <= L /\ {ms[k].of : k \in (o + 1)..(o + C)} = ms[o].calls
      BY <1>8, <2>1 DEF Paired, L
    <2> HIDE DEF C
    <2>4. i + C <= 2 + (L - c)
      BY <1>1, <2>1, <2>2, <2>3
    <2>5. {new[k].of : k \in (i + 1)..(i + C)} \subseteq {ms[k].of : k \in (o + 1)..(o + C)}
      <3> SUFFICES ASSUME NEW k \in (i + 1)..(i + C)
                   PROVE  k + c - 2 \in (o + 1)..(o + C) /\ new[k] = ms[k + c - 2]
        OBVIOUS
      <3>1. k \in 3..(2 + (L - c)) /\ k + c - 2 \in (o + 1)..(o + C)
        BY <1>1, <2>1, <2>2, <2>4
      <3> QED BY <1>6, <3>1
    <2>6. {ms[k].of : k \in (o + 1)..(o + C)} \subseteq {new[k].of : k \in (i + 1)..(i + C)}
      <3> SUFFICES ASSUME NEW k \in (o + 1)..(o + C)
                   PROVE  k - c + 2 \in (i + 1)..(i + C) /\ new[k - c + 2] = ms[k]
        OBVIOUS
      <3>1. /\ k - c + 2 \in 3..(2 + (L - c)) /\ k - c + 2 \in (i + 1)..(i + C)
            /\ (k - c + 2) + c - 2 = k
        BY <1>1, <2>1, <2>2, <2>4
      <3> QED BY <1>6, <3>1
    <2>7. {new[k].of : k \in (i + 1)..(i + C)} = ms[o].calls
      BY <2>3, <2>5, <2>6
    <2> QED BY <2>1, <2>4, <2>7 DEF C
  <1>9. ASSUME NEW i \in 1..(2 + (L - c)), new[i].role = "tool"
        PROVE  \E j \in 1..(i - 1) : /\ new[i].of \in new[j].calls
                                     /\ \A k \in (j + 1)..i : new[k].role = "tool"
    <2> DEFINE o == i + c - 2
    <2>1. i \in 3..(2 + (L - c)) /\ o \in (c + 1)..L /\ o \in 1..L /\ new[i] = ms[o]
      BY <1>7, <1>9
    <2>2. PICK j \in 1..(o - 1) : ms[o].of \in ms[j].calls /\ \A k \in (j + 1)..o : ms[k].role = "tool"
      BY <1>9, <2>1 DEF Paired, L
    <2>3. ~(j < c + 1)
      <3> SUFFICES ASSUME j < c + 1 PROVE FALSE
        OBVIOUS
      <3>1. c + 1 \in (j + 1)..o
        BY <1>1, <2>1
      <3> QED BY <2>2, <3>1
    <2>4. /\ j - c + 2 \in 3..(2 + (L - c)) /\ j - c + 2 \in 1..(i - 1)
          /\ (j - c + 2) + c - 2 = j
      BY <1>1, <2>1, <2>3
    <2>5. new[j - c + 2] = ms[j]
      BY <1>6, <2>4
    <2>6. ASSUME NEW k \in ((j - c + 2) + 1)..i
          PROVE  new[k].role = "tool"
      <3>1. k \in 3..(2 + (L - c)) /\ k + c - 2 \in (j + 1)..o
        BY <1>1, <2>1, <2>3, <2>4
      <3> QED BY <1>6, <2>2, <3>1
    <2> QED BY <2>1, <2>2, <2>4, <2>5, <2>6
  <1>10. Paired(new, Len(new))
    BY <1>5, <1>8, <1>9 DEF Paired
  <1>11. Len(new) >= 1
    BY <1>1, <1>5
  <1> QED BY <1>4, <1>5, <1>10, <1>11 DEF new, head, tail, L

-----------------------------------------------------------------------------
\* The turn, the permit and what began after a stop, step by step.
LEMMA StopStep ==
  ASSUME RunInv, [RunNext]_runVars
  PROVE  TurnInRange' /\ StopIsPending' /\ StopPreventsRequests'
  <1> USE AgentLoopAssumption DEF TurnInRange, StopIsPending, StopPreventsRequests, InTools
  <1>1. /\ TurnInRange /\ StopIsPending /\ StopPreventsRequests
        /\ turn \in 0..MaxTurns /\ repairs \in 0..MaxRepairs
    BY DEF RunInv, RunTypeOK
  <1>2. CASE Stop
    BY <1>1, <1>2 DEF Stop
  <1>3. CASE StopHonoured
    BY <1>1, <1>3 DEF StopHonoured, Finish, TakePermit
  <1>4. CASE SupportKnown
    BY <1>1, <1>4 DEF SupportKnown
  <1>5. CASE Turn
    BY <1>1, <1>5 DEF Turn
  <1>6. CASE Exhausted
    BY <1>1, <1>6 DEF Exhausted, Finish
  <1>7. CASE NoCompaction
    BY <1>1, <1>7 DEF NoCompaction, Finish
  <1>8. CASE Compaction
    BY <1>1, <1>8 DEF Compaction
  <1>9. CASE Summarize
    BY <1>1, <1>9 DEF Summarize, Begin
  <1>10. CASE Compacted
    BY <1>1, <1>10 DEF Compacted
  <1>11. CASE Request
    BY <1>1, <1>11 DEF Request, Begin
  <1>12. CASE \E cs \in (SUBSET CallIds) \ {{}} : AnswerCalls(cs)
    BY <1>1, <1>12 DEF AnswerCalls
  <1>13. CASE AnswerFinal
    BY <1>1, <1>13 DEF AnswerFinal, Finish
  <1>14. CASE AnswerNeedsRepair
    BY <1>1, <1>14 DEF AnswerNeedsRepair
  <1>15. CASE TooLong
    BY <1>1, <1>15 DEF TooLong
  <1>16. CASE ToolsRejected
    BY <1>1, <1>16 DEF ToolsRejected
  <1>17. CASE StreamFails
    BY <1>1, <1>17 DEF StreamFails, Finish
  <1>18. CASE ToolCheck
    BY <1>1, <1>18 DEF ToolCheck
  <1>19. CASE \E cs \in SUBSET running : RunParallel(cs)
    <2>1. stage = "parallel" /\ stage' = "sequential" /\ UNCHANGED <<turn, repairs, permit, stopped>>
      BY <1>19 DEF RunParallel
    <2>2. late' = late \/ (stopped /\ late' = late \cup {"tool"})
      BY <1>19 DEF RunParallel, Begin
    <2> QED BY <1>1, <2>1, <2>2
  <1>20. CASE RunSequential
    BY <1>1, <1>20 DEF RunSequential, Begin
  <1>21. CASE PushResults
    BY <1>1, <1>21 DEF PushResults
  <1>22. CASE SchemaLoaded
    BY <1>1, <1>22 DEF SchemaLoaded
  <1>23. CASE TextRequest
    BY <1>1, <1>23 DEF TextRequest, Begin
  <1>24. CASE TextFinal
    BY <1>1, <1>24 DEF TextFinal, Finish
  <1>25. CASE TextNeedsRepair
    BY <1>1, <1>25 DEF TextNeedsRepair, Begin
  <1>26. CASE TextFails
    BY <1>1, <1>26 DEF TextFails, Finish
  <1>27. CASE Over
    BY <1>1, <1>27 DEF Over, runVars
  <1>28. CASE UNCHANGED runVars
    BY <1>1, <1>28 DEF runVars
  <1> QED BY <1>2, <1>3, <1>4, <1>5, <1>6, <1>7, <1>8, <1>9, <1>10, <1>11, <1>12, <1>13, <1>14, <1>15, <1>16, <1>17, <1>18, <1>19, <1>20, <1>21, <1>22, <1>23, <1>24, <1>25, <1>26, <1>27, <1>28 DEF RunNext, Step

\* A step that leaves the messages alone leaves the conversation as it is, when it
\* neither enters nor leaves the tools of a turn.
LEMMA SameConversation ==
  ASSUME ConversationPaired, messages' = messages,
         stage' = "done" \/ (stage # "done" /\ stage' # "done" /\ (stage' \in InTools <=> stage \in InTools))
  PROVE  ConversationPaired'
  <1>1. Len(messages) >= 1 /\ messages[1] = User
    BY DEF ConversationPaired
  <1>2. CASE stage' = "done"
    BY <1>1, <1>2 DEF ConversationPaired, InTools
  <1>3. CASE stage' # "done"
    BY <1>3 DEF ConversationPaired
  <1> QED BY <1>2, <1>3

\* A turn that only its calls' results are missing of goes on with its tools.
LEMMA ToolsStep ==
  ASSUME ConversationPaired, messages' = messages, stage \in InTools, stage' \in InTools
  PROVE  ConversationPaired'
  BY DEF ConversationPaired, InTools

\* The answer with calls is the last message while its tools run.
LEMMA CallsStep ==
  ASSUME RunInv, NEW cs \in (SUBSET CallIds) \ {{}}, AnswerCalls(cs)
  PROVE  messages' \in Seq(Messages) /\ ConversationPaired'
  <1>1. /\ messages \in Seq(Messages) /\ stage = "stream" /\ stage' = "toolCheck"
        /\ messages' = Append(messages, Assistant(cs))
    BY DEF RunInv, RunTypeOK, AnswerCalls
  <1>2. Len(messages) >= 1 /\ messages[1] = User /\ Paired(messages, Len(messages))
    BY <1>1 DEF RunInv, ConversationPaired, InTools
  <1>3. Assistant(cs) \in Messages /\ Assistant(cs).calls = cs
    BY DEF Messages, Assistant
  <1>4. /\ messages' \in Seq(Messages) /\ Len(messages') = Len(messages) + 1
        /\ messages'[Len(messages) + 1] = Assistant(cs)
        /\ \A k \in 1..Len(messages) : messages'[k] = messages[k]
    BY <1>1, <1>3
  <1>5. Len(messages) \in Nat
    BY <1>1
  <1>6. Paired(messages', Len(messages))
    <2> DEFINE n == Len(messages)
    <2>1. n \in Nat /\ n <= n /\ n <= Len(messages) /\ n <= Len(messages')
      BY <1>4, <1>5
    <2>2. \A k \in (n + 1)..n : messages'[k].calls = {} /\ messages'[k].role # "tool"
      BY <1>5
    <2> QED BY <1>1, <1>2, <1>4, <2>1, <2>2, ExtendPaired
  <1>7. Len(messages') - 1 = Len(messages) /\ Len(messages') >= 2 /\ messages'[1] = User
    BY <1>2, <1>4, <1>5
  <1>8. messages'[Len(messages')].calls # {}
    <2>1. messages'[Len(messages')] = Assistant(cs)
      BY <1>4
    <2>2. cs # {}
      OBVIOUS
    <2> QED BY <1>3, <2>1, <2>2
  <1>9. Len(messages') >= 1
    BY <1>2, <1>4, <1>5
  <1>10. Paired(messages', Len(messages') - 1)
    BY <1>6, <1>7
  <1> QED BY <1>1, <1>4, <1>7, <1>8, <1>9, <1>10 DEF ConversationPaired, InTools

\* A final answer, and an answer that is to be repaired, add plain messages.
LEMMA PlainStep ==
  ASSUME RunInv, NEW new \in Seq(Messages), stage = "stream", stage' \notin InTools,
         messages' = messages \o new,
         \A k \in 1..Len(new) : new[k].calls = {} /\ new[k].role # "tool"
  PROVE  messages' \in Seq(Messages) /\ ConversationPaired'
  <1>1. messages \in Seq(Messages)
    BY DEF RunInv, RunTypeOK
  <1>2. Len(messages) >= 1 /\ messages[1] = User /\ Paired(messages, Len(messages))
    BY DEF RunInv, ConversationPaired, InTools
  <1>3. /\ messages' \in Seq(Messages) /\ Len(messages') = Len(messages) + Len(new)
        /\ Len(messages) \in Nat /\ Len(new) \in Nat
        /\ \A k \in 1..Len(messages) : messages'[k] = messages[k]
        /\ \A k \in 1..Len(new) : messages'[Len(messages) + k] = new[k]
    BY <1>1, ConcatFacts, Zenon
  <1> DEFINE n == Len(messages)
             p == Len(messages')
  <1>4. n \in Nat /\ p \in Nat /\ n <= p /\ n <= Len(messages) /\ p <= Len(messages')
    BY <1>3
  <1>5. ASSUME NEW k \in (n + 1)..p
        PROVE  messages'[k].calls = {} /\ messages'[k].role # "tool"
    <2>1. k - n \in 1..Len(new) /\ n + (k - n) = k
      BY <1>3
    <2> QED BY <1>3, <2>1
  <1>6. Paired(messages', p)
    BY <1>1, <1>2, <1>3, <1>4, <1>5, ExtendPaired
  <1>7. Len(messages') >= 1 /\ messages'[1] = User
    BY <1>2, <1>3
  <1> QED BY <1>3, <1>6, <1>7 DEF ConversationPaired

\* Compaction leaves a conversation that is paired.
LEMMA CompactedStep ==
  ASSUME RunInv, Compacted
  PROVE  messages' \in Seq(Messages) /\ ConversationPaired'
  <1>1. messages \in Seq(Messages) /\ stage = "summary" /\ stage' = "request"
    BY DEF RunInv, RunTypeOK, Compacted
  <1>2. messages[1] = User /\ Paired(messages, Len(messages))
    BY <1>1 DEF RunInv, ConversationPaired, InTools
  <1>3. PICK c \in Cuts : messages' = <<messages[1], User>> \o SubSeq(messages, c + 1, Len(messages))
    BY DEF Compacted
  <1>4. c \in Nat /\ 1 < c /\ c < Len(messages) /\ messages[c + 1].role # "tool"
    BY <1>1, <1>2, CutFacts
  <1>5. messages' \in Seq(Messages) /\ Len(messages') >= 1 /\ messages'[1] = User /\ Paired(messages', Len(messages'))
    BY <1>1, <1>2, <1>3, <1>4, CutPaired
  <1> QED BY <1>1, <1>5 DEF ConversationPaired, InTools

\* The results of the turn complete the conversation.
LEMMA PushStep ==
  ASSUME RunInv, PushResults
  PROVE  messages' \in Seq(Messages) /\ ConversationPaired'
  <1>1. /\ messages \in Seq(Messages) /\ stage = "sequential" /\ stage' = "turn"
        /\ messages' = messages \o Results(messages[Len(messages)].calls)
    BY DEF RunInv, RunTypeOK, PushResults
  <1>2. /\ Len(messages) >= 2 /\ messages[1] = User /\ messages[Len(messages)].calls # {}
        /\ Paired(messages, Len(messages) - 1)
    BY <1>1 DEF RunInv, ConversationPaired, InTools
  <1> DEFINE n == Len(messages) - 1
  <1>3. n \in Nat /\ n >= 1 /\ Len(messages) = n + 1
    BY <1>1, <1>2
  <1>4. messages[n + 1].calls # {} /\ messages' = messages \o Results(messages[n + 1].calls)
    BY <1>1, <1>2, <1>3
  <1>5. Paired(messages, n)
    BY <1>2
  <1> HIDE DEF n
  <1>6. messages' \in Seq(Messages) /\ Len(messages') >= n + 1 /\ messages'[1] = messages[1] /\ Paired(messages', Len(messages'))
    <2> DEFINE new == messages \o Results(messages[n + 1].calls)
    <2>1. new \in Seq(Messages) /\ Len(new) >= n + 1 /\ new[1] = messages[1] /\ Paired(new, Len(new))
      BY <1>1, <1>3, <1>4, <1>5, ResultsPaired, Zenon
    <2>2. messages' = new
      BY <1>4
    <2> HIDE DEF new
    <2> QED BY <2>1, <2>2, Zenon
  <1>7. Len(messages') >= 1
    BY <1>3, <1>6
  <1> QED BY <1>1, <1>2, <1>6, <1>7 DEF ConversationPaired, InTools

\* The conversation, step by step.
LEMMA ConversationStep ==
  ASSUME RunInv, [RunNext]_runVars
  PROVE  messages' \in Seq(Messages) /\ ConversationPaired'
  <1>1. messages \in Seq(Messages) /\ ConversationPaired
    BY DEF RunInv, RunTypeOK
  <1>2. CASE Stop
    BY <1>1, <1>2, SameConversation DEF Stop, InTools
  <1>3. CASE StopHonoured
    BY <1>1, <1>3, SameConversation DEF StopHonoured, Finish, TakePermit, InTools
  <1>4. CASE SupportKnown
    BY <1>1, <1>4, SameConversation DEF SupportKnown, InTools
  <1>5. CASE Turn
    BY <1>1, <1>5, SameConversation DEF Turn, InTools
  <1>6. CASE Exhausted
    BY <1>1, <1>6, SameConversation DEF Exhausted, Finish, InTools
  <1>7. CASE NoCompaction
    BY <1>1, <1>7, SameConversation DEF NoCompaction, Finish, InTools
  <1>8. CASE Compaction
    BY <1>1, <1>8, SameConversation DEF Compaction, InTools
  <1>9. CASE Summarize
    BY <1>1, <1>9, SameConversation DEF Summarize, Begin, InTools
  <1>10. CASE Compacted
    BY <1>10, CompactedStep
  <1>11. CASE Request
    BY <1>1, <1>11, SameConversation DEF Request, Begin, InTools
  <1>12. CASE \E cs \in (SUBSET CallIds) \ {{}} : AnswerCalls(cs)
    BY <1>12, CallsStep
  <1>13. CASE AnswerFinal
    <2> DEFINE new == <<Assistant({})>>
    <2>1. /\ new \in Seq(Messages)
          /\ \A i \in 1..Len(new) : new[i].calls = {} /\ new[i].role # "tool"
      BY PlainMessages
    <2>2. stage = "stream" /\ stage' \notin InTools /\ messages' = messages \o new
      BY <1>1, <1>13 DEF AnswerFinal, Finish, InTools
    <2> HIDE DEF new
    <2> QED BY <2>1, <2>2, PlainStep
  <1>14. CASE AnswerNeedsRepair
    <2> DEFINE new == <<Assistant({}), User>>
    <2>1. /\ new \in Seq(Messages)
          /\ \A i \in 1..Len(new) : new[i].calls = {} /\ new[i].role # "tool"
      BY PlainMessages
    <2>2. stage = "stream" /\ stage' \notin InTools /\ messages' = messages \o new
      BY <1>14 DEF AnswerNeedsRepair, InTools
    <2> HIDE DEF new
    <2> QED BY <2>1, <2>2, PlainStep
  <1>15. CASE TooLong
    BY <1>1, <1>15, SameConversation DEF TooLong, InTools
  <1>16. CASE ToolsRejected
    BY <1>1, <1>16, SameConversation DEF ToolsRejected, InTools
  <1>17. CASE StreamFails
    BY <1>1, <1>17, SameConversation DEF StreamFails, Finish, InTools
  <1>18. CASE ToolCheck
    BY <1>1, <1>18, ToolsStep DEF ToolCheck, InTools
  <1>19. CASE \E cs \in SUBSET running : RunParallel(cs)
    BY <1>1, <1>19, SameConversation DEF RunParallel, Begin, InTools
  <1>20. CASE RunSequential
    BY <1>1, <1>20, SameConversation DEF RunSequential, Begin, InTools
  <1>21. CASE PushResults
    BY <1>21, PushStep
  <1>22. CASE SchemaLoaded
    BY <1>1, <1>22, SameConversation DEF SchemaLoaded, InTools
  <1>23. CASE TextRequest
    BY <1>1, <1>23, SameConversation DEF TextRequest, Begin, InTools
  <1>24. CASE TextFinal
    BY <1>1, <1>24, SameConversation DEF TextFinal, Finish, InTools
  <1>25. CASE TextNeedsRepair
    BY <1>1, <1>25, SameConversation DEF TextNeedsRepair, Begin, InTools
  <1>26. CASE TextFails
    BY <1>1, <1>26, SameConversation DEF TextFails, Finish, InTools
  <1>27. CASE Over
    BY <1>1, <1>27 DEF Over, runVars, ConversationPaired
  <1>28. CASE UNCHANGED runVars
    BY <1>1, <1>28 DEF runVars, ConversationPaired
  <1> QED BY <1>2, <1>3, <1>4, <1>5, <1>6, <1>7, <1>8, <1>9, <1>10, <1>11, <1>12, <1>13, <1>14, <1>15, <1>16, <1>17, <1>18, <1>19, <1>20, <1>21, <1>22, <1>23, <1>24, <1>25, <1>26, <1>27, <1>28 DEF RunNext, Step

\* The types of everything but the messages, step by step.
LEMMA TypesStep ==
  ASSUME RunInv, [RunNext]_runVars, messages' \in Seq(Messages)
  PROVE  RunTypeOK'
  <1> USE AgentLoopAssumption DEF RunTypeOK, Stages, Outcomes
  <1>1. RunTypeOK /\ TurnInRange
    BY DEF RunInv
  <1>2. CASE Stop
    BY <1>1, <1>2 DEF Stop
  <1>3. CASE StopHonoured
    BY <1>1, <1>3 DEF StopHonoured, Finish, TakePermit
  <1>4. CASE SupportKnown
    BY <1>1, <1>4 DEF SupportKnown
  <1>5. CASE Turn
    BY <1>1, <1>5 DEF Turn
  <1>6. CASE Exhausted
    BY <1>1, <1>6 DEF Exhausted, Finish
  <1>7. CASE NoCompaction
    BY <1>1, <1>7 DEF NoCompaction, Finish
  <1>8. CASE Compaction
    BY <1>1, <1>8 DEF Compaction
  <1>9. CASE Summarize
    BY <1>1, <1>9 DEF Summarize, Begin
  <1>10. CASE Compacted
    BY <1>1, <1>10 DEF Compacted
  <1>11. CASE Request
    BY <1>1, <1>11 DEF Request, Begin
  <1>12. CASE \E cs \in (SUBSET CallIds) \ {{}} : AnswerCalls(cs)
    BY <1>1, <1>12 DEF AnswerCalls
  <1>13. CASE AnswerFinal
    BY <1>1, <1>13 DEF AnswerFinal, Finish
  <1>14. CASE AnswerNeedsRepair
    BY <1>1, <1>14 DEF AnswerNeedsRepair, TurnInRange, InTools
  <1>15. CASE TooLong
    BY <1>1, <1>15 DEF TooLong
  <1>16. CASE ToolsRejected
    BY <1>1, <1>16 DEF ToolsRejected
  <1>17. CASE StreamFails
    BY <1>1, <1>17 DEF StreamFails, Finish
  <1>18. CASE ToolCheck
    BY <1>1, <1>18 DEF ToolCheck
  <1>19. CASE \E cs \in SUBSET running : RunParallel(cs)
    BY <1>1, <1>19 DEF RunParallel, Begin
  <1>20. CASE RunSequential
    BY <1>1, <1>20 DEF RunSequential, Begin
  <1>21. CASE PushResults
    BY <1>1, <1>21 DEF PushResults, TurnInRange, InTools
  <1>22. CASE SchemaLoaded
    BY <1>1, <1>22 DEF SchemaLoaded
  <1>23. CASE TextRequest
    BY <1>1, <1>23 DEF TextRequest, Begin
  <1>24. CASE TextFinal
    BY <1>1, <1>24 DEF TextFinal, Finish
  <1>25. CASE TextNeedsRepair
    BY <1>1, <1>25 DEF TextNeedsRepair, Begin
  <1>26. CASE TextFails
    BY <1>1, <1>26 DEF TextFails, Finish
  <1>27. CASE Over
    BY <1>1, <1>27 DEF Over, runVars
  <1>28. CASE UNCHANGED runVars
    BY <1>1, <1>28 DEF runVars
  <1> QED BY <1>2, <1>3, <1>4, <1>5, <1>6, <1>7, <1>8, <1>9, <1>10, <1>11, <1>12, <1>13, <1>14, <1>15, <1>16, <1>17, <1>18, <1>19, <1>20, <1>21, <1>22, <1>23, <1>24, <1>25, <1>26, <1>27, <1>28 DEF RunNext, Step

-----------------------------------------------------------------------------
\* A run begins with a conversation that is paired.
LEMMA InitRunInv ==
  ASSUME RunInit
  PROVE  RunInv
  <1>1. messages \in Seq(Messages) /\ Len(messages) >= 1 /\ messages[1] = User
    <2>1. CASE messages = <<User>>
      BY <2>1, PlainMessages
    <2>2. CASE messages = <<User, Assistant({}), User>>
      <3>1. <<User, Assistant({}), User>> \in Seq(Messages)
        BY PlainMessages
      <3> QED BY <2>2, <3>1
    <2> QED BY <2>1, <2>2 DEF RunInit
  <1>2. Len(messages) \in Nat /\ \A k \in 1..Len(messages) : messages[k].calls = {} /\ messages[k].role # "tool"
    BY PlainMessages DEF RunInit
  <1>3. Paired(messages, Len(messages))
    BY <1>2 DEF Paired
  <1>4. ConversationPaired
    BY <1>1, <1>3 DEF RunInit, ConversationPaired, InTools
  <1>5. RunTypeOK
    <2>1. stage \in Stages /\ turn \in 0..MaxTurns /\ attempt \in 0..1 /\ repairs \in 0..MaxRepairs
      BY AgentLoopAssumption DEF RunInit, Stages
    <2>2. /\ running \subseteq CallIds /\ permit \in BOOLEAN /\ stopped \in BOOLEAN
          /\ late \subseteq {"summary", "stream", "tool", "text"} /\ outcome \in Outcomes
      BY DEF RunInit, Outcomes
    <2> QED BY <1>1, <2>1, <2>2 DEF RunTypeOK
  <1>6. TurnInRange /\ StopIsPending /\ StopPreventsRequests
    BY DEF RunInit, TurnInRange, StopIsPending, StopPreventsRequests, InTools
  <1> QED BY <1>4, <1>5, <1>6 DEF RunInv

\* Every step keeps the invariant of a run.
LEMMA NextRunInv ==
  ASSUME RunInv, [RunNext]_runVars
  PROVE  RunInv'
  <1>1. messages' \in Seq(Messages) /\ ConversationPaired'
    BY ConversationStep
  <1>2. RunTypeOK'
    BY <1>1, TypesStep
  <1> QED BY <1>1, <1>2, StopStep DEF RunInv

\* The invariant of a run.
LEMMA RunInvariant == RunSpec => []RunInv
  <1>1. RunInit => RunInv
    BY InitRunInv
  <1>2. RunInv /\ [RunNext]_runVars => RunInv'
    BY NextRunInv
  <1> QED BY <1>1, <1>2, PTL DEF RunSpec

\* A run of the agent loop stays in its types for every set of call ids and every
\* limit of turns and repairs (agent_loop.rs 130-560).
THEOREM RunTypesCorrect == RunSpec => []RunTypeOK
  <1>1. RunInv => RunTypeOK
    BY DEF RunInv
  <1> QED BY <1>1, RunInvariant, PTL

\* Whatever compactions cut and however often, calls and results are paired in
\* every request to the model (maybe_compact, adjust_cut_for_tool_pair_integrity).
THEOREM PairsStayIntact == RunSpec => []ToolPairsIntact
  <1>1. RunInv => ToolPairsIntact
    BY DEF RunInv, ConversationPaired, ToolPairsIntact, InTools
  <1> QED BY <1>1, RunInvariant, PTL

\* A stop ends the run before any new summary or streamed request, at whatever
\* await it arrives (the polls and selects of `cancelled`).
THEOREM StopsPreventRequests == RunSpec => []StopPreventsRequests
  <1>1. RunInv => StopPreventsRequests
    BY DEF RunInv
  <1> QED BY <1>1, RunInvariant, PTL
=============================================================================
