--------------------- MODULE TransactionSessionsProofs ---------------------
(***************************************************************************)
(* TLAPS proofs about TransactionSessions, for any number of callers and   *)
(* sessions.                                                               *)
(***************************************************************************)
EXTENDS TransactionSessions, TLAPS

\* A caller at work is at work on a session that was begun.
TargetIsBegun == \A a \in Callers : pc[a] # "idle" => target[a] \in 1..begun

\* A session that was not begun has left no trace.
UnbegunIsUntouched ==
  \A s \in Ids : s > begun =>
    txn[s] = "none" /\ table[s] = "absent" /\ ~rolling[s] /\ ~cleared[s]

\* The busy flag keeps statements apart: while a caller executes, its session is
\* busy or gone from the map, and nobody else executes on it.
OneExecutor ==
  /\ \A a \in Callers : pc[a] \in ExecPc => table[target[a]] # "ready"
  /\ \A a, b \in Callers :
       pc[a] \in ExecPc /\ pc[b] \in ExecPc /\ target[a] = target[b] => a = b

\* The owners of a session, one kind at a time (OneOwner without the sets).
Resolves(a, s) == target[a] = s /\ pc[a] \in ResolvePc
Owed(s) == txn[s] \in Live /\ ~cleared[s]
MapOwns ==
  \A s \in Ids : Present(s) => Owed(s) /\ ~rolling[s] /\ \A a \in Callers : ~Resolves(a, s)
WatcherOwns ==
  \A s \in Ids : rolling[s] => Owed(s) /\ ~Present(s) /\ \A a \in Callers : ~Resolves(a, s)
CallerOwns ==
  \A s \in Ids, a \in Callers : Resolves(a, s) =>
    /\ Owed(s) /\ ~Present(s) /\ ~rolling[s]
    /\ \A b \in Callers : Resolves(b, s) => a = b
SomeoneOwns ==
  \A s \in Ids : Owed(s) => Present(s) \/ rolling[s] \/ \E a \in Callers : Resolves(a, s)

IInv ==
  /\ TypeOK
  /\ TargetIsBegun
  /\ UnbegunIsUntouched
  /\ OneExecutor
  /\ MapOwns
  /\ WatcherOwns
  /\ CallerOwns
  /\ SomeoneOwns
  /\ ExpirySparesStatements

-----------------------------------------------------------------------------
\* Nothing has begun at the start.
LEMMA InitIInv == Init => IInv
  <1> SUFFICES ASSUME Init PROVE IInv
    OBVIOUS
  <1> USE TransactionSessionsAssumption DEF Init
  <1>1. TypeOK
    BY DEF TypeOK, CallerPc, ExecPc, ResolvePc, Ids, NoId, Live, Ended
  <1> QED
    BY <1>1 DEF IInv, TargetIsBegun, UnbegunIsUntouched, OneExecutor, MapOwns, WatcherOwns,
       CallerOwns, SomeoneOwns, ExpirySparesStatements, Resolves, Resolvers, Owed, Present, Live,
       ExecPc, ResolvePc

\* The new session is in the map, and only there.
LEMMA BeginPreserves ==
  ASSUME IInv, NEW s \in Ids, NEW k \in {"postgres", "mysql"}, Begin(s, k)
  PROVE  IInv'
  <1> USE TransactionSessionsAssumption DEF Begin, sessionVars, watchVars, callerVars
  <1>2. TypeOK'
    BY DEF IInv, TypeOK, TargetIsBegun, CallerPc, ExecPc, ResolvePc, Live, Ended, Ids, NoId
  <1>3. TargetIsBegun'
    BY DEF IInv, TypeOK, TargetIsBegun, Ids, NoId
  <1>4. UnbegunIsUntouched'
    BY DEF IInv, TypeOK, TargetIsBegun, UnbegunIsUntouched, Ids, Live, Present
  <1>5. OneExecutor'
    <2>1. \A b \in Callers : pc[b] \in ExecPc => target[b] \in Ids /\ target[b] # s
      BY DEF IInv, TypeOK, TargetIsBegun, ExecPc, Ids
    <2> QED BY <2>1 DEF IInv, TypeOK, OneExecutor
  <1>6. MapOwns'
    BY DEF IInv, TypeOK, TargetIsBegun, UnbegunIsUntouched, MapOwns, WatcherOwns,
       CallerOwns, Owed, Resolves, ResolvePc, Present, Live, Ended, Ids, NoId
  <1>7. WatcherOwns'
    BY DEF IInv, TypeOK, TargetIsBegun, UnbegunIsUntouched, MapOwns, WatcherOwns,
       CallerOwns, Owed, Resolves, ResolvePc, Present, Live, Ended, Ids, NoId
  <1>8. CallerOwns'
    BY DEF IInv, TypeOK, TargetIsBegun, UnbegunIsUntouched, MapOwns, WatcherOwns,
       CallerOwns, Owed, Resolves, ResolvePc, Present, Live, Ended, Ids, NoId
  <1>9. SomeoneOwns'
    BY DEF IInv, TypeOK, TargetIsBegun, UnbegunIsUntouched, MapOwns, WatcherOwns,
       CallerOwns, SomeoneOwns, Owed, Resolves, ResolvePc, Present, Live, Ended, Ids, NoId
  <1>10. ExpirySparesStatements'
    BY DEF IInv, TypeOK, TargetIsBegun, UnbegunIsUntouched, OneExecutor, WatcherOwns,
       MapOwns, CallerOwns, ExpirySparesStatements, Resolvers, ExecPc, ResolvePc, Ids,
       Present, Resolves
  <1> QED BY <1>2, <1>3, <1>4, <1>5, <1>6, <1>7, <1>8, <1>9, <1>10 DEF IInv

\* A transaction that leaks belongs to no session.
LEMMA BeginLeaksPreserves ==
  ASSUME IInv, NEW s \in Ids, BeginLeaks(s)
  PROVE  IInv'
  <1> USE TransactionSessionsAssumption DEF BeginLeaks, sessionVars, watchVars, callerVars
  <1>2. TypeOK'
    BY DEF IInv, TypeOK, TargetIsBegun, CallerPc, ExecPc, ResolvePc, Live, Ended, Ids, NoId
  <1>3. TargetIsBegun'
    BY DEF IInv, TypeOK, TargetIsBegun, Ids, NoId
  <1>4. UnbegunIsUntouched'
    BY DEF IInv, TypeOK, TargetIsBegun, UnbegunIsUntouched, Ids, Live, Present
  <1>5. OneExecutor'
    BY DEF IInv, TypeOK, TargetIsBegun, UnbegunIsUntouched, OneExecutor, ExecPc, Ids,
       Present
  <1>6. MapOwns'
    BY DEF IInv, TypeOK, TargetIsBegun, UnbegunIsUntouched, MapOwns, WatcherOwns,
       CallerOwns, Owed, Resolves, ResolvePc, Present, Live, Ended, Ids, NoId
  <1>7. WatcherOwns'
    BY DEF IInv, TypeOK, TargetIsBegun, UnbegunIsUntouched, MapOwns, WatcherOwns,
       CallerOwns, Owed, Resolves, ResolvePc, Present, Live, Ended, Ids, NoId
  <1>8. CallerOwns'
    BY DEF IInv, TypeOK, TargetIsBegun, UnbegunIsUntouched, MapOwns, WatcherOwns,
       CallerOwns, Owed, Resolves, ResolvePc, Present, Live, Ended, Ids, NoId
  <1>9. SomeoneOwns'
    BY DEF IInv, TypeOK, TargetIsBegun, UnbegunIsUntouched, MapOwns, WatcherOwns,
       CallerOwns, SomeoneOwns, Owed, Resolves, ResolvePc, Present, Live, Ended, Ids, NoId
  <1>10. ExpirySparesStatements'
    BY DEF IInv, TypeOK, TargetIsBegun, UnbegunIsUntouched, OneExecutor, WatcherOwns,
       MapOwns, CallerOwns, ExpirySparesStatements, Resolvers, ExecPc, ResolvePc, Ids,
       Present, Resolves
  <1> QED BY <1>2, <1>3, <1>4, <1>5, <1>6, <1>7, <1>8, <1>9, <1>10 DEF IInv

\* A claim takes a session that nobody executes on, so it is the only executor.
LEMMA ClaimPreserves ==
  ASSUME IInv, NEW a \in Callers, NEW s \in Ids, Claim(a, s)
  PROVE  IInv'
  <1> USE TransactionSessionsAssumption DEF Claim, Start, sessionVars, watchVars, callerVars
  <1>1. s <= begun
    BY DEF IInv, TypeOK, UnbegunIsUntouched, Ids, Present
  <1>2. TypeOK'
    BY <1>1 DEF IInv, TypeOK, TargetIsBegun, CallerPc, ExecPc, ResolvePc, Live, Ended, Ids,
       NoId
  <1>3. TargetIsBegun'
    BY <1>1 DEF IInv, TypeOK, TargetIsBegun, Ids, NoId
  <1>4. UnbegunIsUntouched'
    BY <1>1 DEF IInv, TypeOK, TargetIsBegun, UnbegunIsUntouched, Ids, Live, Present
  <1>5. OneExecutor'
    BY <1>1 DEF IInv, TypeOK, TargetIsBegun, UnbegunIsUntouched, OneExecutor, ExecPc, Ids,
       Present
  <1>6. MapOwns'
    BY <1>1 DEF IInv, TypeOK, TargetIsBegun, UnbegunIsUntouched, MapOwns, WatcherOwns,
       CallerOwns, Owed, Resolves, ResolvePc, Present, Live, Ended, Ids, NoId
  <1>7. WatcherOwns'
    BY <1>1 DEF IInv, TypeOK, TargetIsBegun, UnbegunIsUntouched, MapOwns, WatcherOwns,
       CallerOwns, Owed, Resolves, ResolvePc, Present, Live, Ended, Ids, NoId
  <1>8. CallerOwns'
    BY <1>1 DEF IInv, TypeOK, TargetIsBegun, UnbegunIsUntouched, MapOwns, WatcherOwns,
       CallerOwns, Owed, Resolves, ResolvePc, Present, Live, Ended, Ids, NoId
  <1>9. SomeoneOwns'
    <2> SUFFICES ASSUME NEW z \in Ids, Owed(z)'
                 PROVE  (Present(z) \/ rolling[z] \/ \E b \in Callers : Resolves(b, z))'
      BY DEF SomeoneOwns
    <2>1. Owed(z)
      BY <1>1 DEF IInv, TypeOK, Owed, Live, Ended
    <2>2. CASE Present(z) \/ rolling[z]
      BY <2>2 DEF IInv, TypeOK, Present
    <2>3. ASSUME NEW b \in Callers, Resolves(b, z) PROVE Resolves(b, z)'
      BY <2>3 DEF IInv, TypeOK, Resolves, ResolvePc
    <2> QED BY <2>1, <2>2, <2>3 DEF IInv, SomeoneOwns
  <1>10. ExpirySparesStatements'
    BY <1>1 DEF IInv, TypeOK, TargetIsBegun, UnbegunIsUntouched, OneExecutor, WatcherOwns,
       MapOwns, CallerOwns, ExpirySparesStatements, Resolvers, ExecPc, ResolvePc, Ids,
       Present, Resolves
  <1> QED BY <1>2, <1>3, <1>4, <1>5, <1>6, <1>7, <1>8, <1>9, <1>10 DEF IInv

\* A session found expired passes from the map to the caller; nobody executes on it.
LEMMA ClaimExpiredPreserves ==
  ASSUME IInv, NEW a \in Callers, NEW s \in Ids, ClaimExpired(a, s)
  PROVE  IInv'
  <1> USE TransactionSessionsAssumption DEF ClaimExpired, Start, Remove, sessionVars,
      watchVars, callerVars
  <1>1. s <= begun
    BY DEF IInv, TypeOK, UnbegunIsUntouched, Ids, Present
  <1>2. TypeOK'
    BY <1>1 DEF IInv, TypeOK, TargetIsBegun, CallerPc, ExecPc, ResolvePc, Live, Ended, Ids,
       NoId
  <1>3. TargetIsBegun'
    BY <1>1 DEF IInv, TypeOK, TargetIsBegun, Ids, NoId
  <1>4. UnbegunIsUntouched'
    BY <1>1 DEF IInv, TypeOK, TargetIsBegun, UnbegunIsUntouched, Ids, Live, Present
  <1>5. OneExecutor'
    BY <1>1 DEF IInv, TypeOK, TargetIsBegun, UnbegunIsUntouched, OneExecutor, ExecPc, Ids,
       Present
  <1>6. MapOwns'
    BY <1>1 DEF IInv, TypeOK, TargetIsBegun, UnbegunIsUntouched, MapOwns, WatcherOwns,
       CallerOwns, Owed, Resolves, ResolvePc, Present, Live, Ended, Ids, NoId
  <1>7. WatcherOwns'
    BY <1>1 DEF IInv, TypeOK, TargetIsBegun, UnbegunIsUntouched, MapOwns, WatcherOwns,
       CallerOwns, Owed, Resolves, ResolvePc, Present, Live, Ended, Ids, NoId
  <1>8. CallerOwns'
    BY <1>1 DEF IInv, TypeOK, TargetIsBegun, UnbegunIsUntouched, MapOwns, WatcherOwns,
       CallerOwns, Owed, Resolves, ResolvePc, Present, Live, Ended, Ids, NoId
  <1>9. SomeoneOwns'
    <2> SUFFICES ASSUME NEW z \in Ids, Owed(z)'
                 PROVE  (Present(z) \/ rolling[z] \/ \E b \in Callers : Resolves(b, z))'
      BY DEF SomeoneOwns
    <2>1. Owed(z)
      BY <1>1 DEF IInv, TypeOK, Owed, Live, Ended
    <2>2. CASE Present(z) \/ rolling[z]
      <3>1. CASE z = s
        BY <3>1 DEF IInv, TypeOK, Resolves, ResolvePc
      <3>2. CASE z # s
        BY <2>2, <3>2 DEF IInv, TypeOK, Present
      <3> QED BY <3>1, <3>2
    <2>3. ASSUME NEW b \in Callers, Resolves(b, z) PROVE Resolves(b, z)'
      BY <2>3 DEF IInv, TypeOK, Resolves, ResolvePc
    <2> QED BY <2>1, <2>2, <2>3 DEF IInv, SomeoneOwns
  <1>10. ExpirySparesStatements'
    <2>1. \A b \in Callers : target[b] = s => pc[b] \notin ExecPc
      BY DEF IInv, OneExecutor
    <2>2. \A b \in Callers : pc'[b] \in ExecPc => pc[b] \in ExecPc /\ target'[b] = target[b]
      BY DEF IInv, TypeOK, ExecPc
    <2>3. \A b \in Callers : b # a => pc'[b] = pc[b] /\ target'[b] = target[b]
      BY DEF IInv, TypeOK
    <2>4. target'[a] = s /\ rolling' = rolling
      BY DEF IInv, TypeOK
    <2> QED BY <2>1, <2>2, <2>3, <2>4 DEF IInv, ExpirySparesStatements, Resolvers, ResolvePc
  <1> QED BY <1>2, <1>3, <1>4, <1>5, <1>6, <1>7, <1>8, <1>9, <1>10 DEF IInv

\* The caller that removed an expired session ends its transaction.
LEMMA ExpirePreserves ==
  ASSUME IInv, NEW a \in Callers, Expire(a)
  PROVE  IInv'
  <1> USE TransactionSessionsAssumption DEF Expire, Return, RollbackConnection, sessionVars,
      watchVars, callerVars
  <1>1. target[a] \in Ids /\ target[a] <= begun
    BY DEF IInv, TypeOK, TargetIsBegun, Ids
  <1>2. TypeOK'
    BY <1>1 DEF IInv, TypeOK, TargetIsBegun, CallerPc, ExecPc, ResolvePc, Live, Ended, Ids,
       NoId
  <1>3. TargetIsBegun'
    BY <1>1 DEF IInv, TypeOK, TargetIsBegun, Ids, NoId
  <1>4. UnbegunIsUntouched'
    BY <1>1 DEF IInv, TypeOK, TargetIsBegun, UnbegunIsUntouched, Ids, Live, Present
  <1>5. OneExecutor'
    BY <1>1 DEF IInv, TypeOK, TargetIsBegun, UnbegunIsUntouched, OneExecutor, ExecPc, Ids,
       Present
  <1>6. MapOwns'
    BY <1>1 DEF IInv, TypeOK, TargetIsBegun, UnbegunIsUntouched, MapOwns, WatcherOwns,
       CallerOwns, Owed, Resolves, ResolvePc, Present, Live, Ended, Ids, NoId
  <1>7. WatcherOwns'
    BY <1>1 DEF IInv, TypeOK, TargetIsBegun, UnbegunIsUntouched, MapOwns, WatcherOwns,
       CallerOwns, Owed, Resolves, ResolvePc, Present, Live, Ended, Ids, NoId
  <1>8. CallerOwns'
    BY <1>1 DEF IInv, TypeOK, TargetIsBegun, UnbegunIsUntouched, MapOwns, WatcherOwns,
       CallerOwns, Owed, Resolves, ResolvePc, Present, Live, Ended, Ids, NoId
  <1>9. SomeoneOwns'
    BY <1>1 DEF IInv, TypeOK, TargetIsBegun, UnbegunIsUntouched, MapOwns, WatcherOwns,
       CallerOwns, SomeoneOwns, Owed, Resolves, ResolvePc, Present, Live, Ended, Ids, NoId
  <1>10. ExpirySparesStatements'
    BY <1>1 DEF IInv, TypeOK, TargetIsBegun, UnbegunIsUntouched, OneExecutor, WatcherOwns,
       MapOwns, CallerOwns, ExpirySparesStatements, Resolvers, ExecPc, ResolvePc, Ids,
       Present, Resolves
  <1> QED BY <1>2, <1>3, <1>4, <1>5, <1>6, <1>7, <1>8, <1>9, <1>10 DEF IInv

\* The second look at the map changes no owner.
LEMMA FetchPreserves ==
  ASSUME IInv, NEW a \in Callers, Fetch(a)
  PROVE  IInv'
  <1> USE TransactionSessionsAssumption
  <1>1. target[a] \in Ids /\ target[a] <= begun
    BY DEF IInv, TypeOK, TargetIsBegun, Ids, Fetch
  <1>2. CASE Present(target[a])
    <2>1. /\ pc[a] = "fetch" /\ pc' = [pc EXCEPT ![a] = "wait"] /\ target' = target
          /\ UNCHANGED <<begun, table, kind, txn, lock, age, cleared, fresh, stale, rolling>>
      BY <1>2 DEF Fetch, Return, Goto, Present, sessionVars, watchVars, callerVars
    <2>2. TypeOK'
      BY <1>1, <1>2, <2>1 DEF IInv, TypeOK, TargetIsBegun, CallerPc, ExecPc, ResolvePc,
         Live, Ended, Ids, NoId
    <2>3. TargetIsBegun'
      BY <1>1, <1>2, <2>1 DEF IInv, TypeOK, TargetIsBegun, Ids, NoId
    <2>4. UnbegunIsUntouched'
      BY <1>1, <1>2, <2>1 DEF IInv, TypeOK, TargetIsBegun, UnbegunIsUntouched, Ids, Live,
         Present
    <2>5. OneExecutor'
      <3>1. \A b \in Callers : pc[b] \in ExecPc => target[b] \in Ids
        BY DEF IInv, TypeOK, TargetIsBegun, ExecPc, Ids
      <3>2. \A b \in Callers : pc'[b] \in ExecPc => pc[b] \in ExecPc /\ target'[b] = target[b]
        BY <2>1 DEF IInv, TypeOK, ExecPc
      <3>3. \A z \in Ids : table'[z] = "ready" => table[z] = "ready"
        BY <2>1 DEF IInv, TypeOK
      <3> QED BY <3>1, <3>2, <3>3 DEF IInv, OneExecutor
    <2>6. MapOwns'
      BY <1>1, <1>2, <2>1 DEF IInv, TypeOK, TargetIsBegun, UnbegunIsUntouched, MapOwns,
         WatcherOwns, CallerOwns, Owed, Resolves, ResolvePc, Present, Live, Ended, Ids, NoId
    <2>7. WatcherOwns'
      BY <1>1, <1>2, <2>1 DEF IInv, TypeOK, TargetIsBegun, UnbegunIsUntouched, MapOwns,
         WatcherOwns, CallerOwns, Owed, Resolves, ResolvePc, Present, Live, Ended, Ids, NoId
    <2>8. CallerOwns'
      BY <1>1, <1>2, <2>1 DEF IInv, TypeOK, TargetIsBegun, UnbegunIsUntouched, MapOwns,
         WatcherOwns, CallerOwns, Owed, Resolves, ResolvePc, Present, Live, Ended, Ids, NoId
    <2>9. SomeoneOwns'
      <3> SUFFICES ASSUME NEW z \in Ids, Owed(z)'
                   PROVE  (Present(z) \/ rolling[z] \/ \E b \in Callers : Resolves(b, z))'
        BY DEF SomeoneOwns
      <3>1. Owed(z)
        BY <2>1 DEF Owed
      <3>2. CASE Present(z) \/ rolling[z]
        BY <2>1, <3>2 DEF Present
      <3>3. ASSUME NEW b \in Callers, Resolves(b, z) PROVE Resolves(b, z)'
        BY <2>1, <3>3 DEF IInv, TypeOK, Resolves, ResolvePc
      <3> QED BY <3>1, <3>2, <3>3 DEF IInv, SomeoneOwns
    <2>10. ExpirySparesStatements'
      <3>1. \A b \in Callers : pc'[b] \in ExecPc => pc[b] \in ExecPc /\ target'[b] = target[b]
        BY <2>1 DEF IInv, TypeOK, ExecPc
      <3>2. \A b \in Callers : pc'[b] = "expire" => pc[b] = "expire" /\ target'[b] = target[b]
        BY <2>1 DEF IInv, TypeOK
      <3>3. rolling' = rolling
        BY <2>1
      <3> QED BY <3>1, <3>2, <3>3 DEF IInv, ExpirySparesStatements, Resolvers, ResolvePc
    <2> QED BY <2>2, <2>3, <2>4, <2>5, <2>6, <2>7, <2>8, <2>9, <2>10 DEF IInv
  <1>3. CASE ~Present(target[a])
    <2>1. /\ pc[a] = "fetch"
          /\ pc' = [pc EXCEPT ![a] = "idle"] /\ target' = [target EXCEPT ![a] = NoId]
          /\ UNCHANGED <<begun, table, kind, txn, lock, age, cleared, fresh, stale, rolling>>
      BY <1>3 DEF Fetch, Return, Goto, Present, sessionVars, watchVars, callerVars
    <2>2. TypeOK'
      BY <1>1, <1>3, <2>1 DEF IInv, TypeOK, TargetIsBegun, CallerPc, ExecPc, ResolvePc,
         Live, Ended, Ids, NoId
    <2>3. TargetIsBegun'
      BY <1>1, <1>3, <2>1 DEF IInv, TypeOK, TargetIsBegun, Ids, NoId
    <2>4. UnbegunIsUntouched'
      BY <1>1, <1>3, <2>1 DEF IInv, TypeOK, TargetIsBegun, UnbegunIsUntouched, Ids, Live,
         Present
    <2>5. OneExecutor'
      <3>1. \A b \in Callers : pc[b] \in ExecPc => target[b] \in Ids
        BY DEF IInv, TypeOK, TargetIsBegun, ExecPc, Ids
      <3>2. \A b \in Callers : pc'[b] \in ExecPc => pc[b] \in ExecPc /\ target'[b] = target[b]
        BY <2>1 DEF IInv, TypeOK, ExecPc
      <3>3. \A z \in Ids : table'[z] = "ready" => table[z] = "ready"
        BY <2>1 DEF IInv, TypeOK
      <3> QED BY <3>1, <3>2, <3>3 DEF IInv, OneExecutor
    <2>6. MapOwns'
      BY <1>1, <1>3, <2>1 DEF IInv, TypeOK, TargetIsBegun, UnbegunIsUntouched, MapOwns,
         WatcherOwns, CallerOwns, Owed, Resolves, ResolvePc, Present, Live, Ended, Ids, NoId
    <2>7. WatcherOwns'
      BY <1>1, <1>3, <2>1 DEF IInv, TypeOK, TargetIsBegun, UnbegunIsUntouched, MapOwns,
         WatcherOwns, CallerOwns, Owed, Resolves, ResolvePc, Present, Live, Ended, Ids, NoId
    <2>8. CallerOwns'
      BY <1>1, <1>3, <2>1 DEF IInv, TypeOK, TargetIsBegun, UnbegunIsUntouched, MapOwns,
         WatcherOwns, CallerOwns, Owed, Resolves, ResolvePc, Present, Live, Ended, Ids, NoId
    <2>9. SomeoneOwns'
      <3> SUFFICES ASSUME NEW z \in Ids, Owed(z)'
                   PROVE  (Present(z) \/ rolling[z] \/ \E b \in Callers : Resolves(b, z))'
        BY DEF SomeoneOwns
      <3>1. Owed(z)
        BY <2>1 DEF Owed
      <3>2. CASE Present(z) \/ rolling[z]
        BY <2>1, <3>2 DEF Present
      <3>3. ASSUME NEW b \in Callers, Resolves(b, z) PROVE Resolves(b, z)'
        BY <2>1, <3>3 DEF IInv, TypeOK, Resolves, ResolvePc
      <3> QED BY <3>1, <3>2, <3>3 DEF IInv, SomeoneOwns
    <2>10. ExpirySparesStatements'
      <3>1. \A b \in Callers : pc'[b] \in ExecPc => pc[b] \in ExecPc /\ target'[b] = target[b]
        BY <2>1 DEF IInv, TypeOK, ExecPc
      <3>2. \A b \in Callers : pc'[b] = "expire" => pc[b] = "expire" /\ target'[b] = target[b]
        BY <2>1 DEF IInv, TypeOK
      <3>3. rolling' = rolling
        BY <2>1
      <3> QED BY <3>1, <3>2, <3>3 DEF IInv, ExpirySparesStatements, Resolvers, ResolvePc
    <2> QED BY <2>2, <2>3, <2>4, <2>5, <2>6, <2>7, <2>8, <2>9, <2>10 DEF IInv
  <1> QED BY <1>2, <1>3

\* Locking the connection changes no owner.
LEMMA LockConnectionPreserves ==
  ASSUME IInv, NEW a \in Callers, LockConnection(a)
  PROVE  IInv'
  <1> USE TransactionSessionsAssumption DEF LockConnection, Goto, sessionVars, watchVars,
      callerVars
  <1>1. target[a] \in Ids /\ target[a] <= begun
    BY DEF IInv, TypeOK, TargetIsBegun, Ids
  <1>2. TypeOK'
    BY <1>1 DEF IInv, TypeOK, TargetIsBegun, CallerPc, ExecPc, ResolvePc, Live, Ended, Ids,
       NoId
  <1>3. TargetIsBegun'
    BY <1>1 DEF IInv, TypeOK, TargetIsBegun, Ids, NoId
  <1>4. UnbegunIsUntouched'
    BY <1>1 DEF IInv, TypeOK, TargetIsBegun, UnbegunIsUntouched, Ids, Live, Present
  <1>5. OneExecutor'
    BY <1>1 DEF IInv, TypeOK, TargetIsBegun, UnbegunIsUntouched, OneExecutor, ExecPc, Ids,
       Present
  <1>6. MapOwns'
    BY <1>1 DEF IInv, TypeOK, TargetIsBegun, UnbegunIsUntouched, MapOwns, WatcherOwns,
       CallerOwns, Owed, Resolves, ResolvePc, Present, Live, Ended, Ids, NoId
  <1>7. WatcherOwns'
    BY <1>1 DEF IInv, TypeOK, TargetIsBegun, UnbegunIsUntouched, MapOwns, WatcherOwns,
       CallerOwns, Owed, Resolves, ResolvePc, Present, Live, Ended, Ids, NoId
  <1>8. CallerOwns'
    BY <1>1 DEF IInv, TypeOK, TargetIsBegun, UnbegunIsUntouched, MapOwns, WatcherOwns,
       CallerOwns, Owed, Resolves, ResolvePc, Present, Live, Ended, Ids, NoId
  <1>9. SomeoneOwns'
    <2> SUFFICES ASSUME NEW z \in Ids, Owed(z)'
                 PROVE  (Present(z) \/ rolling[z] \/ \E b \in Callers : Resolves(b, z))'
      BY DEF SomeoneOwns
    <2>1. Owed(z)
      BY <1>1 DEF IInv, TypeOK, Owed, Live, Ended
    <2>2. CASE Present(z) \/ rolling[z]
      BY <2>2 DEF Present
    <2>3. ASSUME NEW b \in Callers, Resolves(b, z) PROVE Resolves(b, z)'
      BY <2>3 DEF IInv, TypeOK, Resolves, ResolvePc
    <2> QED BY <2>1, <2>2, <2>3 DEF IInv, SomeoneOwns
  <1>10. ExpirySparesStatements'
    BY <1>1 DEF IInv, TypeOK, TargetIsBegun, UnbegunIsUntouched, OneExecutor, WatcherOwns,
       MapOwns, CallerOwns, ExpirySparesStatements, Resolvers, ExecPc, ResolvePc, Ids,
       Present, Resolves
  <1> QED BY <1>2, <1>3, <1>4, <1>5, <1>6, <1>7, <1>8, <1>9, <1>10 DEF IInv

\* A failed statement leaves the transaction to be ended.
LEMMA StatementFailsPreserves ==
  ASSUME IInv, NEW a \in Callers, StatementFails(a)
  PROVE  IInv'
  <1> USE TransactionSessionsAssumption DEF StatementFails, Goto, sessionVars, watchVars,
      callerVars
  <1>1. target[a] \in Ids /\ target[a] <= begun
    BY DEF IInv, TypeOK, TargetIsBegun, Ids
  <1>2. TypeOK'
    BY <1>1 DEF IInv, TypeOK, TargetIsBegun, CallerPc, ExecPc, ResolvePc, Live, Ended, Ids,
       NoId
  <1>3. TargetIsBegun'
    BY <1>1 DEF IInv, TypeOK, TargetIsBegun, Ids, NoId
  <1>4. UnbegunIsUntouched'
    BY <1>1 DEF IInv, TypeOK, TargetIsBegun, UnbegunIsUntouched, Ids, Live, Present
  <1>5. OneExecutor'
    BY <1>1 DEF IInv, TypeOK, TargetIsBegun, UnbegunIsUntouched, OneExecutor, ExecPc, Ids,
       Present
  <1>6. MapOwns'
    BY <1>1 DEF IInv, TypeOK, TargetIsBegun, UnbegunIsUntouched, MapOwns, WatcherOwns,
       CallerOwns, Owed, Resolves, ResolvePc, Present, Live, Ended, Ids, NoId
  <1>7. WatcherOwns'
    BY <1>1 DEF IInv, TypeOK, TargetIsBegun, UnbegunIsUntouched, MapOwns, WatcherOwns,
       CallerOwns, Owed, Resolves, ResolvePc, Present, Live, Ended, Ids, NoId
  <1>8. CallerOwns'
    BY <1>1 DEF IInv, TypeOK, TargetIsBegun, UnbegunIsUntouched, MapOwns, WatcherOwns,
       CallerOwns, Owed, Resolves, ResolvePc, Present, Live, Ended, Ids, NoId
  <1>9. SomeoneOwns'
    BY <1>1 DEF IInv, TypeOK, TargetIsBegun, UnbegunIsUntouched, MapOwns, WatcherOwns,
       CallerOwns, SomeoneOwns, Owed, Resolves, ResolvePc, Present, Live, Ended, Ids, NoId
  <1>10. ExpirySparesStatements'
    BY <1>1 DEF IInv, TypeOK, TargetIsBegun, UnbegunIsUntouched, OneExecutor, WatcherOwns,
       MapOwns, CallerOwns, ExpirySparesStatements, Resolvers, ExecPc, ResolvePc, Ids,
       Present, Resolves
  <1> QED BY <1>2, <1>3, <1>4, <1>5, <1>6, <1>7, <1>8, <1>9, <1>10 DEF IInv

\* The error path takes the session over, or leaves it to who removed it.
LEMMA RemoveFailedPreserves ==
  ASSUME IInv, NEW a \in Callers, RemoveFailed(a)
  PROVE  IInv'
  <1> USE TransactionSessionsAssumption
  <1>1. target[a] \in Ids /\ target[a] <= begun
    BY DEF IInv, TypeOK, TargetIsBegun, Ids, RemoveFailed
  <1>2. CASE Present(target[a])
    <2>1. /\ pc[a] = "fail" /\ pc' = [pc EXCEPT ![a] = "abort"] /\ target' = target
          /\ table' = [table EXCEPT ![target[a]] = "absent"]
          /\ UNCHANGED <<begun, kind, txn, lock, age, cleared, fresh, stale, rolling>>
      BY <1>2 DEF RemoveFailed, Return, Goto, Remove, Present, sessionVars, watchVars,
         callerVars
    <2>2. TypeOK'
      BY <1>1, <1>2, <2>1 DEF IInv, TypeOK, TargetIsBegun, CallerPc, ExecPc, ResolvePc,
         Live, Ended, Ids, NoId
    <2>3. TargetIsBegun'
      BY <1>1, <1>2, <2>1 DEF IInv, TypeOK, TargetIsBegun, Ids, NoId
    <2>4. UnbegunIsUntouched'
      BY <1>1, <1>2, <2>1 DEF IInv, TypeOK, TargetIsBegun, UnbegunIsUntouched, Ids, Live,
         Present
    <2>5. OneExecutor'
      <3>1. \A b \in Callers : pc[b] \in ExecPc => target[b] \in Ids
        BY DEF IInv, TypeOK, TargetIsBegun, ExecPc, Ids
      <3>2. \A b \in Callers : pc'[b] \in ExecPc => pc[b] \in ExecPc /\ target'[b] = target[b]
        BY <2>1 DEF IInv, TypeOK, ExecPc
      <3>3. \A z \in Ids : table'[z] = "ready" => table[z] = "ready"
        BY <2>1 DEF IInv, TypeOK
      <3> QED BY <3>1, <3>2, <3>3 DEF IInv, OneExecutor
    <2>6. MapOwns'
      BY <1>1, <1>2, <2>1 DEF IInv, TypeOK, TargetIsBegun, UnbegunIsUntouched, MapOwns,
         WatcherOwns, CallerOwns, Owed, Resolves, ResolvePc, Present, Live, Ended, Ids, NoId
    <2>7. WatcherOwns'
      BY <1>1, <1>2, <2>1 DEF IInv, TypeOK, TargetIsBegun, UnbegunIsUntouched, MapOwns,
         WatcherOwns, CallerOwns, Owed, Resolves, ResolvePc, Present, Live, Ended, Ids, NoId
    <2>8. CallerOwns'
      BY <1>1, <1>2, <2>1 DEF IInv, TypeOK, TargetIsBegun, UnbegunIsUntouched, MapOwns,
         WatcherOwns, CallerOwns, Owed, Resolves, ResolvePc, Present, Live, Ended, Ids, NoId
    <2>9. SomeoneOwns'
      <3> SUFFICES ASSUME NEW z \in Ids, Owed(z)'
                   PROVE  (Present(z) \/ rolling[z] \/ \E b \in Callers : Resolves(b, z))'
        BY DEF SomeoneOwns
      <3>1. Owed(z)
        BY <2>1 DEF Owed
      <3>2. CASE Present(z) \/ rolling[z]
        <4>1. CASE z = target[a]
          BY <2>1, <4>1 DEF IInv, TypeOK, Resolves, ResolvePc
        <4>2. CASE z # target[a]
          BY <1>1, <2>1, <3>2, <4>2 DEF IInv, TypeOK, Present
        <4> QED BY <4>1, <4>2
      <3>3. ASSUME NEW b \in Callers, Resolves(b, z) PROVE Resolves(b, z)'
        BY <2>1, <3>3 DEF IInv, TypeOK, Resolves, ResolvePc
      <3> QED BY <3>1, <3>2, <3>3 DEF IInv, SomeoneOwns
    <2>10. ExpirySparesStatements'
      <3>1. \A b \in Callers : pc'[b] \in ExecPc => pc[b] \in ExecPc /\ target'[b] = target[b]
        BY <2>1 DEF IInv, TypeOK, ExecPc
      <3>2. \A b \in Callers : pc'[b] = "expire" => pc[b] = "expire" /\ target'[b] = target[b]
        BY <2>1 DEF IInv, TypeOK
      <3>3. rolling' = rolling
        BY <2>1
      <3> QED BY <3>1, <3>2, <3>3 DEF IInv, ExpirySparesStatements, Resolvers, ResolvePc
    <2> QED BY <2>2, <2>3, <2>4, <2>5, <2>6, <2>7, <2>8, <2>9, <2>10 DEF IInv
  <1>3. CASE ~Present(target[a])
    <2>1. /\ pc[a] = "fail"
          /\ pc' = [pc EXCEPT ![a] = "idle"] /\ target' = [target EXCEPT ![a] = NoId]
          /\ table' = [table EXCEPT ![target[a]] = "absent"]
          /\ lock' = [lock EXCEPT ![target[a]] = Nil]
          /\ UNCHANGED <<begun, kind, txn, age, cleared, fresh, stale, rolling>>
      BY <1>3 DEF RemoveFailed, Return, Goto, Remove, Present, sessionVars, watchVars,
         callerVars
    <2>2. TypeOK'
      BY <1>1, <1>3, <2>1 DEF IInv, TypeOK, TargetIsBegun, CallerPc, ExecPc, ResolvePc,
         Live, Ended, Ids, NoId
    <2>3. TargetIsBegun'
      BY <1>1, <1>3, <2>1 DEF IInv, TypeOK, TargetIsBegun, Ids, NoId
    <2>4. UnbegunIsUntouched'
      BY <1>1, <1>3, <2>1 DEF IInv, TypeOK, TargetIsBegun, UnbegunIsUntouched, Ids, Live,
         Present
    <2>5. OneExecutor'
      <3>1. \A b \in Callers : pc[b] \in ExecPc => target[b] \in Ids
        BY DEF IInv, TypeOK, TargetIsBegun, ExecPc, Ids
      <3>2. \A b \in Callers : pc'[b] \in ExecPc => pc[b] \in ExecPc /\ target'[b] = target[b]
        BY <2>1 DEF IInv, TypeOK, ExecPc
      <3>3. \A z \in Ids : table'[z] = "ready" => table[z] = "ready"
        BY <2>1 DEF IInv, TypeOK
      <3> QED BY <3>1, <3>2, <3>3 DEF IInv, OneExecutor
    <2>6. MapOwns'
      BY <1>1, <1>3, <2>1 DEF IInv, TypeOK, TargetIsBegun, UnbegunIsUntouched, MapOwns,
         WatcherOwns, CallerOwns, Owed, Resolves, ResolvePc, Present, Live, Ended, Ids, NoId
    <2>7. WatcherOwns'
      BY <1>1, <1>3, <2>1 DEF IInv, TypeOK, TargetIsBegun, UnbegunIsUntouched, MapOwns,
         WatcherOwns, CallerOwns, Owed, Resolves, ResolvePc, Present, Live, Ended, Ids, NoId
    <2>8. CallerOwns'
      BY <1>1, <1>3, <2>1 DEF IInv, TypeOK, TargetIsBegun, UnbegunIsUntouched, MapOwns,
         WatcherOwns, CallerOwns, Owed, Resolves, ResolvePc, Present, Live, Ended, Ids, NoId
    <2>9. SomeoneOwns'
      <3> SUFFICES ASSUME NEW z \in Ids, Owed(z)'
                   PROVE  (Present(z) \/ rolling[z] \/ \E b \in Callers : Resolves(b, z))'
        BY DEF SomeoneOwns
      <3>1. Owed(z)
        BY <2>1 DEF Owed
      <3>2. CASE Present(z) \/ rolling[z]
        BY <1>1, <1>3, <2>1, <3>2 DEF IInv, TypeOK, Present
      <3>3. ASSUME NEW b \in Callers, Resolves(b, z) PROVE Resolves(b, z)'
        BY <2>1, <3>3 DEF IInv, TypeOK, Resolves, ResolvePc
      <3> QED BY <3>1, <3>2, <3>3 DEF IInv, SomeoneOwns
    <2>10. ExpirySparesStatements'
      <3>1. \A b \in Callers : pc'[b] \in ExecPc => pc[b] \in ExecPc /\ target'[b] = target[b]
        BY <2>1 DEF IInv, TypeOK, ExecPc
      <3>2. \A b \in Callers : pc'[b] = "expire" => pc[b] = "expire" /\ target'[b] = target[b]
        BY <2>1 DEF IInv, TypeOK
      <3>3. rolling' = rolling
        BY <2>1
      <3> QED BY <3>1, <3>2, <3>3 DEF IInv, ExpirySparesStatements, Resolvers, ResolvePc
    <2> QED BY <2>2, <2>3, <2>4, <2>5, <2>6, <2>7, <2>8, <2>9, <2>10 DEF IInv
  <1> QED BY <1>2, <1>3

\* The error path ends the transaction it took over.
LEMMA AbortPreserves ==
  ASSUME IInv, NEW a \in Callers, Abort(a)
  PROVE  IInv'
  <1> USE TransactionSessionsAssumption DEF Abort, Return, RollbackConnection, sessionVars,
      watchVars, callerVars
  <1>1. target[a] \in Ids /\ target[a] <= begun
    BY DEF IInv, TypeOK, TargetIsBegun, Ids
  <1>2. TypeOK'
    BY <1>1 DEF IInv, TypeOK, TargetIsBegun, CallerPc, ExecPc, ResolvePc, Live, Ended, Ids,
       NoId
  <1>3. TargetIsBegun'
    BY <1>1 DEF IInv, TypeOK, TargetIsBegun, Ids, NoId
  <1>4. UnbegunIsUntouched'
    BY <1>1 DEF IInv, TypeOK, TargetIsBegun, UnbegunIsUntouched, Ids, Live, Present
  <1>5. OneExecutor'
    BY <1>1 DEF IInv, TypeOK, TargetIsBegun, UnbegunIsUntouched, OneExecutor, ExecPc, Ids,
       Present
  <1>6. MapOwns'
    BY <1>1 DEF IInv, TypeOK, TargetIsBegun, UnbegunIsUntouched, MapOwns, WatcherOwns,
       CallerOwns, Owed, Resolves, ResolvePc, Present, Live, Ended, Ids, NoId
  <1>7. WatcherOwns'
    BY <1>1 DEF IInv, TypeOK, TargetIsBegun, UnbegunIsUntouched, MapOwns, WatcherOwns,
       CallerOwns, Owed, Resolves, ResolvePc, Present, Live, Ended, Ids, NoId
  <1>8. CallerOwns'
    BY <1>1 DEF IInv, TypeOK, TargetIsBegun, UnbegunIsUntouched, MapOwns, WatcherOwns,
       CallerOwns, Owed, Resolves, ResolvePc, Present, Live, Ended, Ids, NoId
  <1>9. SomeoneOwns'
    BY <1>1 DEF IInv, TypeOK, TargetIsBegun, UnbegunIsUntouched, MapOwns, WatcherOwns,
       CallerOwns, SomeoneOwns, Owed, Resolves, ResolvePc, Present, Live, Ended, Ids, NoId
  <1>10. ExpirySparesStatements'
    BY <1>1 DEF IInv, TypeOK, TargetIsBegun, UnbegunIsUntouched, OneExecutor, WatcherOwns,
       MapOwns, CallerOwns, ExpirySparesStatements, Resolvers, ExecPc, ResolvePc, Ids,
       Present, Resolves
  <1> QED BY <1>2, <1>3, <1>4, <1>5, <1>6, <1>7, <1>8, <1>9, <1>10 DEF IInv

\* The end of the statements changes no owner.
LEMMA StatementsDonePreserves ==
  ASSUME IInv, NEW a \in Callers, StatementsDone(a)
  PROVE  IInv'
  <1> USE TransactionSessionsAssumption DEF StatementsDone, Goto, sessionVars, watchVars,
      callerVars
  <1>1. target[a] \in Ids /\ target[a] <= begun
    BY DEF IInv, TypeOK, TargetIsBegun, Ids
  <1>2. TypeOK'
    BY <1>1 DEF IInv, TypeOK, TargetIsBegun, CallerPc, ExecPc, ResolvePc, Live, Ended, Ids,
       NoId
  <1>3. TargetIsBegun'
    BY <1>1 DEF IInv, TypeOK, TargetIsBegun, Ids, NoId
  <1>4. UnbegunIsUntouched'
    BY <1>1 DEF IInv, TypeOK, TargetIsBegun, UnbegunIsUntouched, Ids, Live, Present
  <1>5. OneExecutor'
    BY <1>1 DEF IInv, TypeOK, TargetIsBegun, UnbegunIsUntouched, OneExecutor, ExecPc, Ids,
       Present
  <1>6. MapOwns'
    BY <1>1 DEF IInv, TypeOK, TargetIsBegun, UnbegunIsUntouched, MapOwns, WatcherOwns,
       CallerOwns, Owed, Resolves, ResolvePc, Present, Live, Ended, Ids, NoId
  <1>7. WatcherOwns'
    BY <1>1 DEF IInv, TypeOK, TargetIsBegun, UnbegunIsUntouched, MapOwns, WatcherOwns,
       CallerOwns, Owed, Resolves, ResolvePc, Present, Live, Ended, Ids, NoId
  <1>8. CallerOwns'
    BY <1>1 DEF IInv, TypeOK, TargetIsBegun, UnbegunIsUntouched, MapOwns, WatcherOwns,
       CallerOwns, Owed, Resolves, ResolvePc, Present, Live, Ended, Ids, NoId
  <1>9. SomeoneOwns'
    <2> SUFFICES ASSUME NEW z \in Ids, Owed(z)'
                 PROVE  (Present(z) \/ rolling[z] \/ \E b \in Callers : Resolves(b, z))'
      BY DEF SomeoneOwns
    <2>1. Owed(z)
      BY <1>1 DEF IInv, TypeOK, Owed, Live, Ended
    <2>2. CASE Present(z) \/ rolling[z]
      BY <2>2 DEF Present
    <2>3. ASSUME NEW b \in Callers, Resolves(b, z) PROVE Resolves(b, z)'
      BY <2>3 DEF IInv, TypeOK, Resolves, ResolvePc
    <2> QED BY <2>1, <2>2, <2>3 DEF IInv, SomeoneOwns
  <1>10. ExpirySparesStatements'
    BY <1>1 DEF IInv, TypeOK, TargetIsBegun, UnbegunIsUntouched, OneExecutor, WatcherOwns,
       MapOwns, CallerOwns, ExpirySparesStatements, Resolvers, ExecPc, ResolvePc, Ids,
       Present, Resolves
  <1> QED BY <1>2, <1>3, <1>4, <1>5, <1>6, <1>7, <1>8, <1>9, <1>10 DEF IInv

\* The only executor gives the session back.
LEMMA FinishPreserves ==
  ASSUME IInv, NEW a \in Callers, Finish(a)
  PROVE  IInv'
  <1> USE TransactionSessionsAssumption
  <1>1. target[a] \in Ids /\ target[a] <= begun
    BY DEF IInv, TypeOK, TargetIsBegun, Ids, Finish
  <1>2. CASE Present(target[a])
    <2>1. /\ pc[a] = "finish"
          /\ pc' = [pc EXCEPT ![a] = "idle"] /\ target' = [target EXCEPT ![a] = NoId]
          /\ table' = [table EXCEPT ![target[a]] = "ready"]
          /\ age' = [age EXCEPT ![target[a]] = 0] /\ fresh' = [fresh EXCEPT ![target[a]] = TRUE]
          /\ UNCHANGED <<begun, kind, txn, lock, cleared, stale, rolling>>
      BY <1>2 DEF Finish, Return, Present, sessionVars, watchVars, callerVars
    <2>2. TypeOK'
      BY <1>1, <1>2, <2>1 DEF IInv, TypeOK, TargetIsBegun, CallerPc, ExecPc, ResolvePc,
         Live, Ended, Ids, NoId
    <2>3. TargetIsBegun'
      BY <1>1, <1>2, <2>1 DEF IInv, TypeOK, TargetIsBegun, Ids, NoId
    <2>4. UnbegunIsUntouched'
      BY <1>1, <1>2, <2>1 DEF IInv, TypeOK, TargetIsBegun, UnbegunIsUntouched, Ids, Live,
         Present
    <2>5. OneExecutor'
      <3>1. \A b \in Callers : pc[b] \in ExecPc => target[b] \in Ids
        BY DEF IInv, TypeOK, TargetIsBegun, ExecPc, Ids
      <3>2. \A b \in Callers :
              pc'[b] \in ExecPc => b # a /\ pc[b] \in ExecPc /\ target'[b] = target[b]
        BY <2>1 DEF IInv, TypeOK, ExecPc
      <3>3. \A b \in Callers : b # a /\ pc[b] \in ExecPc => target[b] # target[a]
        BY <2>1 DEF IInv, OneExecutor, ExecPc
      <3>4. \A z \in Ids : z # target[a] => table'[z] = table[z]
        BY <2>1 DEF IInv, TypeOK
      <3> QED BY <3>1, <3>2, <3>3, <3>4 DEF IInv, OneExecutor
    <2>6. MapOwns'
      BY <1>1, <1>2, <2>1 DEF IInv, TypeOK, TargetIsBegun, UnbegunIsUntouched, MapOwns,
         WatcherOwns, CallerOwns, Owed, Resolves, ResolvePc, Present, Live, Ended, Ids, NoId
    <2>7. WatcherOwns'
      BY <1>1, <1>2, <2>1 DEF IInv, TypeOK, TargetIsBegun, UnbegunIsUntouched, MapOwns,
         WatcherOwns, CallerOwns, Owed, Resolves, ResolvePc, Present, Live, Ended, Ids, NoId
    <2>8. CallerOwns'
      BY <1>1, <1>2, <2>1 DEF IInv, TypeOK, TargetIsBegun, UnbegunIsUntouched, MapOwns,
         WatcherOwns, CallerOwns, Owed, Resolves, ResolvePc, Present, Live, Ended, Ids, NoId
    <2>9. SomeoneOwns'
      <3> SUFFICES ASSUME NEW z \in Ids, Owed(z)'
                   PROVE  (Present(z) \/ rolling[z] \/ \E b \in Callers : Resolves(b, z))'
        BY DEF SomeoneOwns
      <3>1. Owed(z)
        BY <2>1 DEF Owed
      <3>2. CASE Present(z) \/ rolling[z]
        BY <1>1, <2>1, <3>2 DEF IInv, TypeOK, Present
      <3>3. ASSUME NEW b \in Callers, Resolves(b, z) PROVE Resolves(b, z)'
        BY <2>1, <3>3 DEF IInv, TypeOK, Resolves, ResolvePc
      <3> QED BY <3>1, <3>2, <3>3 DEF IInv, SomeoneOwns
    <2>10. ExpirySparesStatements'
      <3>1. \A b \in Callers : pc'[b] \in ExecPc => pc[b] \in ExecPc /\ target'[b] = target[b]
        BY <2>1 DEF IInv, TypeOK, ExecPc
      <3>2. \A b \in Callers : pc'[b] = "expire" => pc[b] = "expire" /\ target'[b] = target[b]
        BY <2>1 DEF IInv, TypeOK
      <3>3. rolling' = rolling
        BY <2>1
      <3> QED BY <3>1, <3>2, <3>3 DEF IInv, ExpirySparesStatements, Resolvers, ResolvePc
    <2> QED BY <2>2, <2>3, <2>4, <2>5, <2>6, <2>7, <2>8, <2>9, <2>10 DEF IInv
  <1>3. CASE ~Present(target[a])
    <2>1. /\ pc[a] = "finish"
          /\ pc' = [pc EXCEPT ![a] = "idle"] /\ target' = [target EXCEPT ![a] = NoId]
          /\ UNCHANGED <<begun, table, kind, txn, lock, age, cleared, fresh, stale, rolling>>
      BY <1>3 DEF Finish, Return, Present, sessionVars, watchVars, callerVars
    <2>2. TypeOK'
      BY <1>1, <1>3, <2>1 DEF IInv, TypeOK, TargetIsBegun, CallerPc, ExecPc, ResolvePc,
         Live, Ended, Ids, NoId
    <2>3. TargetIsBegun'
      BY <1>1, <1>3, <2>1 DEF IInv, TypeOK, TargetIsBegun, Ids, NoId
    <2>4. UnbegunIsUntouched'
      BY <1>1, <1>3, <2>1 DEF IInv, TypeOK, TargetIsBegun, UnbegunIsUntouched, Ids, Live,
         Present
    <2>5. OneExecutor'
      BY <1>1, <1>3, <2>1 DEF IInv, TypeOK, TargetIsBegun, UnbegunIsUntouched, OneExecutor,
         ExecPc, Ids, Present
    <2>6. MapOwns'
      BY <1>1, <1>3, <2>1 DEF IInv, TypeOK, TargetIsBegun, UnbegunIsUntouched, MapOwns,
         WatcherOwns, CallerOwns, Owed, Resolves, ResolvePc, Present, Live, Ended, Ids, NoId
    <2>7. WatcherOwns'
      BY <1>1, <1>3, <2>1 DEF IInv, TypeOK, TargetIsBegun, UnbegunIsUntouched, MapOwns,
         WatcherOwns, CallerOwns, Owed, Resolves, ResolvePc, Present, Live, Ended, Ids, NoId
    <2>8. CallerOwns'
      BY <1>1, <1>3, <2>1 DEF IInv, TypeOK, TargetIsBegun, UnbegunIsUntouched, MapOwns,
         WatcherOwns, CallerOwns, Owed, Resolves, ResolvePc, Present, Live, Ended, Ids, NoId
    <2>9. SomeoneOwns'
      <3> SUFFICES ASSUME NEW z \in Ids, Owed(z)'
                   PROVE  (Present(z) \/ rolling[z] \/ \E b \in Callers : Resolves(b, z))'
        BY DEF SomeoneOwns
      <3>1. Owed(z)
        BY <2>1 DEF Owed
      <3>2. CASE Present(z) \/ rolling[z]
        BY <2>1, <3>2 DEF Present
      <3>3. ASSUME NEW b \in Callers, Resolves(b, z) PROVE Resolves(b, z)'
        BY <2>1, <3>3 DEF IInv, TypeOK, Resolves, ResolvePc
      <3> QED BY <3>1, <3>2, <3>3 DEF IInv, SomeoneOwns
    <2>10. ExpirySparesStatements'
      <3>1. \A b \in Callers : pc'[b] \in ExecPc => pc[b] \in ExecPc /\ target'[b] = target[b]
        BY <2>1 DEF IInv, TypeOK, ExecPc
      <3>2. \A b \in Callers : pc'[b] = "expire" => pc[b] = "expire" /\ target'[b] = target[b]
        BY <2>1 DEF IInv, TypeOK
      <3>3. rolling' = rolling
        BY <2>1
      <3> QED BY <3>1, <3>2, <3>3 DEF IInv, ExpirySparesStatements, Resolvers, ResolvePc
    <2> QED BY <2>2, <2>3, <2>4, <2>5, <2>6, <2>7, <2>8, <2>9, <2>10 DEF IInv
  <1> QED BY <1>2, <1>3

\* A commit takes the session over from the map.
LEMMA CommitCallPreserves ==
  ASSUME IInv, NEW a \in Callers, NEW s \in Ids, CommitCall(a, s)
  PROVE  IInv'
  <1> USE TransactionSessionsAssumption DEF CommitCall, Start, Remove, Present, sessionVars,
      watchVars, callerVars
  <1>1. s <= begun
    BY DEF IInv, TypeOK, UnbegunIsUntouched, Ids, Present
  <1>2. TypeOK'
    BY <1>1 DEF IInv, TypeOK, TargetIsBegun, CallerPc, ExecPc, ResolvePc, Live, Ended, Ids,
       NoId
  <1>3. TargetIsBegun'
    BY <1>1 DEF IInv, TypeOK, TargetIsBegun, Ids, NoId
  <1>4. UnbegunIsUntouched'
    BY <1>1 DEF IInv, TypeOK, TargetIsBegun, UnbegunIsUntouched, Ids, Live
  <1>5. OneExecutor'
    BY <1>1 DEF IInv, TypeOK, TargetIsBegun, UnbegunIsUntouched, OneExecutor, ExecPc, Ids
  <1>6. MapOwns'
    BY <1>1 DEF IInv, TypeOK, TargetIsBegun, UnbegunIsUntouched, MapOwns, WatcherOwns,
       CallerOwns, Owed, Resolves, ResolvePc, Live, Ended, Ids, NoId
  <1>7. WatcherOwns'
    BY <1>1 DEF IInv, TypeOK, TargetIsBegun, UnbegunIsUntouched, MapOwns, WatcherOwns,
       CallerOwns, Owed, Resolves, ResolvePc, Live, Ended, Ids, NoId
  <1>8. CallerOwns'
    BY <1>1 DEF IInv, TypeOK, TargetIsBegun, UnbegunIsUntouched, MapOwns, WatcherOwns,
       CallerOwns, Owed, Resolves, ResolvePc, Live, Ended, Ids, NoId
  <1>9. SomeoneOwns'
    <2> SUFFICES ASSUME NEW z \in Ids, Owed(z)'
                 PROVE  (Present(z) \/ rolling[z] \/ \E b \in Callers : Resolves(b, z))'
      BY DEF SomeoneOwns
    <2>1. Owed(z)
      BY <1>1 DEF IInv, TypeOK, Owed, Live, Ended
    <2>2. CASE Present(z) \/ rolling[z]
      <3>1. CASE z = s
        BY <3>1 DEF IInv, TypeOK, Resolves, ResolvePc
      <3>2. CASE z # s
        BY <2>2, <3>2 DEF IInv, TypeOK, Present
      <3> QED BY <3>1, <3>2
    <2>3. ASSUME NEW b \in Callers, Resolves(b, z) PROVE Resolves(b, z)'
      BY <2>3 DEF IInv, TypeOK, Resolves, ResolvePc
    <2> QED BY <2>1, <2>2, <2>3 DEF IInv, SomeoneOwns
  <1>10. ExpirySparesStatements'
    BY <1>1 DEF IInv, TypeOK, TargetIsBegun, UnbegunIsUntouched, OneExecutor, WatcherOwns,
       MapOwns, CallerOwns, ExpirySparesStatements, Resolvers, ExecPc, ResolvePc, Ids,
       Resolves
  <1> QED BY <1>2, <1>3, <1>4, <1>5, <1>6, <1>7, <1>8, <1>9, <1>10 DEF IInv

\* COMMIT ends the transaction.
LEMMA CommitPreserves ==
  ASSUME IInv, NEW a \in Callers, Commit(a)
  PROVE  IInv'
  <1> USE TransactionSessionsAssumption DEF Commit, Return, sessionVars, watchVars,
      callerVars
  <1>1. target[a] \in Ids /\ target[a] <= begun
    BY DEF IInv, TypeOK, TargetIsBegun, Ids
  <1>2. TypeOK'
    BY <1>1 DEF IInv, TypeOK, TargetIsBegun, CallerPc, ExecPc, ResolvePc, Live, Ended, Ids,
       NoId
  <1>3. TargetIsBegun'
    BY <1>1 DEF IInv, TypeOK, TargetIsBegun, Ids, NoId
  <1>4. UnbegunIsUntouched'
    BY <1>1 DEF IInv, TypeOK, TargetIsBegun, UnbegunIsUntouched, Ids, Live, Present
  <1>5. OneExecutor'
    BY <1>1 DEF IInv, TypeOK, TargetIsBegun, UnbegunIsUntouched, OneExecutor, ExecPc, Ids,
       Present
  <1>6. MapOwns'
    BY <1>1 DEF IInv, TypeOK, TargetIsBegun, UnbegunIsUntouched, MapOwns, WatcherOwns,
       CallerOwns, Owed, Resolves, ResolvePc, Present, Live, Ended, Ids, NoId
  <1>7. WatcherOwns'
    BY <1>1 DEF IInv, TypeOK, TargetIsBegun, UnbegunIsUntouched, MapOwns, WatcherOwns,
       CallerOwns, Owed, Resolves, ResolvePc, Present, Live, Ended, Ids, NoId
  <1>8. CallerOwns'
    BY <1>1 DEF IInv, TypeOK, TargetIsBegun, UnbegunIsUntouched, MapOwns, WatcherOwns,
       CallerOwns, Owed, Resolves, ResolvePc, Present, Live, Ended, Ids, NoId
  <1>9. SomeoneOwns'
    BY <1>1 DEF IInv, TypeOK, TargetIsBegun, UnbegunIsUntouched, MapOwns, WatcherOwns,
       CallerOwns, SomeoneOwns, Owed, Resolves, ResolvePc, Present, Live, Ended, Ids, NoId
  <1>10. ExpirySparesStatements'
    BY <1>1 DEF IInv, TypeOK, TargetIsBegun, UnbegunIsUntouched, OneExecutor, WatcherOwns,
       MapOwns, CallerOwns, ExpirySparesStatements, Resolvers, ExecPc, ResolvePc, Ids,
       Present, Resolves
  <1> QED BY <1>2, <1>3, <1>4, <1>5, <1>6, <1>7, <1>8, <1>9, <1>10 DEF IInv

\* A rollback takes the session over from the map.
LEMMA RollbackCallPreserves ==
  ASSUME IInv, NEW a \in Callers, NEW s \in Ids, RollbackCall(a, s)
  PROVE  IInv'
  <1> USE TransactionSessionsAssumption DEF RollbackCall, Start, Remove, Present,
      sessionVars, watchVars, callerVars
  <1>1. s <= begun
    BY DEF IInv, TypeOK, UnbegunIsUntouched, Ids, Present
  <1>2. TypeOK'
    BY <1>1 DEF IInv, TypeOK, TargetIsBegun, CallerPc, ExecPc, ResolvePc, Live, Ended, Ids,
       NoId
  <1>3. TargetIsBegun'
    BY <1>1 DEF IInv, TypeOK, TargetIsBegun, Ids, NoId
  <1>4. UnbegunIsUntouched'
    BY <1>1 DEF IInv, TypeOK, TargetIsBegun, UnbegunIsUntouched, Ids, Live
  <1>5. OneExecutor'
    BY <1>1 DEF IInv, TypeOK, TargetIsBegun, UnbegunIsUntouched, OneExecutor, ExecPc, Ids
  <1>6. MapOwns'
    BY <1>1 DEF IInv, TypeOK, TargetIsBegun, UnbegunIsUntouched, MapOwns, WatcherOwns,
       CallerOwns, Owed, Resolves, ResolvePc, Live, Ended, Ids, NoId
  <1>7. WatcherOwns'
    BY <1>1 DEF IInv, TypeOK, TargetIsBegun, UnbegunIsUntouched, MapOwns, WatcherOwns,
       CallerOwns, Owed, Resolves, ResolvePc, Live, Ended, Ids, NoId
  <1>8. CallerOwns'
    BY <1>1 DEF IInv, TypeOK, TargetIsBegun, UnbegunIsUntouched, MapOwns, WatcherOwns,
       CallerOwns, Owed, Resolves, ResolvePc, Live, Ended, Ids, NoId
  <1>9. SomeoneOwns'
    <2> SUFFICES ASSUME NEW z \in Ids, Owed(z)'
                 PROVE  (Present(z) \/ rolling[z] \/ \E b \in Callers : Resolves(b, z))'
      BY DEF SomeoneOwns
    <2>1. Owed(z)
      BY <1>1 DEF IInv, TypeOK, Owed, Live, Ended
    <2>2. CASE Present(z) \/ rolling[z]
      <3>1. CASE z = s
        BY <3>1 DEF IInv, TypeOK, Resolves, ResolvePc
      <3>2. CASE z # s
        BY <2>2, <3>2 DEF IInv, TypeOK, Present
      <3> QED BY <3>1, <3>2
    <2>3. ASSUME NEW b \in Callers, Resolves(b, z) PROVE Resolves(b, z)'
      BY <2>3 DEF IInv, TypeOK, Resolves, ResolvePc
    <2> QED BY <2>1, <2>2, <2>3 DEF IInv, SomeoneOwns
  <1>10. ExpirySparesStatements'
    BY <1>1 DEF IInv, TypeOK, TargetIsBegun, UnbegunIsUntouched, OneExecutor, WatcherOwns,
       MapOwns, CallerOwns, ExpirySparesStatements, Resolvers, ExecPc, ResolvePc, Ids,
       Resolves
  <1> QED BY <1>2, <1>3, <1>4, <1>5, <1>6, <1>7, <1>8, <1>9, <1>10 DEF IInv

\* ROLLBACK ends the transaction.
LEMMA RollbackPreserves ==
  ASSUME IInv, NEW a \in Callers, Rollback(a)
  PROVE  IInv'
  <1> USE TransactionSessionsAssumption DEF Rollback, Return, RollbackConnection,
      sessionVars, watchVars, callerVars
  <1>1. target[a] \in Ids /\ target[a] <= begun
    BY DEF IInv, TypeOK, TargetIsBegun, Ids
  <1>2. TypeOK'
    BY <1>1 DEF IInv, TypeOK, TargetIsBegun, CallerPc, ExecPc, ResolvePc, Live, Ended, Ids,
       NoId
  <1>3. TargetIsBegun'
    BY <1>1 DEF IInv, TypeOK, TargetIsBegun, Ids, NoId
  <1>4. UnbegunIsUntouched'
    BY <1>1 DEF IInv, TypeOK, TargetIsBegun, UnbegunIsUntouched, Ids, Live, Present
  <1>5. OneExecutor'
    BY <1>1 DEF IInv, TypeOK, TargetIsBegun, UnbegunIsUntouched, OneExecutor, ExecPc, Ids,
       Present
  <1>6. MapOwns'
    BY <1>1 DEF IInv, TypeOK, TargetIsBegun, UnbegunIsUntouched, MapOwns, WatcherOwns,
       CallerOwns, Owed, Resolves, ResolvePc, Present, Live, Ended, Ids, NoId
  <1>7. WatcherOwns'
    BY <1>1 DEF IInv, TypeOK, TargetIsBegun, UnbegunIsUntouched, MapOwns, WatcherOwns,
       CallerOwns, Owed, Resolves, ResolvePc, Present, Live, Ended, Ids, NoId
  <1>8. CallerOwns'
    BY <1>1 DEF IInv, TypeOK, TargetIsBegun, UnbegunIsUntouched, MapOwns, WatcherOwns,
       CallerOwns, Owed, Resolves, ResolvePc, Present, Live, Ended, Ids, NoId
  <1>9. SomeoneOwns'
    BY <1>1 DEF IInv, TypeOK, TargetIsBegun, UnbegunIsUntouched, MapOwns, WatcherOwns,
       CallerOwns, SomeoneOwns, Owed, Resolves, ResolvePc, Present, Live, Ended, Ids, NoId
  <1>10. ExpirySparesStatements'
    BY <1>1 DEF IInv, TypeOK, TargetIsBegun, UnbegunIsUntouched, OneExecutor, WatcherOwns,
       MapOwns, CallerOwns, ExpirySparesStatements, Resolvers, ExecPc, ResolvePc, Ids,
       Present, Resolves
  <1> QED BY <1>2, <1>3, <1>4, <1>5, <1>6, <1>7, <1>8, <1>9, <1>10 DEF IInv

\* A watcher takes over an idle session only.
LEMMA WatcherWakesPreserves ==
  ASSUME IInv, NEW s \in Ids, WatcherWakes(s)
  PROVE  IInv'
  <1> USE TransactionSessionsAssumption DEF WatcherWakes, Remove, Expires, sessionVars,
      watchVars, callerVars
  <1>2. TypeOK'
    <2>1. fresh' \in [Ids -> BOOLEAN]
      BY DEF IInv, TypeOK
    <2>2. stale' \in [Ids -> 0..MaxStale]
      <3>1. CASE stale' = stale
        BY <3>1 DEF IInv, TypeOK
      <3>2. CASE stale[s] > 0 /\ stale' = [stale EXCEPT ![s] = @ - 1]
        BY <3>2 DEF IInv, TypeOK
      <3> QED BY <3>1, <3>2
    <2>3. table' \in [Ids -> {"absent", "ready", "busy"}] /\ rolling' \in [Ids -> BOOLEAN]
      BY DEF IInv, TypeOK
    <2> QED BY <2>1, <2>2, <2>3 DEF IInv, TypeOK
  <1>3. TargetIsBegun'
    BY DEF IInv, TypeOK, TargetIsBegun, Ids, NoId
  <1>4. UnbegunIsUntouched'
    BY DEF IInv, TypeOK, TargetIsBegun, UnbegunIsUntouched, Ids, Live, Present
  <1>5. OneExecutor'
    <2>1. \A b \in Callers : pc[b] \in ExecPc => target[b] \in Ids
      BY DEF IInv, TypeOK, TargetIsBegun, ExecPc, Ids
    <2>2. \A z \in Ids : table'[z] = "ready" => table[z] = "ready"
      BY DEF IInv, TypeOK
    <2> QED BY <2>1, <2>2 DEF IInv, OneExecutor
  <1>6. MapOwns'
    BY DEF IInv, TypeOK, TargetIsBegun, UnbegunIsUntouched, MapOwns, WatcherOwns,
       CallerOwns, Owed, Resolves, ResolvePc, Present, Live, Ended, Ids, NoId
  <1>7. WatcherOwns'
    BY DEF IInv, TypeOK, TargetIsBegun, UnbegunIsUntouched, MapOwns, WatcherOwns,
       CallerOwns, Owed, Resolves, ResolvePc, Present, Live, Ended, Ids, NoId
  <1>8. CallerOwns'
    BY DEF IInv, TypeOK, TargetIsBegun, UnbegunIsUntouched, MapOwns, WatcherOwns,
       CallerOwns, Owed, Resolves, ResolvePc, Present, Live, Ended, Ids, NoId
  <1>9. SomeoneOwns'
    BY DEF IInv, TypeOK, TargetIsBegun, UnbegunIsUntouched, MapOwns, WatcherOwns,
       CallerOwns, SomeoneOwns, Owed, Resolves, ResolvePc, Present, Live, Ended, Ids, NoId
  <1>10. ExpirySparesStatements'
    <2>1. \A b \in Callers : table[s] = "ready" /\ target[b] = s => pc[b] \notin ExecPc
      BY DEF IInv, OneExecutor
    <2>2. \/ rolling' = rolling
          \/ table[s] = "ready" /\ rolling' = [rolling EXCEPT ![s] = TRUE]
      OBVIOUS
    <2>3. \A z \in Ids : Resolvers(z)' = Resolvers(z)
      BY DEF Resolvers
    <2>4. \A z \in Ids : z # s => rolling'[z] = rolling[z]
      BY <2>2 DEF IInv, TypeOK
    <2>5. rolling'[s] => rolling[s] \/ table[s] = "ready"
      BY <2>2
    <2> QED BY <2>1, <2>3, <2>4, <2>5 DEF IInv, ExpirySparesStatements
  <1> QED BY <1>2, <1>3, <1>4, <1>5, <1>6, <1>7, <1>8, <1>9, <1>10 DEF IInv

\* The watcher ends the transaction it took over.
LEMMA WatcherRollsBackPreserves ==
  ASSUME IInv, NEW s \in Ids, WatcherRollsBack(s)
  PROVE  IInv'
  <1> USE TransactionSessionsAssumption DEF WatcherRollsBack, RollbackConnection,
      sessionVars, watchVars, callerVars
  <1>2. TypeOK'
    BY DEF IInv, TypeOK, TargetIsBegun, CallerPc, ExecPc, ResolvePc, Live, Ended, Ids, NoId
  <1>3. TargetIsBegun'
    BY DEF IInv, TypeOK, TargetIsBegun, Ids, NoId
  <1>4. UnbegunIsUntouched'
    BY DEF IInv, TypeOK, TargetIsBegun, UnbegunIsUntouched, Ids, Live, Present
  <1>5. OneExecutor'
    BY DEF IInv, TypeOK, TargetIsBegun, UnbegunIsUntouched, OneExecutor, ExecPc, Ids,
       Present
  <1>6. MapOwns'
    BY DEF IInv, TypeOK, TargetIsBegun, UnbegunIsUntouched, MapOwns, WatcherOwns,
       CallerOwns, Owed, Resolves, ResolvePc, Present, Live, Ended, Ids, NoId
  <1>7. WatcherOwns'
    BY DEF IInv, TypeOK, TargetIsBegun, UnbegunIsUntouched, MapOwns, WatcherOwns,
       CallerOwns, Owed, Resolves, ResolvePc, Present, Live, Ended, Ids, NoId
  <1>8. CallerOwns'
    BY DEF IInv, TypeOK, TargetIsBegun, UnbegunIsUntouched, MapOwns, WatcherOwns,
       CallerOwns, Owed, Resolves, ResolvePc, Present, Live, Ended, Ids, NoId
  <1>9. SomeoneOwns'
    BY DEF IInv, TypeOK, TargetIsBegun, UnbegunIsUntouched, MapOwns, WatcherOwns,
       CallerOwns, SomeoneOwns, Owed, Resolves, ResolvePc, Present, Live, Ended, Ids, NoId
  <1>10. ExpirySparesStatements'
    BY DEF IInv, TypeOK, TargetIsBegun, UnbegunIsUntouched, OneExecutor, WatcherOwns,
       MapOwns, CallerOwns, ExpirySparesStatements, Resolvers, ExecPc, ResolvePc, Ids,
       Present, Resolves
  <1> QED BY <1>2, <1>3, <1>4, <1>5, <1>6, <1>7, <1>8, <1>9, <1>10 DEF IInv

\* Shutdown takes over every session in the map.
LEMMA ShutdownPreserves ==
  ASSUME IInv, Shutdown
  PROVE  IInv'
  <1> USE TransactionSessionsAssumption DEF Shutdown, Present, sessionVars, watchVars,
      callerVars
  <1>2. TypeOK'
    BY DEF IInv, TypeOK, TargetIsBegun, CallerPc, ExecPc, ResolvePc, Live, Ended, Ids, NoId
  <1>3. TargetIsBegun'
    BY DEF IInv, TypeOK, TargetIsBegun, Ids, NoId
  <1>4. UnbegunIsUntouched'
    BY DEF IInv, TypeOK, TargetIsBegun, UnbegunIsUntouched, Ids, Live
  <1>5. OneExecutor'
    BY DEF IInv, TypeOK, TargetIsBegun, UnbegunIsUntouched, OneExecutor, ExecPc, Ids
  <1>6. MapOwns'
    BY DEF IInv, TypeOK, TargetIsBegun, UnbegunIsUntouched, MapOwns, WatcherOwns,
       CallerOwns, Owed, Resolves, ResolvePc, Live, Ended, Ids, NoId
  <1>7. WatcherOwns'
    BY DEF IInv, TypeOK, TargetIsBegun, UnbegunIsUntouched, MapOwns, WatcherOwns,
       CallerOwns, Owed, Resolves, ResolvePc, Live, Ended, Ids, NoId
  <1>8. CallerOwns'
    BY DEF IInv, TypeOK, TargetIsBegun, UnbegunIsUntouched, MapOwns, WatcherOwns,
       CallerOwns, Owed, Resolves, ResolvePc, Live, Ended, Ids, NoId
  <1>9. SomeoneOwns'
    <2> SUFFICES ASSUME NEW z \in Ids, Owed(z)'
                 PROVE  (Present(z) \/ rolling[z] \/ \E b \in Callers : Resolves(b, z))'
      BY DEF SomeoneOwns
    <2>1. Owed(z) /\ ~Present(z)
      BY DEF IInv, TypeOK, Owed
    <2>2. rolling[z] \/ \E b \in Callers : Resolves(b, z)
      BY <2>1 DEF IInv, SomeoneOwns
    <2> QED BY <2>2 DEF Resolves
  <1>10. ExpirySparesStatements'
    BY DEF IInv, TypeOK, TargetIsBegun, UnbegunIsUntouched, OneExecutor, WatcherOwns,
       MapOwns, CallerOwns, ExpirySparesStatements, Resolvers, ExecPc, ResolvePc, Ids,
       Resolves
  <1> QED BY <1>2, <1>3, <1>4, <1>5, <1>6, <1>7, <1>8, <1>9, <1>10 DEF IInv

\* A session that shutdown cleared has no other owner.
LEMMA ConnectionDroppedPreserves ==
  ASSUME IInv, NEW s \in Ids, ConnectionDropped(s)
  PROVE  IInv'
  <1> USE TransactionSessionsAssumption DEF ConnectionDropped, RollbackConnection,
      sessionVars, watchVars, callerVars
  <1>2. TypeOK'
    BY DEF IInv, TypeOK, TargetIsBegun, CallerPc, ExecPc, ResolvePc, Live, Ended, Ids, NoId
  <1>3. TargetIsBegun'
    BY DEF IInv, TypeOK, TargetIsBegun, Ids, NoId
  <1>4. UnbegunIsUntouched'
    BY DEF IInv, TypeOK, TargetIsBegun, UnbegunIsUntouched, Ids, Live, Present
  <1>5. OneExecutor'
    BY DEF IInv, TypeOK, TargetIsBegun, UnbegunIsUntouched, OneExecutor, ExecPc, Ids,
       Present
  <1>6. MapOwns'
    BY DEF IInv, TypeOK, TargetIsBegun, UnbegunIsUntouched, MapOwns, WatcherOwns,
       CallerOwns, Owed, Resolves, ResolvePc, Present, Live, Ended, Ids, NoId
  <1>7. WatcherOwns'
    BY DEF IInv, TypeOK, TargetIsBegun, UnbegunIsUntouched, MapOwns, WatcherOwns,
       CallerOwns, Owed, Resolves, ResolvePc, Present, Live, Ended, Ids, NoId
  <1>8. CallerOwns'
    BY DEF IInv, TypeOK, TargetIsBegun, UnbegunIsUntouched, MapOwns, WatcherOwns,
       CallerOwns, Owed, Resolves, ResolvePc, Present, Live, Ended, Ids, NoId
  <1>9. SomeoneOwns'
    BY DEF IInv, TypeOK, TargetIsBegun, UnbegunIsUntouched, MapOwns, WatcherOwns,
       CallerOwns, SomeoneOwns, Owed, Resolves, ResolvePc, Present, Live, Ended, Ids, NoId
  <1>10. ExpirySparesStatements'
    BY DEF IInv, TypeOK, TargetIsBegun, UnbegunIsUntouched, OneExecutor, WatcherOwns,
       MapOwns, CallerOwns, ExpirySparesStatements, Resolvers, ExecPc, ResolvePc, Ids,
       Present, Resolves
  <1> QED BY <1>2, <1>3, <1>4, <1>5, <1>6, <1>7, <1>8, <1>9, <1>10 DEF IInv

\* Time changes no owner.
LEMMA TickPreserves ==
  ASSUME IInv, NEW s \in Ids, Tick(s)
  PROVE  IInv'
  <1> USE TransactionSessionsAssumption DEF Tick, Present, sessionVars, watchVars,
      callerVars
  <1>2. TypeOK'
    <2>1. age' \in [Ids -> 0..2]
      BY DEF IInv, TypeOK
    <2> QED BY <2>1 DEF IInv, TypeOK
  <1>3. TargetIsBegun'
    BY DEF IInv, TypeOK, TargetIsBegun, Ids, NoId
  <1>4. UnbegunIsUntouched'
    BY DEF IInv, TypeOK, TargetIsBegun, UnbegunIsUntouched, Ids, Live
  <1>5. OneExecutor'
    BY DEF IInv, TypeOK, TargetIsBegun, UnbegunIsUntouched, OneExecutor, ExecPc, Ids
  <1>6. MapOwns'
    BY DEF IInv, TypeOK, TargetIsBegun, UnbegunIsUntouched, MapOwns, WatcherOwns,
       CallerOwns, Owed, Resolves, ResolvePc, Live, Ended, Ids, NoId
  <1>7. WatcherOwns'
    BY DEF IInv, TypeOK, TargetIsBegun, UnbegunIsUntouched, MapOwns, WatcherOwns,
       CallerOwns, Owed, Resolves, ResolvePc, Live, Ended, Ids, NoId
  <1>8. CallerOwns'
    BY DEF IInv, TypeOK, TargetIsBegun, UnbegunIsUntouched, MapOwns, WatcherOwns,
       CallerOwns, Owed, Resolves, ResolvePc, Live, Ended, Ids, NoId
  <1>9. SomeoneOwns'
    BY DEF IInv, TypeOK, TargetIsBegun, UnbegunIsUntouched, MapOwns, WatcherOwns,
       CallerOwns, SomeoneOwns, Owed, Resolves, ResolvePc, Live, Ended, Ids, NoId
  <1>10. ExpirySparesStatements'
    BY DEF IInv, TypeOK, TargetIsBegun, UnbegunIsUntouched, OneExecutor, WatcherOwns,
       MapOwns, CallerOwns, ExpirySparesStatements, Resolvers, ExecPc, ResolvePc, Ids,
       Resolves
  <1> QED BY <1>2, <1>3, <1>4, <1>5, <1>6, <1>7, <1>8, <1>9, <1>10 DEF IInv

-----------------------------------------------------------------------------
\* Every step preserves the invariant.
LEMMA NextIInv == IInv /\ [Next]_vars => IInv'
  <1> SUFFICES ASSUME IInv, [Next]_vars PROVE IInv'
    OBVIOUS
  <1>1. CASE \E s \in Ids, k \in {"postgres", "mysql"} : Begin(s, k)
    BY <1>1, BeginPreserves
  <1>2. CASE \E s \in Ids : BeginLeaks(s)
    BY <1>2, BeginLeaksPreserves
  <1>3. CASE \E a \in Callers, s \in Ids : CallerCalls(a, s)
    BY <1>3, ClaimPreserves, ClaimExpiredPreserves, CommitCallPreserves, RollbackCallPreserves
       DEF CallerCalls
  <1>4. CASE \E a \in Callers : CallerStep(a)
    BY <1>4, ExpirePreserves, FetchPreserves, LockConnectionPreserves, StatementFailsPreserves,
       RemoveFailedPreserves, AbortPreserves, StatementsDonePreserves, FinishPreserves,
       CommitPreserves, RollbackPreserves DEF CallerStep
  <1>5. CASE \E s \in Ids : SessionStep(s)
    BY <1>5, WatcherWakesPreserves, WatcherRollsBackPreserves, ConnectionDroppedPreserves,
       TickPreserves DEF SessionStep
  <1>6. CASE Shutdown
    BY <1>6, ShutdownPreserves
  <1>7. CASE Quiet \/ UNCHANGED vars
    BY <1>7 DEF Quiet, vars, sessionVars, watchVars, callerVars, IInv, TypeOK, TargetIsBegun,
       UnbegunIsUntouched, OneExecutor, MapOwns, WatcherOwns, CallerOwns, SomeoneOwns,
       ExpirySparesStatements, Resolves, Resolvers, Owed, Present
  <1> QED BY <1>1, <1>2, <1>3, <1>4, <1>5, <1>6, <1>7 DEF Next

\* The parts of the invariant that speak of owners are OneOwner.
LEMMA OwnersOfIInv == IInv => OneOwner
  <1> SUFFICES ASSUME IInv, NEW s \in Ids
               PROVE  IF txn[s] \in Live /\ ~cleared[s]
                        THEN \E o \in Owners(s) : Owners(s) = {o}
                        ELSE Owners(s) = {}
    BY DEF OneOwner
  <1>1. \A a \in Callers : a \in Resolvers(s) <=> Resolves(a, s)
    BY DEF Resolvers, Resolves
  <1>2. CASE ~Owed(s)
    <2>1. Resolvers(s) = {} /\ ~Present(s) /\ ~rolling[s]
      BY <1>1, <1>2 DEF IInv, MapOwns, WatcherOwns, CallerOwns, Resolvers
    <2> QED BY <1>2, <2>1 DEF Owners, Owed
  <1>3. CASE Owed(s) /\ Present(s)
    <2>1. Resolvers(s) = {} /\ ~rolling[s]
      BY <1>1, <1>3 DEF IInv, MapOwns, Resolvers
    <2>2. Owners(s) = {<<"map", Nil>>}
      BY <1>3, <2>1 DEF Owners
    <2> QED BY <1>3, <2>2 DEF Owed
  <1>4. CASE Owed(s) /\ rolling[s]
    <2>1. Resolvers(s) = {} /\ ~Present(s)
      BY <1>1, <1>4 DEF IInv, WatcherOwns, Resolvers
    <2>2. Owners(s) = {<<"watcher", Nil>>}
      BY <1>4, <2>1 DEF Owners
    <2> QED BY <1>4, <2>2 DEF Owed
  <1>5. ASSUME NEW a \in Callers, Owed(s), Resolves(a, s)
        PROVE  Owed(s) /\ \E o \in Owners(s) : Owners(s) = {o}
    <2>1. ~Present(s) /\ ~rolling[s] /\ \A b \in Callers : Resolves(b, s) => a = b
      BY <1>5 DEF IInv, CallerOwns
    <2>2. Resolvers(s) = {a}
      BY <1>1, <1>5, <2>1 DEF Resolvers
    <2>3. Owners(s) = {<<"caller", a>>}
      BY <2>1, <2>2 DEF Owners
    <2> QED BY <1>5, <2>3
  <1> QED BY <1>2, <1>3, <1>4, <1>5 DEF IInv, SomeoneOwns, Owed

(***************************************************************************)
(* The map, the connections and the callers keep their types.              *)
(***************************************************************************)
THEOREM TypeCorrect == Spec => []TypeOK
  <1>1. IInv => TypeOK
    BY DEF IInv
  <1> QED BY <1>1, InitIInv, NextIInv, PTL DEF Spec

(***************************************************************************)
(* However commits, rollbacks, failing statements, expiries and watchers   *)
(* race for a session, exactly one of them ends its transaction, and none  *)
(* comes back to a connection whose transaction has ended.                 *)
(***************************************************************************)
THEOREM TransactionsHaveOneOwner == Spec => []OneOwner
  <1> QED BY OwnersOfIInv, InitIInv, NextIInv, PTL DEF Spec

(***************************************************************************)
(* No expiry takes a session away from a statement that runs on it.        *)
(***************************************************************************)
THEOREM ExpiriesSpareStatements == Spec => []ExpirySparesStatements
  <1>1. IInv => ExpirySparesStatements
    BY DEF IInv
  <1> QED BY <1>1, InitIInv, NextIInv, PTL DEF Spec
=============================================================================
