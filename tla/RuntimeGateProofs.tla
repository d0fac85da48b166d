-------------------------- MODULE RuntimeGateProofs --------------------------
(***************************************************************************)
(* Proof that the answers of is_execution_blocked are justified, for any   *)
(* number of executions, operator calls and crashes.                       *)
(***************************************************************************)
EXTENDS RuntimeGate, RuntimeControlProofs

\* Every row a thread remembers was once the stored one.
SnapsConsistent == \A t \in Threads : Consistent(snap[t])

BeforeAnswer == {"auto_expire", "one_shot", "one_shot_event", "one_shot_reread"}

\* What a check that is under way already knows.  A row read as locked has
\* shown a shut gate, unless the lock has run out by the time it is looked
\* at; a row read as unlocked an open one, unless its one-shot has run out.
\* A lock that appears after an unlocked row was read has shown a shut gate.
\* After a thread's own set_unlocked, and after its own attempt to expire a
\* one-shot, whatever it reads next it has already seen.
GateInv(t) ==
    /\ pc[t] = "auto_expire" /\ EffectiveLocked(snap[t])
          => t \in sawShut \/ LockExpired(snap[t])
    /\ pc[t] \in {"one_shot", "decide"} /\ EffectiveLocked(snap[t])
          => t \in sawShut
    /\ pc[t] \in {"auto_expire", "one_shot"} /\ ~EffectiveLocked(snap[t])
          => t \in sawOpen \/ OneShotExpired(snap[t])
    /\ pc[t] = "decide" /\ ~EffectiveLocked(snap[t]) => t \in sawOpen
    /\ pc[t] \in BeforeAnswer /\ ~snap[t].locked /\ row.locked => t \in sawShut
    /\ pc[t] \in {"auto_expire_event", "auto_expire_reread"}
          => t \in sawOpen /\ (row.locked => t \in sawShut)
    /\ pc[t] \in {"one_shot_event", "one_shot_reread"}
          => ~snap[t].locked /\ (~row.locked => t \in sawOpen)
    /\ pc[t] = "running" => t \in sawOpen
    /\ pc[t] = "blocked" => t \in sawShut

Facts == TypeOK /\ OneShotRowConsistent /\ SnapsConsistent

-----------------------------------------------------------------------------
(* Rows and the gate.                                                      *)

\* A consistent row is unlocked while its one-shot is active, so
\* effective_locked is the locked column.
LEMMA EffectiveIsLocked ==
    ASSUME NEW r \in Row, Consistent(r)
    PROVE  /\ EffectiveLocked(r) <=> r.locked
           /\ OneShotActive(r) <=> r.shot.enabled
  <1>1. r.shot.remaining \in {0, 1}
    BY DEF Row, OneShot
  <1>2. OneShotActive(r) <=> r.shot.enabled
    BY <1>1 DEF Consistent, OneShotActive
  <1>. QED  BY <1>2 DEF EffectiveLocked, Consistent

LEMMA SnapsStep == Facts /\ [Next]_vars => SnapsConsistent'
  <1>. SUFFICES ASSUME Facts, [Next]_vars, NEW t \in Threads
                PROVE  Consistent(snap'[t])
    BY DEF SnapsConsistent
  <1>1. Consistent(snap[t]) /\ Consistent(row) /\ Consistent(SetUnlocked)
    BY WrittenRowsConsistent
       DEF Facts, SnapsConsistent, OneShotRowConsistent, Consistent
  <1>. SUFFICES snap'[t] \in {snap[t], row, SetUnlocked}
    BY <1>1
  <1>. USE DEF Facts, TypeOK
  <1>2. ASSUME NEW u \in Threads, EffectiveStateStep(u)
        PROVE  snap'[t] \in {snap[t], row}
    BY <1>2 DEF EffectiveStateStep, ReadState, MaybeAutoExpire,
         AutoExpireEvent, AutoExpireReread, MaybeExpireOneShot,
         OneShotExpiredEvent, OneShotReread, Read
  <1>3. ASSUME NEW u \in Tasks, TaskStep(u)
        PROVE  snap'[t] \in {snap[t], row, SetUnlocked}
    BY <1>2, <1>3 DEF Threads, TaskStep, Begin, Decide, Finish, ConsumeRead,
         ConsumeBefore, ConsumeWrite, ConsumeAfter, ConsumeEvent, Read, Forget
  <1>4. CASE EffectiveStateStep(Loop)
    BY <1>2, <1>4 DEF Threads
  <1>5. CASE Startup \/ LockCall \/ LockEvent \/ UnlockCall \/ UnlockEvent
               \/ UnlockOnceCall \/ UnlockOnceEvent \/ QueryCall \/ Answer
    BY <1>5 DEF Startup, LockCall, LockEvent, UnlockCall, UnlockEvent,
         UnlockOnceCall, UnlockOnceEvent, QueryCall, Answer, Forget
  <1>6. CASE Tick \/ Crash \/ UNCHANGED vars
    BY <1>6 DEF Tick, Crash, vars
  <1>. QED
    BY <1>3, <1>4, <1>5, <1>6 DEF Next, LoopStep

\* A step that locks the row leaves the gate shut; a step that unlocks it
\* leaves the gate open.
LEMMA RowObserved ==
    ASSUME Facts, [Next]_vars
    PROVE  /\ row'.locked /\ row' # row => ~GateOpen'
           /\ ~row'.locked /\ row' # row => GateOpen'
  <1>. SUFFICES ASSUME row' # row
                PROVE  /\ row'.locked => ~GateOpen'
                       /\ ~row'.locked => GateOpen'
    OBVIOUS
  <1>. USE DEF GateOpen, LockInForce, OneShotRunOut
  <1>1. now \in Nat /\ now' = now /\ Never \notin Nat
    BY RowStep, TimeAssumption DEF Facts, TypeOK
  <1>2. CASE row' = SetUnlocked
    BY <1>2 DEF SetUnlocked, ClearedOneShot
  <1>3. ASSUME NEW reason \in {"manual", "startup"},
               NEW until \in {Never} \union LaterThanNow,
               row' = SetLocked(reason, until)
        PROVE  row'.locked /\ ~GateOpen'
    BY <1>1, <1>3 DEF SetLocked, LaterThanNow
  <1>4. ASSUME NEW g \in Nat, NEW e \in LaterThanNow,
               row' = SetOneShotUnlock(g, e)
        PROVE  ~row'.locked /\ GateOpen'
    BY <1>1, <1>4 DEF SetOneShotUnlock, LaterThanNow
  <1>5. ASSUME NEW reason, NEW by, row' = LockEndingGrant(row, reason, by)
        PROVE  row'.locked /\ ~GateOpen'
    BY <1>5 DEF LockEndingGrant
  <1>6. CASE row' = ExpireOneShotAndLock(row)
    BY <1>5, <1>6 DEF ExpireOneShotAndLock
  <1>7. CASE \E t \in Tasks : row' = ConsumeOneShotAndLock(row, t)
    BY <1>5, <1>7 DEF ConsumeOneShotAndLock
  <1>. QED  BY <1>2, <1>3, <1>4, <1>6, <1>7, RowStep DEF Facts

-----------------------------------------------------------------------------
(* Preservation.                                                           *)

\* How the history variables follow a thread that is still checking.
LEMMA StillChecking ==
    ASSUME Facts, GateNext, NEW t \in Tasks, pc'[t] \in Checking
    PROVE  /\ t \in sawOpen' <=> t \in sawOpen \/ GateOpen'
           /\ t \in sawShut' <=> t \in sawShut \/ ~GateOpen'
  BY DEF GateNext, Observed, Checking

\* A thread does not move: what happens to the row and to the clock is what
\* the invariant allows for.
LEMMA OthersStep ==
    ASSUME Facts, GateNext, NEW t \in Tasks, GateInv(t),
           pc'[t] = pc[t], snap'[t] = snap[t]
    PROVE  GateInv(t)'
  <1>1. CASE pc[t] \in Checking
    <2>1. /\ t \in sawOpen' <=> t \in sawOpen \/ GateOpen'
          /\ t \in sawShut' <=> t \in sawShut \/ ~GateOpen'
      BY <1>1, StillChecking
    <2>2. /\ row'.locked /\ row' # row => ~GateOpen'
          /\ ~row'.locked /\ row' # row => GateOpen'
      BY RowObserved DEF GateNext
    <2>3. now \in Nat /\ now' \in Nat /\ now' >= now
      BY RowStep DEF Facts, TypeOK, GateNext
    <2>4. snap[t] \in Row
      BY DEF Facts, TypeOK, Threads
    <2>5. LockExpired(snap[t]) => LockExpired(snap[t])'
      BY <2>3, <2>4 DEF LockExpired, Row, Instant
    <2>6. OneShotExpired(snap[t]) => OneShotExpired(snap[t])'
      BY <2>3, <2>4 DEF OneShotExpired, OneShotActive, Row, OneShot, Instant
    <2>7. EffectiveLocked(snap[t])' <=> EffectiveLocked(snap[t])
      BY DEF EffectiveLocked, OneShotActive
    <2>. QED
      BY <1>1, <2>1, <2>2, <2>5, <2>6, <2>7 DEF GateInv, BeforeAnswer, Checking
  <1>2. CASE pc[t] \notin Checking
    BY <1>2 DEF GateInv, BeforeAnswer, Checking, GateNext, Observed
  <1>. QED  BY <1>1, <1>2

LEMMA OwnStep ==
    ASSUME Facts, SnapsConsistent', GateNext, NEW t \in Tasks, GateInv(t),
           TaskStep(t)
    PROVE  GateInv(t)'
  <1>1. t \in Threads
    BY DEF Threads
  <1>2. /\ row \in Row /\ Consistent(row)
        /\ snap[t] \in Row /\ Consistent(snap[t])
        /\ now \in Nat
        /\ pc \in [Threads -> TaskPC \union LoopPC]
        /\ snap \in [Threads -> Row]
        /\ Never \notin Nat
    BY <1>1, TimeAssumption
       DEF Facts, TypeOK, SnapsConsistent, OneShotRowConsistent, Consistent
  <1>3. /\ EffectiveLocked(row) <=> row.locked
        /\ OneShotActive(row) <=> row.shot.enabled
        /\ EffectiveLocked(snap[t]) <=> snap[t].locked
        /\ OneShotActive(snap[t]) <=> snap[t].shot.enabled
    BY <1>2, EffectiveIsLocked
  <1>4. pc'[t] \in Checking =>
           /\ t \in sawOpen' <=> t \in sawOpen \/ GateOpen'
           /\ t \in sawShut' <=> t \in sawShut \/ ~GateOpen'
    BY StillChecking
  <1>5. /\ row'.locked /\ row' # row => ~GateOpen'
        /\ ~row'.locked /\ row' # row => GateOpen'
    BY RowObserved DEF GateNext
  <1>6. CASE ReadState(t)
    <2>1. /\ pc'[t] = "auto_expire" /\ snap'[t] = row
          /\ row' = row /\ now' = now
      BY <1>1, <1>2, <1>6 DEF ReadState, Goto, Read
    <2>2. row.locked => ~GateOpen' \/ LockExpired(row)'
      BY <1>2, <2>1 DEF GateOpen, LockInForce, LockExpired, Row, Instant
    <2>3. ~row.locked => GateOpen' \/ OneShotExpired(row)'
      BY <1>2, <1>3, <2>1
         DEF GateOpen, LockInForce, OneShotRunOut, OneShotExpired, OneShotActive
    <2>4. EffectiveLocked(snap[t])' <=> row.locked
      BY <1>3, <2>1 DEF EffectiveLocked, OneShotActive
    <2>. QED
      BY <1>4, <2>1, <2>2, <2>3, <2>4
         DEF GateInv, BeforeAnswer, Checking, LockExpired, OneShotExpired,
             OneShotActive
  <1>7. CASE MaybeAutoExpire(t)
    <2>1. CASE LockExpired(snap[t])
      <3>1. pc[t] = "auto_expire" /\ pc'[t] = "auto_expire_event" /\ row' = SetUnlocked
        BY <1>1, <1>2, <1>7, <2>1 DEF MaybeAutoExpire, Goto
      <3>2. GateOpen'
        BY <3>1 DEF GateOpen, LockInForce, OneShotRunOut, SetUnlocked,
                    ClearedOneShot
      <3>3. ~row'.locked
        BY <3>1 DEF SetUnlocked
      <3>. QED
        BY <1>4, <3>1, <3>2, <3>3 DEF GateInv, BeforeAnswer, Checking
    <2>2. CASE ~LockExpired(snap[t])
      <3>1. /\ pc[t] = "auto_expire" /\ pc'[t] = "one_shot"
            /\ row' = row /\ snap' = snap /\ now' = now
        BY <1>1, <1>2, <1>7, <2>2 DEF MaybeAutoExpire, Goto
      <3>. QED
        BY <1>4, <2>2, <3>1
           DEF GateInv, BeforeAnswer, Checking, EffectiveLocked, OneShotExpired,
               OneShotActive
    <2>. QED  BY <2>1, <2>2
  <1>8. CASE AutoExpireEvent(t)
    <2>1. /\ pc[t] = "auto_expire_event" /\ pc'[t] = "auto_expire_reread"
          /\ row' = row
      BY <1>1, <1>2, <1>8 DEF AutoExpireEvent, Goto
    <2>. QED  BY <1>4, <2>1 DEF GateInv, BeforeAnswer, Checking
  <1>9. CASE AutoExpireReread(t)
    <2>1. /\ pc[t] = "auto_expire_reread" /\ pc'[t] = "one_shot"
          /\ row' = row /\ snap'[t] = row
      BY <1>1, <1>2, <1>9 DEF AutoExpireReread, Goto, Read
    <2>2. EffectiveLocked(snap[t])' <=> row.locked
      BY <1>3, <2>1 DEF EffectiveLocked, OneShotActive
    <2>. QED  BY <1>4, <2>1, <2>2 DEF GateInv, BeforeAnswer, Checking
  <1>10. CASE MaybeExpireOneShot(t)
    <2>1. CASE OneShotExpired(snap[t])
      <3>1. /\ pc[t] = "one_shot" /\ pc'[t] = "one_shot_event"
            /\ row' = ExpireOneShotAndLock(row) /\ snap' = snap
        BY <1>1, <1>2, <1>10, <2>1 DEF MaybeExpireOneShot, Goto
      <3>2. ~snap[t].locked
        BY <1>2, <1>3, <2>1 DEF OneShotExpired, Consistent
      <3>3. row.locked => t \in sawShut
        BY <3>1, <3>2 DEF GateInv, BeforeAnswer
      <3>4. ~row'.locked => GateOpen'
        <4>1. SUFFICES ASSUME ~row'.locked, row' = row PROVE GateOpen'
          BY <1>5
        <4>2. ~OneShotActive(row)
          BY <3>1, <4>1 DEF ExpireOneShotAndLock, LockEndingGrant
        <4>. QED
          BY <1>3, <4>1, <4>2 DEF GateOpen, LockInForce, OneShotRunOut
      <3>. QED
        BY <1>4, <1>5, <3>1, <3>2, <3>3, <3>4 DEF GateInv, BeforeAnswer, Checking
    <2>2. CASE ~OneShotExpired(snap[t])
      <3>1. /\ pc[t] = "one_shot" /\ pc'[t] = "decide"
            /\ row' = row /\ snap' = snap
        BY <1>1, <1>2, <1>10, <2>2 DEF MaybeExpireOneShot, Goto
      <3>. QED
        BY <1>4, <2>2, <3>1
           DEF GateInv, BeforeAnswer, Checking, EffectiveLocked, OneShotActive
    <2>. QED  BY <2>1, <2>2
  <1>11. CASE OneShotExpiredEvent(t)
    <2>1. /\ pc[t] = "one_shot_event" /\ pc'[t] = "one_shot_reread"
          /\ row' = row /\ snap' = snap
      BY <1>1, <1>2, <1>11 DEF OneShotExpiredEvent, Goto
    <2>. QED  BY <1>4, <2>1 DEF GateInv, BeforeAnswer, Checking
  <1>12. CASE OneShotReread(t)
    <2>1. /\ pc[t] = "one_shot_reread" /\ pc'[t] = "decide"
          /\ row' = row /\ snap'[t] = row
      BY <1>1, <1>2, <1>12 DEF OneShotReread, Goto, Read
    <2>2. EffectiveLocked(snap[t])' <=> row.locked
      BY <1>3, <2>1 DEF EffectiveLocked, OneShotActive
    <2>. QED  BY <1>4, <2>1, <2>2 DEF GateInv, BeforeAnswer, Checking
  <1>13. CASE Decide(t)
    <2>1. \/ pc'[t] = "running" /\ ~EffectiveLocked(snap[t])
          \/ pc'[t] = "blocked" /\ EffectiveLocked(snap[t])
      BY <1>1, <1>2, <1>13 DEF Decide, Goto
    <2>2. pc[t] = "decide"
      BY <1>13 DEF Decide
    <2>. QED
      BY <2>1, <2>2 DEF GateInv, BeforeAnswer, GateNext, Observed, Checking
  <1>14. ASSUME pc'[t] \notin Checking \union {"running", "blocked"} \/ pc'[t] = "es_read"
         PROVE  GateInv(t)'
    BY <1>14 DEF GateInv, BeforeAnswer, Checking
  <1>15. CASE Begin(t) \/ Finish(t) \/ ConsumeRead(t) \/ ConsumeBefore(t)
                \/ ConsumeWrite(t) \/ ConsumeAfter(t) \/ ConsumeEvent(t)
    <2>1. pc'[t] \in {"es_read", "done"} \union Consuming
      BY <1>1, <1>2, <1>15 DEF Begin, Finish, ConsumeRead, ConsumeBefore,
         ConsumeWrite, ConsumeAfter, ConsumeEvent, Goto, Consuming
    <2>. QED  BY <1>14, <2>1 DEF Consuming, Checking
  <1>. QED
    BY <1>6, <1>7, <1>8, <1>9, <1>10, <1>11, <1>12, <1>13, <1>15
       DEF TaskStep, EffectiveStateStep

-----------------------------------------------------------------------------

GateIndInv == Facts /\ \A t \in Tasks : GateInv(t)

LEMMA GateStep == GateIndInv /\ [GateNext]_gateVars => GateIndInv'
  <1>1. CASE UNCHANGED gateVars
    <2>. SUFFICES ASSUME GateIndInv PROVE GateIndInv'
      BY <1>1
    <2>. USE <1>1 DEF gateVars, vars
    <2>1. Facts'
      BY DEF GateIndInv, Facts, TypeOK, OneShotRowConsistent, SnapsConsistent
    <2>2. ASSUME NEW t \in Tasks PROVE GateInv(t)'
      BY DEF GateIndInv, GateInv, LockExpired, OneShotExpired
    <2>. QED  BY <2>1, <2>2 DEF GateIndInv
  <1>2. SUFFICES ASSUME GateIndInv, GateNext PROVE GateIndInv'
    BY <1>1
  <1>3. Facts /\ Next
    BY <1>2 DEF GateIndInv, GateNext
  <1>4. SnapsConsistent'
    BY <1>3, SnapsStep
  <1>5. Facts'
    BY <1>3, <1>4, TypeStep, RowConsistentStep DEF Facts
  <1>6. ASSUME NEW t \in Tasks PROVE GateInv(t)'
    <2>1. GateInv(t) /\ t \in Threads
      BY <1>2 DEF GateIndInv, Threads
    <2>2. CASE TaskStep(t)
      BY <1>2, <1>3, <1>4, <2>1, <2>2, OwnStep
    <2>3. CASE pc'[t] = pc[t] /\ snap'[t] = snap[t]
      BY <1>2, <1>3, <2>1, <2>3, OthersStep
    <2>4. CASE Crash
      <3>1. pc'[t] \in {"new", "done", "lost"}
        BY <2>1, <2>4, ThreadAssumption DEF Crash
      <3>. QED  BY <3>1 DEF GateInv, BeforeAnswer
    <2>5. CASE (\E u \in Tasks \ {t} : TaskStep(u)) \/ LoopStep \/ Tick
      <3>1. ASSUME NEW u \in Threads \ {t},
                   TaskStep(u) \/ EffectiveStateStep(u)
            PROVE  pc'[t] = pc[t] /\ snap'[t] = snap[t]
        BY <1>3, <2>1, <3>1
           DEF Facts, TypeOK, TaskStep, EffectiveStateStep, ReadState,
               MaybeAutoExpire, AutoExpireEvent, AutoExpireReread,
               MaybeExpireOneShot, OneShotExpiredEvent, OneShotReread, Begin,
               Decide, Finish, ConsumeRead, ConsumeBefore, ConsumeWrite,
               ConsumeAfter, ConsumeEvent, Goto, Read, Forget
      <3>2. ASSUME LoopStep \/ Tick
            PROVE  pc'[t] = pc[t] /\ snap'[t] = snap[t]
        <4>1. t # Loop /\ Loop \in Threads
          BY ThreadAssumption DEF Threads
        <4>2. CASE EffectiveStateStep(Loop)
          BY <3>1, <4>1, <4>2
        <4>3. CASE Startup \/ LockCall \/ LockEvent \/ UnlockCall \/ UnlockEvent
                     \/ UnlockOnceCall \/ UnlockOnceEvent \/ QueryCall \/ Answer
                     \/ Tick
          BY <1>3, <2>1, <4>1, <4>3
             DEF Facts, TypeOK, Startup, LockCall, LockEvent, UnlockCall,
                 UnlockEvent, UnlockOnceCall, UnlockOnceEvent, QueryCall,
                 Answer, Tick, Goto, Forget
        <4>. QED  BY <3>2, <4>2, <4>3 DEF LoopStep
      <3>. QED  BY <2>3, <2>5, <3>1, <3>2 DEF Threads
    <2>. QED  BY <1>3, <2>2, <2>4, <2>5 DEF Next
  <1>. QED  BY <1>5, <1>6 DEF GateIndInv

LEMMA GateInvariant == GateSpec => []GateIndInv
  <1>1. GateInit => GateIndInv
    <2>. SUFFICES ASSUME GateInit PROVE GateIndInv
      OBVIOUS
    <2>1. Init
      BY DEF GateInit
    <2>2. TypeOK /\ OneShotRowConsistent
      BY <2>1, InitFacts
    <2>3. SnapsConsistent
      BY <2>1, WrittenRowsConsistent DEF Init, SnapsConsistent
    <2>4. ASSUME NEW t \in Tasks PROVE GateInv(t)
      BY <2>1, ThreadAssumption DEF Init, GateInv, BeforeAnswer, Threads
    <2>. QED  BY <2>2, <2>3, <2>4 DEF GateIndInv, Facts
  <1>. QED  BY <1>1, GateStep, PTL DEF GateSpec

\* Nobody is let through under a lock, or under a one-shot that has run out,
\* that covered the whole of its check.
THEOREM AdmissionsJustified == GateSpec => []AdmissionJustified
  <1>1. GateIndInv => AdmissionJustified
    BY DEF GateIndInv, GateInv, AdmissionJustified
  <1>. QED  BY <1>1, GateInvariant, PTL

\* Nobody is turned away unless the gate was shut at some instant of the
\* check.
THEOREM RefusalsJustified == GateSpec => []RefusalJustified
  <1>1. GateIndInv => RefusalJustified
    BY DEF GateIndInv, GateInv, RefusalJustified
  <1>. QED  BY <1>1, GateInvariant, PTL

=============================================================================
