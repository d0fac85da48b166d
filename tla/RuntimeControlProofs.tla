------------------------ MODULE RuntimeControlProofs ------------------------
(***************************************************************************)
(* Proofs about RuntimeControl, for any number of executions, any clock,   *)
(* any number of operator calls and of crashes: the types, the columns of  *)
(* the row, what the system's own locks replace, and, when the process     *)
(* starts locked, what becomes of a one-shot after a crash and behind a    *)
(* single worker.                                                          *)
(***************************************************************************)
EXTENDS RuntimeControl, FiniteSetTheorems, TLAPS

-----------------------------------------------------------------------------
(* The statements of the store produce rows.                               *)

LEMMA WrittenRows ==
    /\ SetUnlocked \in Row
    /\ \A reason \in Reasons, until \in Instant : SetLocked(reason, until) \in Row
    /\ \A g \in Nat, e \in Instant : SetOneShotUnlock(g, e) \in Row
  BY DEF SetUnlocked, SetLocked, SetOneShotUnlock, ClearedOneShot, Row,
         OneShot, Reasons, Instant

LEMMA EndedRows ==
    ASSUME NEW r \in Row
    PROVE  /\ ExpireOneShotAndLock(r) \in Row
           /\ \A t \in Tasks : ConsumeOneShotAndLock(r, t) \in Row
  BY DEF ExpireOneShotAndLock, ConsumeOneShotAndLock, LockEndingGrant, Row,
         OneShot, Reasons, Instant

\* Every step of effective_state() keeps the types, whoever runs it.
LEMMA EffectiveStateType ==
    ASSUME TypeOK, NEW t \in Threads, EffectiveStateStep(t)
    PROVE  TypeOK'
  <1>. USE DEF TypeOK
  <1>1. /\ t \in Tasks \/ t = Loop
        /\ Loop \notin Tasks
    BY ThreadAssumption DEF Threads
  <1>2. Checking \subseteq TaskPC /\ Checking \subseteq LoopPC
    BY DEF TaskPC, LoopPC
  <1>3. \A label \in Checking :
           Goto(t, label) =>
              /\ pc' \in [Threads -> TaskPC \union LoopPC]
              /\ pc'[Loop] \in LoopPC
              /\ \A u \in Tasks : pc'[u] \in TaskPC
    BY <1>1, <1>2 DEF Goto, Threads
  <1>4. CASE ReadState(t)
    BY <1>3, <1>4 DEF ReadState, Read, Checking
  <1>5. CASE MaybeAutoExpire(t)
    BY <1>3, <1>5, WrittenRows DEF MaybeAutoExpire, Checking
  <1>6. CASE AutoExpireEvent(t)
    BY <1>3, <1>6 DEF AutoExpireEvent, Log, Event, Checking
  <1>7. CASE AutoExpireReread(t)
    BY <1>3, <1>7 DEF AutoExpireReread, Read, Checking
  <1>8. CASE MaybeExpireOneShot(t)
    BY <1>3, <1>8, EndedRows DEF MaybeExpireOneShot, Checking
  <1>9. CASE OneShotExpiredEvent(t)
    <2>1. snap[t].shot.grant \in Nat
      BY DEF Row, OneShot
    <2>. QED  BY <1>3, <1>9, <2>1 DEF OneShotExpiredEvent, Log, Event, Checking
  <1>10. CASE OneShotReread(t)
    BY <1>3, <1>10 DEF OneShotReread, Read, Checking
  <1>. QED  BY <1>4, <1>5, <1>6, <1>7, <1>8, <1>9, <1>10 DEF EffectiveStateStep

LEMMA TaskType ==
    ASSUME TypeOK, NEW t \in Tasks, TaskStep(t)
    PROVE  TypeOK'
  <1>. USE DEF TypeOK
  <1>1. t \in Threads /\ t # Loop /\ Loop \in Threads
    BY ThreadAssumption DEF Threads
  <1>2. \A label \in TaskPC :
           Goto(t, label) =>
              /\ pc' \in [Threads -> TaskPC \union LoopPC]
              /\ pc'[Loop] \in LoopPC
              /\ \A u \in Tasks : pc'[u] \in TaskPC
    BY <1>1 DEF Goto, Threads
  <1>3. snap[t].shot.grant \in Nat
    BY <1>1 DEF Row, OneShot
  <1>4. Forget(t) => snap' \in [Threads -> Row]
    BY WrittenRows DEF Forget
  <1>. USE DEF TaskPC, Checking, Consuming
  <1>5. CASE Begin(t)
    BY <1>2, <1>5 DEF Begin
  <1>6. CASE EffectiveStateStep(t)
    BY <1>1, <1>6, EffectiveStateType
  <1>7. CASE Decide(t)
    <2>1. under' \in [Tasks -> Nat]
      BY <1>3, <1>7 DEF Decide
    <2>. QED  BY <1>2, <1>4, <1>7, <2>1 DEF Decide
  <1>8. CASE Finish(t)
    BY <1>2, <1>8 DEF Finish
  <1>9. CASE ConsumeRead(t)
    BY <1>2, <1>9 DEF ConsumeRead
  <1>10. CASE ConsumeBefore(t)
    BY <1>2, <1>10 DEF ConsumeBefore, Read
  <1>11. CASE ConsumeWrite(t)
    BY <1>2, <1>11, EndedRows DEF ConsumeWrite
  <1>12. CASE ConsumeAfter(t)
    BY <1>2, <1>4, <1>12 DEF ConsumeAfter
  <1>13. CASE ConsumeEvent(t)
    BY <1>1, <1>2, <1>3, <1>4, <1>13 DEF ConsumeEvent, Log, Event
  <1>. QED
    BY <1>5, <1>6, <1>7, <1>8, <1>9, <1>10, <1>11, <1>12, <1>13 DEF TaskStep

LEMMA LoopType ==
    ASSUME TypeOK, LoopStep
    PROVE  TypeOK'
  <1>. USE DEF TypeOK
  <1>1. Loop \in Threads /\ Loop \notin Tasks
    BY ThreadAssumption DEF Threads
  <1>2. \A label \in LoopPC :
           Goto(Loop, label) =>
              /\ pc' \in [Threads -> TaskPC \union LoopPC]
              /\ pc'[Loop] \in LoopPC
              /\ \A u \in Tasks : pc'[u] \in TaskPC
    BY <1>1 DEF Goto, Threads
  <1>3. Forget(Loop) => snap' \in [Threads -> Row]
    BY WrittenRows DEF Forget
  <1>. USE DEF LoopPC, Checking, Calls, Accept, OperatorCall
  <1>4. CASE Startup
    BY <1>2, <1>4, WrittenRows DEF Startup, Reasons, Instant
  <1>5. CASE LockCall
    <2>1. PICK until \in {Never} \union (now + 1 .. MaxTime) :
             row' = SetLocked("manual", until)
      BY <1>5 DEF LockCall
    <2>2. until \in Instant /\ "manual" \in Reasons
      BY TimeAssumption DEF Instant, Reasons
    <2>3. row' \in Row
      BY <2>1, <2>2, WrittenRows
    <2>. QED  BY <1>2, <1>5, <2>3 DEF LockCall
  <1>6. CASE LockEvent
    BY <1>1, <1>2, <1>6 DEF LockEvent, Log, Event
  <1>7. CASE UnlockCall
    BY <1>2, <1>7, WrittenRows DEF UnlockCall
  <1>8. CASE UnlockEvent
    BY <1>1, <1>2, <1>8 DEF UnlockEvent, Log, Event
  <1>9. CASE UnlockOnceCall
    <2>1. row' \in Row
      BY <1>9, WrittenRows, TimeAssumption DEF UnlockOnceCall, Instant
    <2>. QED  BY <1>2, <1>9, <2>1 DEF UnlockOnceCall
  <1>10. CASE UnlockOnceEvent
    BY <1>1, <1>2, <1>10 DEF UnlockOnceEvent, Log, Event
  <1>11. CASE QueryCall
    BY <1>2, <1>11 DEF QueryCall
  <1>12. CASE EffectiveStateStep(Loop)
    BY <1>1, <1>12, EffectiveStateType
  <1>13. CASE Answer
    BY <1>2, <1>3, <1>13 DEF Answer
  <1>. QED
    BY <1>4, <1>5, <1>6, <1>7, <1>8, <1>9, <1>10, <1>11, <1>12, <1>13 DEF LoopStep

LEMMA TypeStep == TypeOK /\ [Next]_vars => TypeOK'
  <1>. SUFFICES ASSUME TypeOK, [Next]_vars PROVE TypeOK'
    OBVIOUS
  <1>1. CASE \E t \in Tasks : TaskStep(t)
    BY <1>1, TaskType
  <1>2. CASE LoopStep
    BY <1>2, LoopType
  <1>3. CASE Tick
    BY <1>3 DEF Tick, TypeOK
  <1>4. CASE Crash
    <2>1. snap' \in [Threads -> Row]
      BY <1>4, WrittenRows DEF Crash
    <2>2. /\ pc' \in [Threads -> TaskPC \union LoopPC]
          /\ pc'[Loop] \in LoopPC
          /\ \A u \in Tasks : pc'[u] \in TaskPC
      BY <1>4, ThreadAssumption DEF Crash, TypeOK, Threads, TaskPC, LoopPC
    <2>3. lockFailed' \in BOOLEAN
      BY <1>4 DEF Crash
    <2>. QED  BY <1>4, <2>1, <2>2, <2>3 DEF Crash, TypeOK, Calls
  <1>5. CASE UNCHANGED vars
    BY <1>5 DEF vars, TypeOK
  <1>. QED  BY <1>1, <1>2, <1>3, <1>4, <1>5 DEF Next

LEMMA InitFacts == Init => TypeOK /\ OneShotRowConsistent
  <1>1. Init => TypeOK
    <2>1. Init => lockFailed \in BOOLEAN
      BY DEF Init
    <2>. QED
      BY <2>1, WrittenRows, ThreadAssumption
      DEF Init, TypeOK, Threads, TaskPC, LoopPC, Calls
  <1>2. Init => OneShotRowConsistent
    BY DEF Init, OneShotRowConsistent, SetUnlocked, ClearedOneShot
  <1>. QED  BY <1>1, <1>2

\* Type correctness of the lock's row, of its log and of every thread.
THEOREM TypeCorrect == Spec => []TypeOK
  BY InitFacts, TypeStep, PTL DEF Spec

-----------------------------------------------------------------------------
(* The columns of the row agree.                                           *)

\* OneShotRowConsistent is about the row alone: a predicate on rows that
\* the store's statements establish or keep.
Consistent(r) ==
    /\ r.shot.enabled <=> r.shot.remaining = 1
    /\ r.shot.enabled =>
          ~r.locked /\ r.shot.expires # Never /\ r.shot.consumedBy = NoTask
    /\ r.shot.consumedBy # NoTask => r.locked
    /\ r.shot.grant # 0 /\ ~r.shot.enabled => r.locked

LEMMA WrittenRowsConsistent ==
    /\ Consistent(SetUnlocked)
    /\ \A reason \in Reasons, until \in Instant :
          Consistent(SetLocked(reason, until))
    /\ \A g \in Nat, e \in Nat : Consistent(SetOneShotUnlock(g, e))
  BY TimeAssumption
     DEF Consistent, SetUnlocked, SetLocked, SetOneShotUnlock, ClearedOneShot

LEMMA EndedRowsConsistent ==
    ASSUME NEW r \in Row, Consistent(r)
    PROVE  /\ Consistent(ExpireOneShotAndLock(r))
           /\ \A t \in Tasks : Consistent(ConsumeOneShotAndLock(r, t))
  <1>1. ~OneShotActive(r) => /\ ExpireOneShotAndLock(r) = r
                            /\ \A t \in Tasks : ConsumeOneShotAndLock(r, t) = r
    BY DEF ExpireOneShotAndLock, ConsumeOneShotAndLock
  <1>2. ASSUME NEW reason \in Reasons, NEW by \in Tasks \union {NoTask}
        PROVE  Consistent(LockEndingGrant(r, reason, by))
    <2>. DEFINE ended == LockEndingGrant(r, reason, by)
    <2>1. /\ ended.locked = TRUE
          /\ ended.shot.enabled = FALSE
          /\ ended.shot.remaining = 0
      BY DEF LockEndingGrant, Row, OneShot
    <2>. HIDE DEF ended
    <2>2. Consistent(ended)
      BY <2>1 DEF Consistent
    <2>. QED  BY <2>2 DEF ended
  <1>3. Consistent(ExpireOneShotAndLock(r))
    BY <1>1, <1>2 DEF ExpireOneShotAndLock, Reasons
  <1>4. ASSUME NEW t \in Tasks
        PROVE  Consistent(ConsumeOneShotAndLock(r, t))
    BY <1>1, <1>2 DEF ConsumeOneShotAndLock, Reasons
  <1>. QED  BY <1>3, <1>4

\* Who writes the row, and what: every step leaves it alone or writes one of
\* the store's statements, with instants that are still to come, and while
\* the row is written the clock stands still.
LaterThanNow == {i \in Nat : i > now}

LEMMA RowStep ==
    ASSUME TypeOK, [Next]_vars
    PROVE  /\ \/ row' = row
              \/ row' = SetUnlocked
              \/ \E reason \in {"manual", "startup"},
                    until \in {Never} \union LaterThanNow :
                   row' = SetLocked(reason, until)
              \/ \E g \in Nat, e \in LaterThanNow :
                   row' = SetOneShotUnlock(g, e)
              \/ row' = ExpireOneShotAndLock(row)
              \/ \E t \in Tasks : row' = ConsumeOneShotAndLock(row, t)
           /\ now' \in Nat /\ now' >= now
           /\ row' # row => now' = now
  <1>. USE DEF TypeOK
  <1>1. ASSUME NEW t \in Threads, EffectiveStateStep(t)
        PROVE  /\ row' \in {row, SetUnlocked, ExpireOneShotAndLock(row)}
               /\ now' = now
    BY <1>1 DEF EffectiveStateStep, ReadState, MaybeAutoExpire,
         AutoExpireEvent, AutoExpireReread, MaybeExpireOneShot,
         OneShotExpiredEvent, OneShotReread
  <1>2. ASSUME NEW t \in Tasks, TaskStep(t)
        PROVE  /\ row' \in {row, SetUnlocked, ExpireOneShotAndLock(row),
                            ConsumeOneShotAndLock(row, t)}
               /\ now' = now
    BY <1>1, <1>2 DEF Threads, TaskStep, Begin, Decide, Finish, ConsumeRead,
         ConsumeBefore, ConsumeWrite, ConsumeAfter, ConsumeEvent
  <1>3. CASE LockCall
    <2>1. PICK until \in {Never} \union (now + 1 .. MaxTime) :
             row' = SetLocked("manual", until)
      BY <1>3 DEF LockCall
    <2>2. until \in {Never} \union LaterThanNow
      BY TimeAssumption DEF LaterThanNow
    <2>3. now' = now
      BY <1>3 DEF LockCall
    <2>. QED  BY <2>1, <2>2, <2>3
  <1>4. CASE UnlockOnceCall
    <2>1. PICK ttl \in TTLs : row' = SetOneShotUnlock(ops', now + ttl)
      BY <1>4 DEF UnlockOnceCall
    <2>2. now + ttl \in LaterThanNow
      BY TimeAssumption DEF LaterThanNow
    <2>3. ops' \in Nat /\ now' = now
      BY <1>4 DEF UnlockOnceCall, OperatorCall
    <2>. QED  BY <2>1, <2>2, <2>3
  <1>5. CASE Startup
    BY <1>5 DEF Startup
  <1>6. CASE LockEvent \/ UnlockCall \/ UnlockEvent \/ UnlockOnceEvent
               \/ QueryCall \/ Answer
    BY <1>6 DEF LockEvent, UnlockCall, UnlockEvent, UnlockOnceEvent,
         QueryCall, Answer
  <1>7. CASE EffectiveStateStep(Loop)
    BY <1>1, <1>7 DEF Threads
  <1>8. CASE Tick \/ Crash \/ UNCHANGED vars
    BY <1>8 DEF Tick, Crash, vars
  <1>. QED
    BY <1>2, <1>3, <1>4, <1>5, <1>6, <1>7, <1>8 DEF Next, LoopStep

LEMMA RowConsistentStep ==
    TypeOK /\ OneShotRowConsistent /\ [Next]_vars => OneShotRowConsistent'
  <1>. SUFFICES ASSUME TypeOK, OneShotRowConsistent, [Next]_vars
                PROVE  OneShotRowConsistent'
    OBVIOUS
  <1>1. OneShotRowConsistent <=> Consistent(row)
    BY DEF OneShotRowConsistent, Consistent
  <1>2. OneShotRowConsistent' <=> Consistent(row')
    BY DEF OneShotRowConsistent, Consistent
  <1>3. row \in Row
    BY DEF TypeOK
  <1>4. Consistent(row')
    BY <1>1, <1>3, RowStep, WrittenRowsConsistent, EndedRowsConsistent
       DEF Reasons, Instant, LaterThanNow
  <1>. QED  BY <1>2, <1>4

\* An active one-shot always lies over an unlocked row, and a consumed or
\* expired one always over a locked row.
THEOREM RowConsistent == Spec => []OneShotRowConsistent
  BY InitFacts, RowConsistentStep, TypeCorrect, PTL DEF Spec

\* A lock written for a consumed or an expired one-shot never overwrites
\* what an operator wrote after the caller had read the row.
THEOREM SystemLockSafe == Spec => SystemLockReplacesGrant
  <1>1. TypeOK /\ [Next]_vars =>
           [row' # row /\ row'.reason \in {"consumed", "expired"}
               => OneShotActive(row)]_vars
    <2>. SUFFICES ASSUME TypeOK, [Next]_vars, row' # row,
                         row'.reason \in {"consumed", "expired"}
                  PROVE  OneShotActive(row)
      BY DEF vars
    <2>1. row' # SetUnlocked
      BY DEF SetUnlocked
    <2>2. \A reason \in {"manual", "startup"},
             until \in {Never} \union LaterThanNow :
             row' # SetLocked(reason, until)
      BY DEF SetLocked
    <2>3. \A g \in Nat, e \in LaterThanNow : row' # SetOneShotUnlock(g, e)
      BY DEF SetOneShotUnlock
    <2>4. \/ row' = ExpireOneShotAndLock(row)
          \/ \E t \in Tasks : row' = ConsumeOneShotAndLock(row, t)
      BY <2>1, <2>2, <2>3, RowStep
    <2>. QED  BY <2>4 DEF ExpireOneShotAndLock, ConsumeOneShotAndLock
  <1>. QED  BY <1>1, TypeCorrect, PTL DEF Spec, SystemLockReplacesGrant

-----------------------------------------------------------------------------
(* The one-shot of an execution that was lost in a crash.                  *)

\* The grants that executions lost in a crash had been let through by.
LostGrants == {under[t] : t \in {u \in Tasks : pc[u] = "lost"}} \ {0}

\* A grant has the number of the operator call that made it.
Numbered ==
    /\ row.shot.grant <= ops
    /\ \A t \in Threads : snap[t].shot.grant <= ops
    /\ \A t \in Tasks : under[t] <= ops /\ (pc[t] = "new" => under[t] = 0)

\* Before the startup lock is written nothing runs that could read the row;
\* afterwards, if it was written, no lost grant is in the row, in what a
\* thread has read, or behind an execution that still goes on.
NoLostGrant ==
    /\ pc[Loop] # "startup" => row.shot.grant \notin LostGrants
    /\ \A t \in Threads : snap[t].shot.grant \notin LostGrants
    /\ \A t \in Tasks : pc[t] \notin {"done", "lost"} => under[t] \notin LostGrants

LostInv ==
    /\ pc[Loop] = "startup" =>
          ~lockFailed /\ \A t \in Tasks : pc[t] \in {"new", "done", "lost"}
    /\ ~lockFailed => NoLostGrant

\* How the execution t moves: it alone, and every grant that it reads, writes
\* or is let through by is one that was there.
Moves(t) ==
    /\ pc[t] \notin {"done", "lost"} /\ pc'[t] \notin {"new", "lost"}
    /\ pc[t] = "new" => ServerUp
    /\ \A u \in Threads \ {t} : pc'[u] = pc[u] /\ snap'[u] = snap[u]
    /\ \A u \in Tasks \ {t} : under'[u] = under[u]
    /\ snap'[t] \in {snap[t], row, SetUnlocked}
    /\ under'[t] \in {under[t], 0, snap[t].shot.grant}
    /\ row'.shot.grant \in {row.shot.grant, 0}
    /\ UNCHANGED <<ops, lockFailed>>

LEMMA GrantsWritten ==
    /\ SetUnlocked.shot.grant = 0
    /\ \A reason, until : SetLocked(reason, until).shot.grant = 0
    /\ \A g, e : SetOneShotUnlock(g, e).shot.grant = g
  BY DEF SetUnlocked, SetLocked, SetOneShotUnlock, ClearedOneShot

LEMMA GrantsKept ==
    ASSUME NEW r \in Row
    PROVE  /\ ExpireOneShotAndLock(r).shot.grant = r.shot.grant
           /\ \A t \in Tasks : ConsumeOneShotAndLock(r, t).shot.grant = r.shot.grant
  BY DEF ExpireOneShotAndLock, ConsumeOneShotAndLock, LockEndingGrant, Row, OneShot

LEMMA CheckFrame ==
    ASSUME TypeOK, NEW t \in Threads, EffectiveStateStep(t)
    PROVE  /\ pc[t] \in Checking /\ pc'[t] \in Checking
           /\ \A u \in Threads \ {t} : pc'[u] = pc[u] /\ snap'[u] = snap[u]
           /\ snap'[t] \in {snap[t], row}
           /\ row'.shot.grant \in {row.shot.grant, 0}
           /\ UNCHANGED <<under, ops, call, lockFailed>>
  <1>1. /\ pc \in [Threads -> TaskPC \union LoopPC]
        /\ snap \in [Threads -> Row]
        /\ row \in Row
    BY DEF TypeOK
  <1>2. CASE ReadState(t)
    BY <1>1, <1>2 DEF ReadState, Read, Goto, Checking
  <1>3. CASE MaybeAutoExpire(t)
    BY <1>1, <1>3, GrantsWritten DEF MaybeAutoExpire, Goto, Checking
  <1>4. CASE AutoExpireEvent(t)
    BY <1>1, <1>4 DEF AutoExpireEvent, Goto, Checking
  <1>5. CASE AutoExpireReread(t)
    BY <1>1, <1>5 DEF AutoExpireReread, Read, Goto, Checking
  <1>6. CASE MaybeExpireOneShot(t)
    BY <1>1, <1>6, GrantsKept DEF MaybeExpireOneShot, Goto, Checking
  <1>7. CASE OneShotExpiredEvent(t)
    BY <1>1, <1>7 DEF OneShotExpiredEvent, Goto, Checking
  <1>8. CASE OneShotReread(t)
    BY <1>1, <1>8 DEF OneShotReread, Read, Goto, Checking
  <1>. QED
    BY <1>2, <1>3, <1>4, <1>5, <1>6, <1>7, <1>8 DEF EffectiveStateStep

LEMMA TaskFrame ==
    ASSUME TypeOK, NEW t \in Tasks, TaskStep(t)
    PROVE  Moves(t)
  <1>1. /\ pc \in [Threads -> TaskPC \union LoopPC]
        /\ snap \in [Threads -> Row]
        /\ under \in [Tasks -> Nat]
        /\ row \in Row
        /\ t \in Threads
    BY DEF TypeOK, Threads
  <1>2. CASE EffectiveStateStep(t)
    BY <1>1, <1>2, CheckFrame DEF Moves, Checking
  <1>3. CASE Begin(t)
    BY <1>1, <1>3 DEF Begin, Goto, Moves
  <1>4. CASE Decide(t)
    BY <1>1, <1>4 DEF Decide, Forget, Goto, Moves
  <1>5. CASE Finish(t)
    BY <1>1, <1>5 DEF Finish, Goto, Moves
  <1>6. CASE ConsumeRead(t)
    BY <1>1, <1>6 DEF ConsumeRead, Goto, Moves
  <1>7. CASE ConsumeBefore(t)
    BY <1>1, <1>7 DEF ConsumeBefore, Read, Goto, Moves
  <1>8. CASE ConsumeWrite(t)
    BY <1>1, <1>8, GrantsKept DEF ConsumeWrite, Goto, Moves
  <1>9. CASE ConsumeAfter(t)
    BY <1>1, <1>9 DEF ConsumeAfter, Forget, Goto, Moves
  <1>10. CASE ConsumeEvent(t)
    BY <1>1, <1>10 DEF ConsumeEvent, Forget, Goto, Moves
  <1>. QED
    BY <1>2, <1>3, <1>4, <1>5, <1>6, <1>7, <1>8, <1>9, <1>10 DEF TaskStep

\* The handlers leave the executions alone; a grant they write is a new one,
\* and the first thing the loop writes on a live deployment, if it can be
\* written, has none.
LEMMA LoopFrame ==
    ASSUME TypeOK, LoopStep
    PROVE  /\ pc'[Loop] # "startup"
           /\ \A u \in Tasks : pc'[u] = pc[u] /\ snap'[u] = snap[u]
           /\ UNCHANGED under
           /\ \/ snap'[Loop] \in {snap[Loop], SetUnlocked}
              \/ pc[Loop] # "startup" /\ snap'[Loop] = row
           /\ \/ row'.shot.grant \in {row.shot.grant, 0} /\ ops' \in {ops, ops + 1}
              \/ row'.shot.grant = ops + 1 /\ ops' = ops + 1
           /\ pc[Loop] = "startup" /\ LiveStartup
              => row'.shot.grant = 0 \/ lockFailed'
           /\ lockFailed => lockFailed'
  <1>1. /\ pc \in [Threads -> TaskPC \union LoopPC]
        /\ snap \in [Threads -> Row]
        /\ Loop \in Threads /\ Loop \notin Tasks /\ Tasks \subseteq Threads
    BY ThreadAssumption DEF TypeOK, Threads
  <1>2. CASE EffectiveStateStep(Loop)
    BY <1>1, <1>2, CheckFrame DEF Checking
  <1>3. CASE Startup
    BY <1>1, <1>3, GrantsWritten DEF Startup, Goto
  <1>4. CASE LockCall
    BY <1>1, <1>4, GrantsWritten DEF LockCall, OperatorCall, Accept, Goto
  <1>5. CASE UnlockCall
    BY <1>1, <1>5, GrantsWritten DEF UnlockCall, OperatorCall, Accept, Goto
  <1>6. CASE UnlockOnceCall
    BY <1>1, <1>6, GrantsWritten DEF UnlockOnceCall, OperatorCall, Accept, Goto
  <1>7. CASE LockEvent \/ UnlockEvent \/ UnlockOnceEvent \/ QueryCall
    BY <1>1, <1>7 DEF LockEvent, UnlockEvent, UnlockOnceEvent, QueryCall, Accept, Goto
  <1>8. CASE Answer
    BY <1>1, <1>8 DEF Answer, Forget, Goto
  <1>. QED
    BY <1>2, <1>3, <1>4, <1>5, <1>6, <1>7, <1>8 DEF LoopStep

LEMMA NumberedType ==
    ASSUME TypeOK
    PROVE  /\ row.shot.grant \in Nat /\ ops \in Nat
           /\ \A t \in Threads : snap[t].shot.grant \in Nat
           /\ \A t \in Tasks : under[t] \in Nat
  BY DEF TypeOK, Row, OneShot

\* An execution that moves is not lost, and learns of no lost grant.
LEMMA LostMoves ==
    ASSUME TypeOK, Numbered, LostInv, NEW t \in Tasks, Moves(t)
    PROVE  Numbered' /\ LostInv'
  <1>1. t \in Threads /\ Loop \in Threads \ {t} /\ Tasks \subseteq Threads
    BY ThreadAssumption DEF Threads
  <1>2. pc[Loop] # "startup" /\ pc'[Loop] = pc[Loop]
    BY <1>1 DEF LostInv, Moves, ServerUp
  <1>3. LostGrants' = LostGrants
    BY <1>1 DEF LostGrants, Moves
  <1>4. 0 \notin LostGrants
    BY DEF LostGrants
  <1>5. Numbered'
    BY <1>1, NumberedType, GrantsWritten DEF Numbered, Moves
  <1>6. LostInv'
    <2>. SUFFICES ASSUME ~lockFailed'
                  PROVE  NoLostGrant'
      BY <1>2 DEF LostInv
    <2>0. NoLostGrant
      BY DEF LostInv, Moves
    <2>1. row'.shot.grant \notin LostGrants
      BY <1>2, <1>4, <2>0 DEF NoLostGrant, Moves
    <2>2. ASSUME NEW u \in Threads
          PROVE  snap'[u].shot.grant \notin LostGrants
      BY <1>1, <1>2, <1>4, <2>0, GrantsWritten DEF NoLostGrant, Moves
    <2>3. ASSUME NEW u \in Tasks, pc'[u] \notin {"done", "lost"}
          PROVE  under'[u] \notin LostGrants
      BY <1>1, <1>4, <2>0, <2>3 DEF NoLostGrant, Moves
    <2>. QED  BY <1>3, <2>1, <2>2, <2>3 DEF NoLostGrant
  <1>. QED  BY <1>5, <1>6

\* Neither do the handlers: what they grant is newer, and the first step after
\* a crash has cleared the row, or has failed to.
LEMMA LostLoop ==
    ASSUME LiveStartup, TypeOK, Numbered, LostInv, LoopStep
    PROVE  Numbered' /\ LostInv'
  <1>1. Loop \in Threads /\ Tasks \subseteq Threads /\ Threads = Tasks \union {Loop}
    BY DEF Threads
  <1>2. LostGrants' = LostGrants
    BY LoopFrame DEF LostGrants
  <1>3. 0 \notin LostGrants /\ \A g \in LostGrants : g \in Nat /\ g <= ops
    BY NumberedType DEF LostGrants, Numbered
  <1>4. Numbered'
    <2>1. row'.shot.grant <= ops' /\ ops' >= ops /\ ops' \in Nat
      BY NumberedType, LoopFrame DEF Numbered
    <2>2. \A t \in Tasks : snap'[t].shot.grant <= ops'
      BY <1>1, <2>1, NumberedType, LoopFrame DEF Numbered
    <2>3. snap'[Loop].shot.grant <= ops'
      BY <1>1, <2>1, NumberedType, LoopFrame, GrantsWritten DEF Numbered
    <2>4. \A t \in Tasks : under'[t] <= ops' /\ (pc'[t] = "new" => under'[t] = 0)
      BY <2>1, NumberedType, LoopFrame DEF Numbered
    <2>. QED  BY <1>1, <2>1, <2>2, <2>3, <2>4 DEF Numbered
  <1>5. LostInv'
    <2>. SUFFICES ASSUME ~lockFailed'
                  PROVE  NoLostGrant'
      BY LoopFrame DEF LostInv
    <2>0. NoLostGrant
      BY LoopFrame DEF LostInv
    <2>1. row'.shot.grant \notin LostGrants
      BY <1>3, <2>0, NumberedType, LoopFrame DEF NoLostGrant
    <2>2. ASSUME NEW u \in Threads
          PROVE  snap'[u].shot.grant \notin LostGrants
      BY <1>1, <1>3, <2>0, LoopFrame, GrantsWritten DEF NoLostGrant
    <2>3. ASSUME NEW u \in Tasks, pc'[u] \notin {"done", "lost"}
          PROVE  under'[u] \notin LostGrants
      BY <2>0, <2>3, LoopFrame DEF NoLostGrant
    <2>. QED  BY <1>2, <2>1, <2>2, <2>3 DEF NoLostGrant
  <1>. QED  BY <1>4, <1>5

LEMMA LostStep ==
    ASSUME LiveStartup, TypeOK, Numbered, LostInv, [Next]_vars
    PROVE  Numbered' /\ LostInv'
  <1>1. CASE \E t \in Tasks : TaskStep(t)
    BY <1>1, TaskFrame, LostMoves
  <1>2. CASE LoopStep
    BY <1>2, LostLoop
  <1>3. CASE Tick \/ UNCHANGED vars
    BY <1>3 DEF Tick, vars, Numbered, LostInv, NoLostGrant, LostGrants
  <1>4. CASE Crash
    <2>1. Loop \in Threads /\ Loop \notin Tasks /\ Tasks \subseteq Threads
      BY ThreadAssumption DEF Threads
    <2>2. /\ pc'[Loop] = "startup"
          /\ \A t \in Tasks : /\ pc'[t] \in {"new", "done", "lost"}
                              /\ pc'[t] = "new" => pc[t] = "new"
          /\ \A t \in Threads : snap'[t] = SetUnlocked
          /\ ~lockFailed'
          /\ UNCHANGED <<row, under, ops>>
      BY <1>4, <2>1 DEF Crash
    <2>3. 0 \notin LostGrants'
      BY DEF LostGrants
    <2>4. Numbered'
      BY <2>2, NumberedType, GrantsWritten DEF Numbered
    <2>5. LostInv'
      BY <2>2, <2>3, GrantsWritten DEF LostInv, NoLostGrant, Numbered
    <2>. QED  BY <2>4, <2>5
  <1>. QED  BY <1>1, <1>2, <1>3, <1>4 DEF Next

\* A lost execution stays lost, under the same one-shot.
LEMMA LostStays ==
    ASSUME TypeOK, [Next]_vars, NEW t \in Tasks, pc[t] = "lost"
    PROVE  pc'[t] = "lost" /\ under'[t] = under[t]
  <1>1. CASE \E u \in Tasks : TaskStep(u)
    BY <1>1, TaskFrame DEF Moves, Threads
  <1>2. CASE LoopStep
    BY <1>2, LoopFrame
  <1>3. CASE Tick \/ UNCHANGED vars
    BY <1>3 DEF Tick, vars
  <1>4. CASE Crash
    BY <1>4, ThreadAssumption DEF Crash, Threads
  <1>. QED  BY <1>1, <1>2, <1>3, <1>4 DEF Next

\* A step in which an execution goes on is none of the loop or of the process.
LEMMA RunsOn ==
    ASSUME TypeOK, [Next]_vars, NEW u \in Tasks, pc[u] = "decide", pc'[u] = "running"
    PROVE  lockFailed' = lockFailed
  <1>1. CASE \E t \in Tasks : TaskStep(t)
    BY <1>1, TaskFrame DEF Moves
  <1>2. ~LoopStep
    BY LoopFrame
  <1>3. CASE Tick \/ UNCHANGED vars
    BY <1>3 DEF Tick, vars
  <1>4. ~Crash
    BY ThreadAssumption DEF Crash, Threads
  <1>. QED  BY <1>1, <1>2, <1>3, <1>4 DEF Next

LEMMA LostInit == Init => Numbered /\ LostInv
  <1>. SUFFICES ASSUME Init PROVE Numbered /\ LostInv
    OBVIOUS
  <1>1. /\ pc[Loop] = "startup"
        /\ \A t \in Tasks : pc[t] = "new" /\ under[t] = 0
        /\ \A t \in Threads : snap[t] = SetUnlocked
        /\ row = SetUnlocked /\ ops = 0 /\ ~lockFailed
    BY ThreadAssumption DEF Init, Threads
  <1>2. LostGrants = {}
    BY <1>1 DEF LostGrants
  <1>. QED  BY <1>1, <1>2, GrantsWritten DEF Numbered, LostInv, NoLostGrant

\* On a deployment that locks at startup no execution is let through by the
\* one-shot of one that was lost in a crash, as long as the startup lock of
\* the process it runs in did not fail.
THEOREM LostGrantsSpent == ASSUME LiveStartup PROVE Spec => LostGrantIsSpent
  <1>1. TypeOK /\ Numbered /\ LostInv /\ [Next]_vars =>
           [\A t, u \in Tasks :
              /\ ~lockFailed
              /\ pc[t] = "lost"
              /\ under[t] # 0
              /\ pc[u] = "decide"
              /\ pc'[u] = "running"
              => under'[u] # under[t]]_vars
    <2>. SUFFICES ASSUME TypeOK, Numbered, LostInv, [Next]_vars,
                         NEW t \in Tasks, NEW u \in Tasks,
                         ~lockFailed, pc[t] = "lost", under[t] # 0,
                         pc[u] = "decide", pc'[u] = "running"
                  PROVE  under'[u] # under[t]
      OBVIOUS
    <2>1. LostInv' /\ pc'[t] = "lost" /\ under'[t] = under[t]
      BY LostStep, LostStays
    <2>2. under[t] \in LostGrants'
      BY <2>1 DEF LostGrants
    <2>3. ~lockFailed'
      BY RunsOn
    <2>. QED  BY <2>1, <2>2, <2>3 DEF LostInv, NoLostGrant
  <1>. QED
    BY <1>1, InitFacts, TypeStep, LostInit, LostStep, PTL DEF Spec, LostGrantIsSpent

-----------------------------------------------------------------------------
(* One worker.                                                             *)

Active(r, g) == OneShotActive(r) /\ r.shot.grant = g

Answered == Checking \ {"es_read"}

Spent == {"consume_after", "consume_event", "done"}

\* With one worker an execution is over before the next one begins, and then
\* its one-shot is closed in the row and in what the next one reads of it.
ClosedFor(t) ==
    under[t] # 0 /\ pc[t] \in Spent =>
       /\ ~Active(row, under[t])
       /\ \A u \in Tasks : pc[u] \in Answered => ~Active(snap[u], under[t])

SoleInv ==
    /\ \A t, u \in Busy : t = u
    /\ \A t \in TVTasks : ClosedFor(t)

LEMMA InactiveRows ==
    /\ ~OneShotActive(SetUnlocked)
    /\ \A reason, until : ~OneShotActive(SetLocked(reason, until))
    /\ \A r \in Row : /\ ~OneShotActive(ExpireOneShotAndLock(r))
                      /\ \A t \in Tasks : ~OneShotActive(ConsumeOneShotAndLock(r, t))
  <1>1. ~OneShotActive(SetUnlocked)
    BY DEF SetUnlocked, ClearedOneShot, OneShotActive
  <1>2. \A reason, until : ~OneShotActive(SetLocked(reason, until))
    BY DEF SetLocked, ClearedOneShot, OneShotActive
  <1>3. ASSUME NEW r \in Row, NEW reason, NEW by
        PROVE  ~OneShotActive(LockEndingGrant(r, reason, by))
    <2>1. LockEndingGrant(r, reason, by).shot.enabled = FALSE
      BY DEF LockEndingGrant, Row, OneShot
    <2>. QED  BY <2>1 DEF OneShotActive
  <1>. QED
    BY <1>1, <1>2, <1>3 DEF ExpireOneShotAndLock, ConsumeOneShotAndLock

\* A one-shot that a step leaves active in a changed row is a new one.
LEMMA ActiveWritten ==
    ASSUME TypeOK, [Next]_vars, OneShotActive(row')
    PROVE  row' = row \/ row'.shot.grant = ops + 1
  <1>0. row \in Row
    BY DEF TypeOK
  <1>1. ASSUME NEW t \in Threads, EffectiveStateStep(t)
        PROVE  row' = row
    BY <1>0, <1>1, InactiveRows DEF EffectiveStateStep, ReadState, MaybeAutoExpire,
       AutoExpireEvent, AutoExpireReread, MaybeExpireOneShot,
       OneShotExpiredEvent, OneShotReread
  <1>2. ASSUME NEW t \in Tasks, TaskStep(t)
        PROVE  row' = row
    BY <1>0, <1>1, <1>2, InactiveRows DEF Threads, TaskStep, Begin, Decide, Finish,
       ConsumeRead, ConsumeBefore, ConsumeWrite, ConsumeAfter, ConsumeEvent
  <1>3. CASE UnlockOnceCall
    BY <1>3, GrantsWritten DEF UnlockOnceCall, OperatorCall
  <1>4. CASE Startup \/ LockCall \/ UnlockCall
    BY <1>4, InactiveRows DEF Startup, LockCall, UnlockCall
  <1>5. CASE LockEvent \/ UnlockEvent \/ UnlockOnceEvent \/ QueryCall \/ Answer
    BY <1>5 DEF LockEvent, UnlockEvent, UnlockOnceEvent, QueryCall, Answer
  <1>6. CASE EffectiveStateStep(Loop)
    BY <1>1, <1>6 DEF Threads
  <1>7. CASE Tick \/ Crash \/ UNCHANGED vars
    BY <1>7 DEF Tick, Crash, vars
  <1>. QED
    BY <1>2, <1>3, <1>4, <1>5, <1>6, <1>7 DEF Next, LoopStep

LEMMA ActiveStays ==
    ASSUME TypeOK, Numbered, [Next]_vars, NEW t \in Tasks, ~Active(row, under[t])
    PROVE  ~Active(row', under[t])
  <1>. SUFFICES ASSUME OneShotActive(row'), row'.shot.grant = under[t]
                PROVE  FALSE
    BY DEF Active
  <1>1. row' = row \/ row'.shot.grant = ops + 1
    BY ActiveWritten
  <1>. QED  BY <1>1, NumberedType DEF Numbered, Active, OneShotActive

\* The execution that moves is the only one that is under way.
LEMMA OthersIdle ==
    ASSUME Workers = 1, TypeOK, SoleInv, NEW t \in Tasks, TaskStep(t)
    PROVE  \A u \in Tasks \ {t} : u \notin Busy
  <1>1. CASE t \in Busy
    BY <1>1 DEF SoleInv
  <1>2. CASE t \notin Busy
    <2>1. Cardinality(Busy) < 1
      <3>1. pc[t] \in {"new", "done", "lost"}
        BY <1>2 DEF Busy
      <3>2. Begin(t)
        BY <3>1 DEF TaskStep, EffectiveStateStep, ReadState, MaybeAutoExpire,
           AutoExpireEvent, AutoExpireReread, MaybeExpireOneShot, OneShotExpiredEvent,
           OneShotReread, Decide, Finish, ConsumeRead, ConsumeBefore, ConsumeWrite,
           ConsumeAfter, ConsumeEvent
      <3>. QED  BY <3>2 DEF Begin
    <2>2. ASSUME NEW u \in Busy
          PROVE  FALSE
      <3>1. Busy = {u}
        BY DEF SoleInv
      <3>2. Cardinality(Busy) = 1
        BY <3>1, FS_Singleton, Zenon
      <3>. QED  BY <2>1, <3>2
    <2>. QED  BY <2>2
  <1>. QED  BY <1>1, <1>2

\* What an execution reads once it has begun is the row.
LEMMA ReadsTheRow ==
    ASSUME TypeOK, NEW t \in Tasks, TaskStep(t), pc'[t] \in Answered
    PROVE  \/ snap'[t] = row
           \/ pc[t] \in Answered /\ snap'[t] = snap[t]
  <1>1. /\ pc \in [Threads -> TaskPC \union LoopPC]
        /\ snap \in [Threads -> Row]
        /\ t \in Threads
    BY DEF TypeOK, Threads
  <1>2. EffectiveStateStep(t)
    BY <1>1 DEF TaskStep, Begin, Decide, Finish, ConsumeRead, ConsumeBefore,
       ConsumeWrite, ConsumeAfter, ConsumeEvent, Goto, Answered, Checking
  <1>. QED
    BY <1>1, <1>2 DEF EffectiveStateStep, ReadState, MaybeAutoExpire,
       AutoExpireEvent, AutoExpireReread, MaybeExpireOneShot,
       OneShotExpiredEvent, OneShotReread, Read, Goto, Answered, Checking

\* An execution of a TradingView signal that is over has left no active
\* one-shot in the row, or had none when it got there.
LEMMA EndsClosed ==
    ASSUME TypeOK, NEW t \in TVTasks, TaskStep(t), pc'[t] \in Spent
    PROVE  /\ \/ ~OneShotActive(row')
              \/ pc[t] \in Spent /\ row' = row
           /\ under'[t] = under[t]
  <1>1. /\ pc \in [Threads -> TaskPC \union LoopPC]
        /\ row \in Row
        /\ t \in Threads /\ t \in Tasks
    BY ThreadAssumption DEF TypeOK, Threads
  <1>2. ~EffectiveStateStep(t)
    BY <1>1, CheckFrame DEF Spent, Checking
  <1>3. CASE ConsumeRead(t)
    BY <1>1, <1>3 DEF ConsumeRead, Goto, Spent
  <1>4. CASE ConsumeWrite(t)
    BY <1>1, <1>4, InactiveRows DEF ConsumeWrite
  <1>5. CASE ConsumeAfter(t) \/ ConsumeEvent(t)
    BY <1>5 DEF ConsumeAfter, ConsumeEvent, Spent
  <1>6. ~(Begin(t) \/ Decide(t) \/ Finish(t) \/ ConsumeBefore(t))
    BY <1>1 DEF Begin, Decide, Finish, ConsumeBefore, Goto, Spent
  <1>. QED  BY <1>2, <1>3, <1>4, <1>5, <1>6 DEF TaskStep

LEMMA SoleStep ==
    ASSUME Workers = 1, TypeOK, Numbered, SoleInv, [Next]_vars
    PROVE  SoleInv'
  <1>1. Tasks \subseteq Threads /\ Loop \in Threads /\ Loop \notin Tasks /\ TVTasks \subseteq Tasks
    BY ThreadAssumption DEF Threads
  <1>2. ASSUME NEW t \in Tasks, TaskStep(t)
        PROVE  SoleInv'
    <2>1. Moves(t) /\ \A u \in Tasks \ {t} : u \notin Busy
      BY <1>2, TaskFrame, OthersIdle
    <2>2. \A u \in Tasks \ {t} : pc'[u] = pc[u] /\ pc[u] \in {"new", "done", "lost"}
      BY <1>1, <2>1 DEF Moves, Busy
    <2>3. (\A u, v \in Busy : u = v)'
      BY <2>2 DEF Busy
    <2>4. ASSUME NEW v \in TVTasks, under'[v] # 0, pc'[v] \in Spent
          PROVE  /\ ~Active(row', under'[v])
                 /\ \A u \in Tasks : pc'[u] \in Answered => ~Active(snap'[u], under'[v])
      <3>1. \A u \in Tasks : pc'[u] \in Answered => u = t
        BY <2>2 DEF Answered, Checking
      <3>2. CASE v = t
        <4>1. ~Active(row', under'[v])
          <5>1. ClosedFor(t)
            BY <3>2 DEF SoleInv
          <5>. QED  BY <1>2, <2>4, <3>2, <5>1, EndsClosed DEF ClosedFor, Active
        <4>2. pc'[t] \notin Answered
          BY <2>4, <3>2 DEF Spent, Answered, Checking
        <4>. QED  BY <3>1, <4>1, <4>2
      <3>3. CASE v # t
        <4>1. under'[v] = under[v] /\ pc[v] \in Spent
          BY <1>1, <2>1, <2>2, <2>4, <3>3 DEF Moves
        <4>2. /\ ~Active(row, under[v])
              /\ pc[t] \in Answered => ~Active(snap[t], under[v])
          BY <2>4, <4>1 DEF SoleInv, ClosedFor
        <4>3. ~Active(row', under[v])
          BY <1>1, <4>2, ActiveStays
        <4>4. pc'[t] \in Answered => ~Active(snap'[t], under[v])
          BY <1>2, <4>2, ReadsTheRow DEF Active, OneShotActive
        <4>. QED  BY <3>1, <4>1, <4>3, <4>4
      <3>. QED  BY <3>2, <3>3
    <2>. QED  BY <2>3, <2>4 DEF SoleInv, ClosedFor, Active, OneShotActive
  <1>3. CASE LoopStep \/ Tick \/ UNCHANGED vars
    <2>1. \A t \in Tasks : pc'[t] = pc[t] /\ snap'[t] = snap[t] /\ under'[t] = under[t]
      BY <1>3, LoopFrame DEF Tick, vars
    <2>2. Busy' = Busy
      BY <2>1 DEF Busy
    <2>3. ASSUME NEW t \in TVTasks, under'[t] # 0, pc'[t] \in Spent
          PROVE  /\ ~Active(row', under'[t])
                 /\ \A u \in Tasks : pc'[u] \in Answered => ~Active(snap'[u], under'[t])
      <3>1. t \in Tasks /\ under'[t] = under[t] /\ pc[t] \in Spent
        BY <1>1, <2>1, <2>3
      <3>2. /\ ~Active(row, under[t])
            /\ \A u \in Tasks : pc[u] \in Answered => ~Active(snap[u], under[t])
        BY <2>3, <3>1 DEF SoleInv, ClosedFor
      <3>3. ~Active(row', under[t])
        BY <3>1, <3>2, ActiveStays
      <3>. QED  BY <2>1, <3>1, <3>2, <3>3
    <2>. QED  BY <2>2, <2>3 DEF SoleInv, ClosedFor, Active, OneShotActive
  <1>4. CASE Crash
    <2>1. /\ \A t \in Tasks : /\ pc'[t] \in {"new", "done", "lost"}
                              /\ pc'[t] = "done" => pc[t] = "done"
          /\ UNCHANGED <<row, under>>
      BY <1>1, <1>4 DEF Crash
    <2>2. Busy' = {}
      BY <2>1 DEF Busy
    <2>3. ASSUME NEW t \in TVTasks, under'[t] # 0, pc'[t] \in Spent
          PROVE  /\ ~Active(row', under'[t])
                 /\ \A u \in Tasks : pc'[u] \notin Answered
      <3>1. pc[t] = "done"
        BY <1>1, <2>1, <2>3 DEF Spent
      <3>2. ~Active(row, under[t])
        BY <2>1, <2>3, <3>1 DEF SoleInv, ClosedFor, Spent
      <3>. QED  BY <2>1, <3>2 DEF Active, Answered, Checking
    <2>. QED  BY <2>2, <2>3 DEF SoleInv, ClosedFor, Active, OneShotActive
  <1>. QED  BY <1>2, <1>3, <1>4 DEF Next

\* An execution is let through by a one-shot that no other one was let
\* through by: what the others have had is closed, or was lost and cleared.
LEMMA AdmittedAlone ==
    ASSUME TypeOK, Numbered, LostInv, SoleInv, Workers = 1, ~lockFailed,
           NEW t \in TVTasks, NEW u \in TVTasks, t # u, TaskStep(u),
           under'[u] # under[u], under'[u] # 0
    PROVE  under[t] # under'[u]
  <1>1. /\ t \in Tasks /\ u \in Tasks /\ u \in Threads
        /\ under \in [Tasks -> Nat]
    BY ThreadAssumption DEF TypeOK, Threads
  <1>2. Decide(u)
    BY <1>1, CheckFrame DEF TaskStep, Begin, Finish, ConsumeRead, ConsumeBefore,
       ConsumeWrite, ConsumeAfter, ConsumeEvent
  <1>3. /\ pc[u] = "decide" /\ OneShotActive(snap[u])
        /\ under'[u] = snap[u].shot.grant
    BY <1>1, <1>2 DEF Decide
  <1>4. pc[t] \in {"new", "done", "lost"}
    BY <1>1, OthersIdle DEF Busy
  <1>5. CASE pc[t] = "new"
    BY <1>1, <1>5 DEF Numbered
  <1>6. CASE pc[t] = "lost"
    <2>. SUFFICES ASSUME under[t] = under'[u] PROVE FALSE
      OBVIOUS
    <2>1. under[t] \in LostGrants
      BY <1>1, <1>6 DEF LostGrants
    <2>. QED  BY <1>1, <1>3, <2>1 DEF LostInv, NoLostGrant
  <1>7. CASE pc[t] = "done"
    <2>1. ClosedFor(t)
      BY DEF SoleInv
    <2>. QED
      BY <1>1, <1>3, <1>7, <2>1 DEF ClosedFor, Active, Spent, Answered, Checking
  <1>. QED  BY <1>4, <1>5, <1>6, <1>7

LEMMA AdmitsOneStep ==
    ASSUME LiveStartup, Workers = 1, TypeOK, Numbered, LostInv, SoleInv,
           ~lockFailed, OneShotAdmitsOneTvSignal, [Next]_vars
    PROVE  OneShotAdmitsOneTvSignal'
  <1>. SUFFICES ASSUME NEW t \in TVTasks, NEW u \in TVTasks, t # u,
                       under'[t] # 0, under'[t] = under'[u]
                PROVE  FALSE
    BY DEF OneShotAdmitsOneTvSignal
  <1>1. t \in Tasks /\ u \in Tasks
    BY ThreadAssumption
  <1>2. under[t] # under'[t] \/ under[u] # under'[u]
    BY DEF OneShotAdmitsOneTvSignal
  <1>3. PICK v \in Tasks : TaskStep(v)
    BY <1>1, <1>2, LoopFrame DEF Next, Tick, Crash, vars
  <1>4. \A w \in Tasks \ {v} : under'[w] = under[w]
    BY <1>3, TaskFrame DEF Moves
  <1>5. CASE v = t
    BY <1>1, <1>2, <1>3, <1>4, <1>5, AdmittedAlone
  <1>6. CASE v = u
    BY <1>1, <1>2, <1>3, <1>4, <1>6, AdmittedAlone
  <1>. QED  BY <1>1, <1>2, <1>4, <1>5, <1>6

\* A server with one worker that locks at startup, and whose startup lock
\* never fails, lets one TradingView signal through by one one-shot, whatever
\* operator calls, expiries and crashes come in between.  It takes a second
\* worker, or a restart that does not lock, to let a second one through; a
\* startup lock that raises is such a restart, and nothing in the code stops
\* the server then.
THEOREM OneShotAdmitsOne ==
    ASSUME LiveStartup, Workers = 1
    PROVE  Spec /\ []~lockFailed => []OneShotAdmitsOneTvSignal
  <1>1. Init => SoleInv /\ OneShotAdmitsOneTvSignal
    BY ThreadAssumption
    DEF Init, SoleInv, ClosedFor, OneShotAdmitsOneTvSignal, Busy, Threads
  <1>. QED
    BY <1>1, InitFacts, TypeStep, LostInit, LostStep, SoleStep, AdmitsOneStep, PTL
    DEF Spec

=============================================================================
