--------------------------- MODULE LiveGuardProofs ---------------------------
(***************************************************************************)
(* Proofs that a live execution trades only under a one-shot it has met,   *)
(* and under none of an execution lost in a crash, for any number of       *)
(* executions, operator calls and crashes.                                 *)
(***************************************************************************)
EXTENDS LiveGuard, RuntimeControlProofs

AfterWrite == {"auto_expire_event", "auto_expire_reread", "one_shot_event",
               "one_shot_reread"}

\* What the second check of an execution knows.  An active one-shot in the row
\* it has read was met, unless it had run out already; the check's own writes
\* leave none active, so one that is active after them was met as well; and
\* what is left for the decision was met.
GuardInv(t) ==
    /\ guard[t] = "checking" =>
          /\ pc[t] \in {"auto_expire", "one_shot"} /\ OneShotActive(snap[t])
                => t \in metGrant \/ OneShotExpired(snap[t])
          /\ pc[t] \in AfterWrite /\ OneShotActive(row) => t \in metGrant
          /\ pc[t] = "decide" /\ OneShotActive(snap[t]) => t \in metGrant
    /\ guard[t] = "trading" /\ RequireOneShot => t \in metGrant

LiveInv == \A t \in Tasks : GuardInv(t)

-----------------------------------------------------------------------------

\* The two checks of the guard move one execution and leave the row alone.
LEMMA GuardSteps ==
    ASSUME GuardTypeOK, NEW t \in Tasks, CheckSignal(t) \/ CheckOneShot(t)
    PROVE  /\ TypeOK'
           /\ guard' \in [Tasks -> Stages]
           /\ UNCHANGED <<row, now>>
           /\ \A u \in Tasks \ {t} : /\ pc'[u] = pc[u]
                                     /\ snap'[u] = snap[u]
                                     /\ guard'[u] = guard[u]
  <1>. USE DEF GuardTypeOK, TypeOK
  <1>1. t \in Threads /\ t # Loop /\ Loop \in Threads /\ Tasks \subseteq Threads
    BY ThreadAssumption DEF Threads
  <1>2. {"es_read", "running"} \subseteq TaskPC
    BY DEF TaskPC, Checking
  <1>3. \A label \in {"es_read", "running"} :
           Goto(t, label) =>
              /\ pc' \in [Threads -> TaskPC \union LoopPC]
              /\ pc'[Loop] \in LoopPC
              /\ \A u \in Tasks : pc'[u] \in TaskPC
              /\ \A u \in Tasks \ {t} : pc'[u] = pc[u]
    BY <1>1, <1>2 DEF Goto
  <1>4. Forget(t) => /\ snap' \in [Threads -> Row]
                     /\ \A u \in Tasks \ {t} : snap'[u] = snap[u]
    BY <1>1, WrittenRows DEF Forget
  <1>5. CASE CheckSignal(t)
    <2>1. Goto(t, "es_read") \/ UNCHANGED pc
      BY <1>5 DEF CheckSignal
    <2>2. \E stage \in Stages : GuardIs(t, stage)
      BY <1>5 DEF CheckSignal, Stages
    <2>. QED  BY <1>1, <1>3, <1>5, <2>1, <2>2 DEF CheckSignal, GuardIs
  <1>6. CASE CheckOneShot(t)
    <2>1. \E stage \in Stages : GuardIs(t, stage)
      BY <1>6 DEF CheckOneShot, Stages
    <2>. QED  BY <1>3, <1>4, <1>6, <2>1 DEF CheckOneShot, GuardIs
  <1>. QED  BY <1>5, <1>6

LEMMA LiveSteps ==
    ASSUME LiveNext
    PROVE  \/ [Next]_vars /\ UNCHANGED guard
           \/ \E t \in Tasks : CheckSignal(t) \/ CheckOneShot(t)
  BY DEF LiveNext, LiveTaskStep, Next, TaskStep

LEMMA LiveType == GuardTypeOK /\ [LiveNext]_liveVars => GuardTypeOK'
  <1>. SUFFICES ASSUME GuardTypeOK, [LiveNext]_liveVars
                PROVE  GuardTypeOK'
    OBVIOUS
  <1>1. CASE UNCHANGED liveVars
    BY <1>1, TypeStep DEF liveVars, guarded, GuardTypeOK
  <1>2. CASE LiveNext
    <2>1. metGrant' \subseteq Tasks
      BY <1>2 DEF LiveNext
    <2>2. TypeOK' /\ guard' \in [Tasks -> Stages]
      BY <1>2, LiveSteps, GuardSteps, TypeStep DEF GuardTypeOK
    <2>. QED  BY <2>1, <2>2 DEF GuardTypeOK
  <1>. QED  BY <1>1, <1>2

\* A step that leaves a one-shot active in a changed row has just granted it.
LEMMA GrantWritten ==
    ASSUME TypeOK, [Next]_vars, row' # row, OneShotActive(row')
    PROVE  GrantInForce'
  <1>1. now \in Nat /\ now' = now
    BY RowStep DEF TypeOK
  <1>2. row' # SetUnlocked
    BY DEF SetUnlocked, ClearedOneShot, OneShotActive
  <1>3. \A reason \in {"manual", "startup"}, until \in {Never} \union LaterThanNow :
           row' # SetLocked(reason, until)
    BY DEF SetLocked, ClearedOneShot, OneShotActive
  <1>4. \A reason, by : row' # LockEndingGrant(row, reason, by)
    <2>. SUFFICES ASSUME NEW reason, NEW by, row' = LockEndingGrant(row, reason, by)
                  PROVE  FALSE
      OBVIOUS
    <2>1. row \in Row
      BY DEF TypeOK
    <2>2. row'.shot.enabled = FALSE
      BY <2>1 DEF LockEndingGrant, Row, OneShot
    <2>. QED  BY <2>2 DEF OneShotActive
  <1>5. PICK g \in Nat, e \in LaterThanNow : row' = SetOneShotUnlock(g, e)
    BY <1>2, <1>3, <1>4, RowStep DEF ExpireOneShotAndLock, ConsumeOneShotAndLock
  <1>6. row'.shot.expires = e /\ now' < e
    BY <1>1, <1>5 DEF SetOneShotUnlock, LaterThanNow
  <1>. QED  BY <1>6 DEF GrantInForce

\* An active row is a grant in force, or one that has run out.
LEMMA ActiveRow ==
    ASSUME TypeOK, OneShotActive(row)
    PROVE  GrantInForce \/ OneShotExpired(row)
  <1>1. now \in Nat /\ (row.shot.expires = Never \/ row.shot.expires \in Nat)
    BY DEF TypeOK, Row, OneShot, Instant
  <1>. QED  BY <1>1 DEF GrantInForce, OneShotExpired

\* How the history follows an execution in its second check.
LEMMA MetWhileChecking ==
    ASSUME LiveNext, NEW t \in Tasks
    PROVE  /\ t \in metGrant => t \in metGrant'
           /\ guard'[t] = "checking" /\ pc'[t] \in Checking /\ GrantInForce'
              => t \in metGrant'
  BY DEF LiveNext

LEMMA RunOutStays ==
    ASSUME TypeOK, NEW r \in Row, OneShotExpired(r), now' \in Nat, now' >= now
    PROVE  OneShotExpired(r)'
  <1>1. now \in Nat /\ (r.shot.expires = Never \/ r.shot.expires \in Nat)
    BY DEF TypeOK, Row, OneShot, Instant
  <1>. QED  BY <1>1 DEF OneShotExpired, OneShotActive

-----------------------------------------------------------------------------

\* The execution does not move.
LEMMA StandsStill ==
    ASSUME GuardTypeOK, LiveNext, NEW t \in Tasks, GuardInv(t),
           pc'[t] = pc[t], snap'[t] = snap[t], guard'[t] = guard[t]
    PROVE  GuardInv(t)'
  <1>1. TypeOK /\ snap[t] \in Row /\ t \in Threads
    BY DEF GuardTypeOK, TypeOK, Threads
  <1>2. now' \in Nat /\ now' >= now
    BY <1>1, LiveSteps, RowStep, GuardSteps DEF TypeOK
  <1>3. OneShotExpired(snap[t]) => OneShotExpired(snap[t])'
    BY <1>1, <1>2, RunOutStays
  <1>4. OneShotActive(row') => OneShotActive(row) \/ GrantInForce'
    BY <1>1, LiveSteps, GuardSteps, GrantWritten
  <1>5. AfterWrite \subseteq Checking
    BY DEF AfterWrite, Checking
  <1>6. OneShotActive(snap[t])' <=> OneShotActive(snap[t])
    BY DEF OneShotActive
  <1>. QED  BY <1>3, <1>4, <1>5, <1>6, MetWhileChecking DEF GuardInv, OneShotActive

\* The second check itself.
LEMMA CheckMoves ==
    ASSUME GuardTypeOK, LiveNext, NEW t \in Tasks, GuardInv(t),
           EffectiveStateStep(t), UNCHANGED guard
    PROVE  GuardInv(t)'
  <1>. SUFFICES ASSUME guard[t] = "checking"
                PROVE  GuardInv(t)'
    BY MetWhileChecking DEF GuardInv
  <1>1. /\ TypeOK
        /\ t \in Threads
        /\ pc \in [Threads -> TaskPC \union LoopPC]
        /\ snap \in [Threads -> Row]
        /\ row \in Row
    BY DEF GuardTypeOK, TypeOK, Threads
  <1>2. guard'[t] = "checking"
    OBVIOUS
  <1>3. CASE ReadState(t)
    <2>1. /\ pc'[t] = "auto_expire" /\ snap'[t] = row
          /\ row' = row /\ now' = now
      BY <1>1, <1>3 DEF ReadState, Read, Goto
    <2>2. OneShotActive(row) => GrantInForce' \/ OneShotExpired(row)'
      BY <1>1, <2>1, ActiveRow DEF GrantInForce, OneShotExpired, OneShotActive
    <2>3. OneShotActive(row) => t \in metGrant' \/ OneShotExpired(row)'
      BY <1>2, <2>1, <2>2, MetWhileChecking DEF Checking
    <2>. QED  BY <1>2, <2>1, <2>3 DEF GuardInv, AfterWrite, OneShotActive, OneShotExpired
  <1>4. CASE MaybeAutoExpire(t)
    <2>1. CASE LockExpired(snap[t])
      <3>1. pc'[t] = "auto_expire_event" /\ row' = SetUnlocked
        BY <1>1, <1>4, <2>1 DEF MaybeAutoExpire, Goto
      <3>2. ~OneShotActive(row')
        BY <3>1 DEF SetUnlocked, ClearedOneShot, OneShotActive
      <3>. QED  BY <1>2, <3>1, <3>2 DEF GuardInv, AfterWrite, OneShotActive
    <2>2. CASE ~LockExpired(snap[t])
      <3>1. /\ pc[t] = "auto_expire" /\ pc'[t] = "one_shot"
            /\ snap' = snap /\ now' = now
        BY <1>1, <1>4, <2>2 DEF MaybeAutoExpire, Goto
      <3>. QED
        BY <1>2, <3>1, MetWhileChecking
        DEF GuardInv, AfterWrite, OneShotActive, OneShotExpired
    <2>. QED  BY <2>1, <2>2
  <1>5. CASE AutoExpireEvent(t)
    BY <1>1, <1>2, <1>5, MetWhileChecking
    DEF AutoExpireEvent, Goto, GuardInv, AfterWrite, OneShotActive
  <1>6. CASE AutoExpireReread(t)
    BY <1>1, <1>2, <1>6, MetWhileChecking
    DEF AutoExpireReread, Read, Goto, GuardInv, AfterWrite, OneShotActive
  <1>7. CASE MaybeExpireOneShot(t)
    <2>1. CASE OneShotExpired(snap[t])
      <3>1. pc'[t] = "one_shot_event" /\ row' = ExpireOneShotAndLock(row)
        BY <1>1, <1>7, <2>1 DEF MaybeExpireOneShot, Goto
      <3>2. ~OneShotActive(row')
        BY <1>1, <3>1 DEF ExpireOneShotAndLock, LockEndingGrant, OneShotActive, Row, OneShot
      <3>. QED  BY <1>2, <3>1, <3>2 DEF GuardInv, AfterWrite, OneShotActive
    <2>2. CASE ~OneShotExpired(snap[t])
      <3>1. /\ pc[t] = "one_shot" /\ pc'[t] = "decide"
            /\ snap' = snap
        BY <1>1, <1>7, <2>2 DEF MaybeExpireOneShot, Goto
      <3>. QED
        BY <1>2, <2>2, <3>1, MetWhileChecking DEF GuardInv, AfterWrite, OneShotActive
    <2>. QED  BY <2>1, <2>2
  <1>8. CASE OneShotExpiredEvent(t)
    BY <1>1, <1>2, <1>8, MetWhileChecking
    DEF OneShotExpiredEvent, Goto, GuardInv, AfterWrite, OneShotActive
  <1>9. CASE OneShotReread(t)
    BY <1>1, <1>2, <1>9, MetWhileChecking
    DEF OneShotReread, Read, Goto, GuardInv, AfterWrite, OneShotActive
  <1>. QED
    BY <1>3, <1>4, <1>5, <1>6, <1>7, <1>8, <1>9 DEF EffectiveStateStep

\* The execution is somewhere else than in its second check.
LEMMA Elsewhere ==
    ASSUME LiveNext, NEW t \in Tasks, GuardInv(t), guard'[t] = guard[t],
           pc'[t] \notin {"auto_expire", "one_shot", "decide"} \union AfterWrite
    PROVE  GuardInv(t)'
  BY MetWhileChecking DEF GuardInv, AfterWrite

LEMMA LoopStands ==
    ASSUME GuardTypeOK, LoopStep, NEW t \in Tasks
    PROVE  pc'[t] = pc[t] /\ snap'[t] = snap[t]
  <1>1. t # Loop
    BY ThreadAssumption
  <1>2. /\ pc \in [Threads -> TaskPC \union LoopPC]
        /\ snap \in [Threads -> Row]
        /\ t \in Threads /\ Loop \in Threads
    BY DEF GuardTypeOK, TypeOK, Threads
  <1>3. CASE EffectiveStateStep(Loop)
    BY <1>1, <1>2, <1>3 DEF EffectiveStateStep, ReadState, MaybeAutoExpire,
       AutoExpireEvent, AutoExpireReread, MaybeExpireOneShot,
       OneShotExpiredEvent, OneShotReread, Read, Goto
  <1>4. CASE Startup \/ LockCall \/ LockEvent \/ UnlockCall \/ UnlockEvent
               \/ UnlockOnceCall \/ UnlockOnceEvent \/ QueryCall \/ Answer
    BY <1>1, <1>2, <1>4 DEF Startup, LockCall, LockEvent, UnlockCall, UnlockEvent,
       UnlockOnceCall, UnlockOnceEvent, QueryCall, Answer, Forget, Goto, Accept
  <1>. QED  BY <1>3, <1>4 DEF LoopStep

LEMMA TaskMoves ==
    ASSUME GuardTypeOK, LiveNext, NEW t \in Tasks, GuardInv(t), LiveTaskStep(t)
    PROVE  GuardInv(t)'
  <1>1. /\ pc \in [Threads -> TaskPC \union LoopPC]
        /\ guard \in [Tasks -> Stages]
        /\ t \in Threads
    BY DEF GuardTypeOK, TypeOK, Threads
  <1>2. CASE CheckSignal(t)
    <2>1. CASE GuardIs(t, "checking") /\ Goto(t, "es_read")
      BY <1>1, <2>1 DEF GuardIs, Goto, GuardInv, AfterWrite
    <2>2. CASE ~(t \in Acceptable /\ RequireOneShot)
      <3>1. pc'[t] = "running"
        BY <1>1, <1>2, <2>2 DEF CheckSignal
      <3>2. guard'[t] = "rejected" \/ ~RequireOneShot
        BY <1>1, <1>2, <2>2 DEF CheckSignal, GuardIs
      <3>. QED  BY <3>1, <3>2 DEF GuardInv, AfterWrite
    <2>. QED  BY <1>2, <2>1, <2>2 DEF CheckSignal
  <1>3. CASE CheckOneShot(t)
    <2>1. pc[t] = "decide" /\ guard[t] = "checking" /\ pc'[t] = "running"
      BY <1>1, <1>3 DEF CheckOneShot, Goto
    <2>2. guard'[t] = IF OneShotActive(snap[t]) THEN "trading" ELSE "rejected"
      BY <1>1, <1>3 DEF CheckOneShot, GuardIs
    <2>. QED  BY <2>1, <2>2, MetWhileChecking DEF GuardInv, AfterWrite
  <1>4. CASE EffectiveStateStep(t) /\ UNCHANGED guard
    BY <1>4, CheckMoves
  <1>5. CASE UNCHANGED guard /\ \/ Begin(t) \/ Decide(t) \/ Finish(t)
                                \/ ConsumeRead(t) \/ ConsumeBefore(t)
                                \/ ConsumeWrite(t) \/ ConsumeAfter(t)
                                \/ ConsumeEvent(t)
    <2>1. pc'[t] \notin {"auto_expire", "one_shot", "decide"} \union AfterWrite
      BY <1>1, <1>5 DEF Begin, Decide, Finish, ConsumeRead, ConsumeBefore,
         ConsumeWrite, ConsumeAfter, ConsumeEvent, Goto, AfterWrite
    <2>. QED  BY <1>5, <2>1, Elsewhere
  <1>. QED  BY <1>2, <1>3, <1>4, <1>5 DEF LiveTaskStep

\* A step of another execution leaves this one where it is.
LEMMA OthersStand ==
    ASSUME GuardTypeOK, LiveNext, NEW t \in Tasks, NEW u \in Tasks \ {t},
           LiveTaskStep(u)
    PROVE  pc'[t] = pc[t] /\ snap'[t] = snap[t] /\ guard'[t] = guard[t]
  <1>1. /\ pc \in [Threads -> TaskPC \union LoopPC]
        /\ snap \in [Threads -> Row]
        /\ t \in Threads /\ u \in Threads
    BY DEF GuardTypeOK, TypeOK, Threads
  <1>2. CASE CheckSignal(u) \/ CheckOneShot(u)
    BY <1>2, GuardSteps
  <1>3. CASE EffectiveStateStep(u) /\ UNCHANGED guard
    BY <1>1, <1>3 DEF EffectiveStateStep, ReadState, MaybeAutoExpire,
       AutoExpireEvent, AutoExpireReread, MaybeExpireOneShot,
       OneShotExpiredEvent, OneShotReread, Read, Goto
  <1>4. CASE UNCHANGED guard /\ \/ Begin(u) \/ Decide(u) \/ Finish(u)
                                \/ ConsumeRead(u) \/ ConsumeBefore(u)
                                \/ ConsumeWrite(u) \/ ConsumeAfter(u)
                                \/ ConsumeEvent(u)
    BY <1>1, <1>4 DEF Begin, Decide, Finish, ConsumeRead, ConsumeBefore,
       ConsumeWrite, ConsumeAfter, ConsumeEvent, Goto, Read, Forget
  <1>. QED  BY <1>2, <1>3, <1>4 DEF LiveTaskStep

LEMMA LiveInvStep ==
    GuardTypeOK /\ LiveInv /\ [LiveNext]_liveVars => LiveInv'
  <1>. SUFFICES ASSUME GuardTypeOK, LiveInv, [LiveNext]_liveVars, NEW t \in Tasks
                PROVE  GuardInv(t)'
    BY DEF LiveInv
  <1>0. GuardInv(t)
    BY DEF LiveInv
  <1>1. CASE UNCHANGED liveVars
    BY <1>0, <1>1 DEF GuardInv, liveVars, guarded, vars, OneShotActive, OneShotExpired
  <1>2. CASE LiveNext /\ LiveTaskStep(t)
    BY <1>0, <1>2, TaskMoves
  <1>3. ASSUME LiveNext, NEW u \in Tasks \ {t}, LiveTaskStep(u)
        PROVE  GuardInv(t)'
    BY <1>0, <1>3, OthersStand, StandsStill
  <1>4. CASE LiveNext /\ LoopStep /\ UNCHANGED guard
    BY <1>0, <1>4, LoopStands, StandsStill
  <1>5. CASE LiveNext /\ Tick /\ UNCHANGED guard
    BY <1>0, <1>5, StandsStill DEF Tick
  <1>6. CASE LiveNext /\ Crash /\ UNCHANGED guard
    <2>1. t \in Threads /\ t # Loop
      BY ThreadAssumption DEF Threads
    <2>2. pc'[t] \in {"new", "done", "lost"}
      BY <1>6, <2>1 DEF Crash
    <2>. QED  BY <1>0, <1>6, <2>2, Elsewhere DEF AfterWrite
  <1>. QED  BY <1>1, <1>2, <1>3, <1>4, <1>5, <1>6 DEF LiveNext

\* Types of the guard and of the lock it is composed with.
THEOREM GuardTypeCorrect == LiveSpec => []GuardTypeOK
  <1>1. LiveInit => GuardTypeOK
    BY InitFacts DEF LiveInit, GuardTypeOK, Stages
  <1>. QED  BY <1>1, LiveType, PTL DEF LiveSpec

\* No live execution trades without having met an active one-shot within its
\* TTL after it had passed the lock, whatever operator calls, expiries, other
\* executions and crashes fall between and within the two checks.
THEOREM LiveTradesHadGrants == LiveSpec => []LiveTradeHadGrant
  <1>1. LiveInit => GuardTypeOK /\ LiveInv
    BY InitFacts DEF LiveInit, GuardTypeOK, LiveInv, GuardInv, Stages
  <1>2. LiveInv => LiveTradeHadGrant
    BY DEF LiveInv, GuardInv, LiveTradeHadGrant
  <1>. QED  BY <1>1, <1>2, LiveType, LiveInvStep, PTL DEF LiveSpec

-----------------------------------------------------------------------------
(* The one-shot of an execution that was lost in a crash.                  *)

LEMMA GuardMoves ==
    ASSUME GuardTypeOK, NEW t \in Tasks, CheckSignal(t) \/ CheckOneShot(t)
    PROVE  Moves(t)
  <1>1. /\ pc \in [Threads -> TaskPC \union LoopPC]
        /\ snap \in [Threads -> Row]
        /\ t \in Threads
    BY DEF GuardTypeOK, TypeOK, Threads
  <1>2. CASE CheckSignal(t)
    BY <1>1, <1>2 DEF CheckSignal, Goto, Moves
  <1>3. CASE CheckOneShot(t)
    BY <1>1, <1>3 DEF CheckOneShot, Forget, Goto, Moves
  <1>. QED  BY <1>2, <1>3

LEMMA LiveLostStep ==
    ASSUME LiveStartup, GuardTypeOK, Numbered, LostInv, [LiveNext]_liveVars
    PROVE  /\ Numbered' /\ LostInv'
           /\ \A t \in Tasks : pc[t] = "lost" => pc'[t] = "lost" /\ under'[t] = under[t]
           /\ \A u \in Tasks : pc[u] = "decide" /\ pc'[u] = "running"
                             => lockFailed' = lockFailed
  <1>0. TypeOK /\ Tasks \subseteq Threads
    BY DEF GuardTypeOK, Threads
  <1>1. CASE [Next]_vars
    BY <1>0, <1>1, LostStep, LostStays, RunsOn
  <1>2. ASSUME NEW u \in Tasks, Moves(u)
        PROVE  /\ Numbered' /\ LostInv' /\ lockFailed' = lockFailed
               /\ \A t \in Tasks : pc[t] = "lost" => pc'[t] = "lost" /\ under'[t] = under[t]
    BY <1>0, <1>2, LostMoves DEF Moves
  <1>. QED
    BY <1>1, <1>2, LiveSteps, GuardMoves DEF liveVars, guarded

\* The same with the second check: on a live deployment nothing that the lock
\* check let through by the one-shot of an execution lost in a crash goes on,
\* as long as the startup lock of the running process did not fail.
THEOREM LostGrantsSpentLive == ASSUME LiveStartup PROVE LiveSpec => LostGrantIsSpent
  <1>1. GuardTypeOK /\ Numbered /\ LostInv /\ [LiveNext]_liveVars =>
           [\A t, u \in Tasks :
              /\ ~lockFailed
              /\ pc[t] = "lost"
              /\ under[t] # 0
              /\ pc[u] = "decide"
              /\ pc'[u] = "running"
              => under'[u] # under[t]]_vars
    <2>. SUFFICES ASSUME GuardTypeOK, Numbered, LostInv, [LiveNext]_liveVars,
                         NEW t \in Tasks, NEW u \in Tasks,
                         ~lockFailed, pc[t] = "lost", under[t] # 0,
                         pc[u] = "decide", pc'[u] = "running"
                  PROVE  under'[u] # under[t]
      OBVIOUS
    <2>1. /\ LostInv' /\ ~lockFailed'
          /\ pc'[t] = "lost" /\ under'[t] = under[t]
      BY LiveLostStep
    <2>2. under[t] \in LostGrants'
      BY <2>1 DEF LostGrants
    <2>. QED  BY <2>1, <2>2 DEF LostInv, NoLostGrant
  <1>2. LiveInit => GuardTypeOK /\ Numbered /\ LostInv
    BY InitFacts, LostInit DEF LiveInit, GuardTypeOK, Stages
  <1>3. GuardTypeOK /\ Numbered /\ LostInv /\ [LiveNext]_liveVars
           => GuardTypeOK' /\ Numbered' /\ LostInv'
    BY LiveType, LiveLostStep
  <1>. QED
    BY <1>1, <1>2, <1>3, PTL DEF LiveSpec, LostGrantIsSpent

=============================================================================
