--------------------------- MODULE RuntimeControl ---------------------------
(***************************************************************************)
(* The runtime lock and the one-shot unlock: the single row of the table   *)
(* runtime_state (app/storage.py, RuntimeControlStore), the methods of     *)
(* app/runtime_control.py that read and write it, and the threads that     *)
(* call them.                                                              *)
(*                                                                         *)
(* Every store method runs in one SQLite transaction under the store's     *)
(* lock, so it is one step; between two store calls of one method any      *)
(* other thread may run.  There are two kinds of threads: the event loop,  *)
(* which runs the HTTP handlers one at a time (they are async functions    *)
(* that never await after reading the body), and the executions            *)
(* (execute_background), which run in the thread pool side by side with    *)
(* the handlers and with each other.                                       *)
(*                                                                         *)
(* The module is about RUNTIME_CONTROL_ENABLED=true.  Between the check at *)
(* the head of Trader.execute and the consumption at the end of            *)
(* execute_background an execution trades; that body is the one step       *)
(* Finish here.                                                            *)
(***************************************************************************)
EXTENDS Integers, FiniteSets

CONSTANTS
    Tasks,        \* the accepted signals, one execute_background each
    TVTasks,      \* those for which is_tv_signal holds
    Loop,         \* the event-loop thread
    NoTask,       \* NULL in one_shot_consumed_by_signal_id
    Never,        \* NULL in locked_until and one_shot_expires_at
    Workers,      \* size of the thread pool that runs background tasks
    LiveStartup,  \* live endpoint with LIVE_FORCE_RUNTIME_LOCKED_ON_STARTUP
    TTLs,         \* values of ttl_seconds, in ticks
    MaxTime,      \* bound: last tick of the clock
    MaxOps,       \* bound: operator calls
    MaxCrashes    \* bound: process crashes

ASSUME ThreadAssumption == /\ TVTasks \subseteq Tasks
                           /\ Loop \notin Tasks
                           /\ NoTask \notin Tasks
ASSUME TimeAssumption == /\ Never \notin Nat
                         /\ TTLs \subseteq Nat \ {0}
                         /\ MaxTime \in Nat
ASSUME BoundAssumption == /\ Workers \in Nat \ {0}
                          /\ MaxOps \in Nat
                          /\ MaxCrashes \in Nat
                          /\ LiveStartup \in BOOLEAN

VARIABLES
    row,      \* the row of runtime_state
    events,   \* runtime_lock_events; a set, as no property reads its order
    now,      \* the wall clock
    pc,       \* where each thread is
    snap,     \* the state dict each thread last read
    call,     \* what the event loop is serving
    under,    \* history: the grant a task was admitted under, 0 for none
    ops,      \* operator calls so far; also numbers the one-shot grants
    crashes,  \* crashes so far
    lockFailed  \* history: the startup lock of the running process failed

vars == <<row, events, now, pc, snap, call, under, ops, crashes, lockFailed>>

Threads == Tasks \union {Loop}

Instant == Nat \union {Never}

Reasons == {"none", "manual", "startup", "consumed", "expired"}

\* one_shot_enabled, _remaining, _expires_at, _consumed_by_signal_id and
\* _consumed_at (set together); grant stands for one_shot_started_at.
OneShot == [enabled : BOOLEAN, remaining : {0, 1}, grant : Nat,
            expires : Instant, consumedBy : Tasks \union {NoTask}]

Row == [locked : BOOLEAN, reason : Reasons, until : Instant, shot : OneShot]

Event == [action : {"lock", "unlock", "unlock_once", "auto_expire",
                    "one_shot_expired", "one_shot_consumed"},
          by : Threads, grant : Nat]

Checking == {"es_read", "auto_expire", "auto_expire_event",
             "auto_expire_reread", "one_shot", "one_shot_event",
             "one_shot_reread", "decide"}

Consuming == {"consume_read", "consume_before", "consume_write",
              "consume_after", "consume_event"}

TaskPC == {"new", "running", "blocked", "done", "lost"}
             \union Checking \union Consuming

LoopPC == {"startup", "idle", "lock_event", "unlock_event",
           "unlock_once_event"} \union Checking

Calls == {"none", "startup", "lock", "unlock", "unlock_once", "status", "audit"}

TypeOK ==
    /\ row \in Row
    /\ events \subseteq Event
    /\ now \in Nat
    /\ pc \in [Threads -> TaskPC \union LoopPC]
    /\ pc[Loop] \in LoopPC
    /\ \A t \in Tasks : pc[t] \in TaskPC
    /\ snap \in [Threads -> Row]
    /\ call \in Calls
    /\ under \in [Tasks -> Nat]
    /\ ops \in Nat
    /\ crashes \in Nat
    /\ lockFailed \in BOOLEAN

-----------------------------------------------------------------------------
(* The statements of RuntimeControlStore, as functions of the row.         *)

\* _clear_one_shot_sql
ClearedOneShot == [enabled |-> FALSE, remaining |-> 0, grant |-> 0,
                   expires |-> Never, consumedBy |-> NoTask]

SetLocked(reason, until) ==
    [locked |-> TRUE, reason |-> reason, until |-> until,
     shot |-> ClearedOneShot]

SetUnlocked == [locked |-> FALSE, reason |-> "none", until |-> Never,
                shot |-> ClearedOneShot]

SetOneShotUnlock(grant, expires) ==
    [locked |-> FALSE, reason |-> "none", until |-> Never,
     shot |-> [enabled |-> TRUE, remaining |-> 1, grant |-> grant,
               expires |-> expires, consumedBy |-> NoTask]]

\* RuntimeControl._one_shot_active, and the WHERE clause of the two
\* statements that end a grant.
OneShotActive(r) == /\ r.shot.enabled
                    /\ r.shot.remaining > 0
                    /\ r.shot.consumedBy = NoTask

LockEndingGrant(r, reason, by) ==
    [locked |-> TRUE, reason |-> reason, until |-> Never,
     shot |-> [r.shot EXCEPT !.enabled = FALSE, !.remaining = 0,
                             !.consumedBy = by]]

\* Mutants: the UPDATE without its WHERE clause; the UPDATE that forgets
\* to set locked = 1.
ConsumeUnconditionally(r, t) == LockEndingGrant(r, "consumed", t)
ConsumeWithoutLocking(r, t) ==
    IF OneShotActive(r)
    THEN [LockEndingGrant(r, "consumed", t) EXCEPT !.locked = FALSE]
    ELSE r

\* Mutant: remaining is counted down, without a WHERE clause.
ConsumeByDecrement(r, t) ==
    [LockEndingGrant(r, "consumed", t)
        EXCEPT !.shot.remaining = r.shot.remaining - 1]

ConsumeOneShotAndLock(r, t) ==
    IF OneShotActive(r) THEN LockEndingGrant(r, "consumed", t) ELSE r

ExpireOneShotAndLock(r) ==
    IF OneShotActive(r) THEN LockEndingGrant(r, "expired", NoTask) ELSE r

\* RuntimeControl._with_effective_locked
EffectiveLocked(r) == r.locked /\ ~OneShotActive(r)

\* Mutant: locked_until is never looked at.
LockUntilIgnored(r) == FALSE

\* The conditions of _maybe_auto_expire and _maybe_expire_one_shot.
LockExpired(r) == r.locked /\ r.until # Never /\ now >= r.until

\* Mutant: the one-shot's TTL is never looked at.
OneShotTtlIgnored(r) == FALSE

OneShotExpired(r) == /\ OneShotActive(r)
                     /\ r.shot.expires # Never
                     /\ now >= r.shot.expires

Log(action, t, grant) ==
    events' = events \union {[action |-> action, by |-> t, grant |-> grant]}

Goto(t, label) == pc' = [pc EXCEPT ![t] = label]

Read(t) == snap' = [snap EXCEPT ![t] = row]

\* The method returns: its local state is gone.
Forget(t) == snap' = [snap EXCEPT ![t] = SetUnlocked]

-----------------------------------------------------------------------------
(* effective_state(), run by the executions (is_execution_blocked) and by  *)
(* the handlers (status_payload).                                          *)

ReadState(t) ==
    /\ pc[t] = "es_read"
    /\ Read(t)
    /\ Goto(t, "auto_expire")
    /\ UNCHANGED <<row, events, now, call, under, ops, crashes, lockFailed>>

\* _maybe_auto_expire: the decision is made on the row read earlier, the
\* write of set_unlocked is unconditional.
MaybeAutoExpire(t) ==
    /\ pc[t] = "auto_expire"
    /\ \/ /\ LockExpired(snap[t])
          /\ row' = SetUnlocked
          /\ Goto(t, "auto_expire_event")
       \/ /\ ~LockExpired(snap[t])
          /\ Goto(t, "one_shot")
          /\ UNCHANGED row
    /\ UNCHANGED <<events, now, snap, call, under, ops, crashes, lockFailed>>

AutoExpireEvent(t) ==
    /\ pc[t] = "auto_expire_event"
    /\ Log("auto_expire", t, 0)
    /\ Goto(t, "auto_expire_reread")
    /\ UNCHANGED <<row, now, snap, call, under, ops, crashes, lockFailed>>

AutoExpireReread(t) ==
    /\ pc[t] = "auto_expire_reread"
    /\ Read(t)
    /\ Goto(t, "one_shot")
    /\ UNCHANGED <<row, events, now, call, under, ops, crashes, lockFailed>>

\* _maybe_expire_one_shot
MaybeExpireOneShot(t) ==
    /\ pc[t] = "one_shot"
    /\ \/ /\ OneShotExpired(snap[t])
          /\ row' = ExpireOneShotAndLock(row)
          /\ Goto(t, "one_shot_event")
       \/ /\ ~OneShotExpired(snap[t])
          /\ Goto(t, "decide")
          /\ UNCHANGED row
    /\ UNCHANGED <<events, now, snap, call, under, ops, crashes, lockFailed>>

OneShotExpiredEvent(t) ==
    /\ pc[t] = "one_shot_event"
    /\ Log("one_shot_expired", t, snap[t].shot.grant)
    /\ Goto(t, "one_shot_reread")
    /\ UNCHANGED <<row, now, snap, call, under, ops, crashes, lockFailed>>

OneShotReread(t) ==
    /\ pc[t] = "one_shot_reread"
    /\ Read(t)
    /\ Goto(t, "decide")
    /\ UNCHANGED <<row, events, now, call, under, ops, crashes, lockFailed>>

EffectiveStateStep(t) ==
    \/ ReadState(t)
    \/ MaybeAutoExpire(t)
    \/ AutoExpireEvent(t)
    \/ AutoExpireReread(t)
    \/ MaybeExpireOneShot(t)
    \/ OneShotExpiredEvent(t)
    \/ OneShotReread(t)

-----------------------------------------------------------------------------
(* An execution: execute_background, in a thread of the pool.              *)

Busy == {t \in Tasks : pc[t] \notin {"new", "done", "lost"}}

ServerUp == pc[Loop] # "startup" /\ call # "startup"

\* A free worker picks the task up; Trader.execute starts with the check.
Begin(t) ==
    /\ pc[t] = "new"
    /\ ServerUp
    /\ Cardinality(Busy) < Workers
    /\ Goto(t, "es_read")
    /\ UNCHANGED <<row, events, now, snap, call, under, ops, crashes, lockFailed>>

\* The answer of is_execution_blocked.
Decide(t) ==
    /\ pc[t] = "decide"
    /\ \/ /\ EffectiveLocked(snap[t])
          /\ Goto(t, "blocked")
          /\ UNCHANGED under
       \/ /\ ~EffectiveLocked(snap[t])
          /\ Goto(t, "running")
          /\ under' = [under EXCEPT
                ![t] = IF OneShotActive(snap[t]) THEN snap[t].shot.grant ELSE 0]
    /\ Forget(t)
    /\ UNCHANGED <<row, events, now, call, ops, crashes, lockFailed>>

\* Mutant: the consumption at the end of the try block instead of in the
\* finally clause, so that an execution that raises skips it.
FinishConsumesOnSuccess(t) ==
    /\ pc[t] \in {"running", "blocked"}
    /\ \E success \in BOOLEAN :
          Goto(t, IF success /\ t \in TVTasks THEN "consume_read" ELSE "done")
    /\ UNCHANGED <<row, events, now, snap, call, under, ops, crashes, lockFailed>>

\* Trader.execute returns or raises; the finally clause of
\* execute_background consumes the one-shot of a TradingView signal.
Finish(t) ==
    /\ pc[t] \in {"running", "blocked"}
    /\ Goto(t, IF t \in TVTasks THEN "consume_read" ELSE "done")
    /\ UNCHANGED <<row, events, now, snap, call, under, ops, crashes, lockFailed>>

\* maybe_consume_one_shot_for_tv_signal
ConsumeRead(t) ==
    /\ pc[t] = "consume_read"
    /\ Goto(t, IF OneShotActive(row) THEN "consume_before" ELSE "done")
    /\ UNCHANGED <<row, events, now, snap, call, under, ops, crashes, lockFailed>>

ConsumeBefore(t) ==
    /\ pc[t] = "consume_before"
    /\ Read(t)
    /\ Goto(t, "consume_write")
    /\ UNCHANGED <<row, events, now, call, under, ops, crashes, lockFailed>>

ConsumeWrite(t) ==
    /\ pc[t] = "consume_write"
    /\ row' = ConsumeOneShotAndLock(row, t)
    /\ Goto(t, "consume_after")
    /\ UNCHANGED <<events, now, snap, call, under, ops, crashes, lockFailed>>

\* consumed: one_shot_consumed_at is set and differs from the one read
\* before the UPDATE.  A grant is consumed at one instant, so the pair
\* (grant, consumer) identifies it.
ConsumedSince(before, after) ==
    /\ after.shot.consumedBy # NoTask
    /\ \/ after.shot.consumedBy # before.shot.consumedBy
       \/ after.shot.grant # before.shot.grant

ConsumeAfter(t) ==
    /\ pc[t] = "consume_after"
    /\ \/ /\ ConsumedSince(snap[t], row)
          /\ Goto(t, "consume_event")
          /\ UNCHANGED snap
       \/ /\ ~ConsumedSince(snap[t], row)
          /\ Goto(t, "done")
          /\ Forget(t)
    /\ UNCHANGED <<row, events, now, call, under, ops, crashes, lockFailed>>

ConsumeEvent(t) ==
    /\ pc[t] = "consume_event"
    /\ Log("one_shot_consumed", t, snap[t].shot.grant)
    /\ Forget(t)
    /\ Goto(t, "done")
    /\ UNCHANGED <<row, now, call, under, ops, crashes, lockFailed>>

TaskStep(t) ==
    \/ Begin(t)
    \/ EffectiveStateStep(t)
    \/ Decide(t)
    \/ Finish(t)
    \/ ConsumeRead(t)
    \/ ConsumeBefore(t)
    \/ ConsumeWrite(t)
    \/ ConsumeAfter(t)
    \/ ConsumeEvent(t)

-----------------------------------------------------------------------------
(* The handlers, on the event loop.                                        *)

Accept(name) ==
    /\ pc[Loop] = "idle"
    /\ call' = name

OperatorCall(name) ==
    /\ Accept(name)
    /\ ops < MaxOps
    /\ ops' = ops + 1

\* POST /runtime/lock; locked_until must be in the future
LockCall ==
    /\ OperatorCall("lock")
    /\ \E until \in {Never} \union (now + 1 .. MaxTime) :
          row' = SetLocked("manual", until)
    /\ Goto(Loop, "lock_event")
    /\ UNCHANGED <<events, now, snap, under, crashes, lockFailed>>

\* After the event a lock call is answered; at startup the audit follows,
\* also when the event could not be written.
LockEvent ==
    /\ pc[Loop] = "lock_event"
    /\ \/ /\ call = "startup"
          /\ Log("lock", Loop, 0) \/ UNCHANGED events
          /\ Goto(Loop, "es_read")
          /\ UNCHANGED call
       \/ /\ call # "startup"
          /\ Log("lock", Loop, 0)
          /\ Goto(Loop, "idle")
          /\ call' = "none"
    /\ UNCHANGED <<row, now, snap, under, ops, crashes, lockFailed>>

\* POST /runtime/unlock
UnlockCall ==
    /\ OperatorCall("unlock")
    /\ row' = SetUnlocked
    /\ Goto(Loop, "unlock_event")
    /\ UNCHANGED <<events, now, snap, under, crashes, lockFailed>>

UnlockEvent ==
    /\ pc[Loop] = "unlock_event"
    /\ Log("unlock", Loop, 0)
    /\ Goto(Loop, "idle")
    /\ call' = "none"
    /\ UNCHANGED <<row, now, snap, under, ops, crashes, lockFailed>>

\* POST /runtime/unlock-once; its answer contains status_payload()
UnlockOnceCall ==
    /\ OperatorCall("unlock_once")
    /\ \E ttl \in TTLs : row' = SetOneShotUnlock(ops', now + ttl)
    /\ Goto(Loop, "unlock_once_event")
    /\ UNCHANGED <<events, now, snap, under, crashes, lockFailed>>

UnlockOnceEvent ==
    /\ pc[Loop] = "unlock_once_event"
    /\ Log("unlock_once", Loop, ops)
    /\ Goto(Loop, "es_read")
    /\ UNCHANGED <<row, now, snap, call, under, ops, crashes, lockFailed>>

\* GET /runtime/status and POST /reconcile/run both call status_payload()
QueryCall ==
    /\ \/ Accept("status")
       \/ Accept("audit")
    /\ Goto(Loop, "es_read")
    /\ UNCHANGED <<row, events, now, snap, under, ops, crashes, lockFailed>>

Answer ==
    /\ pc[Loop] = "decide"
    /\ Forget(Loop)
    /\ Goto(Loop, "idle")
    /\ call' = "none"
    /\ UNCHANGED <<row, events, now, under, ops, crashes, lockFailed>>

-----------------------------------------------------------------------------
(* The process and the clock.                                              *)

\* Mutant: a live deployment that starts without the safety lock.
StartupUnlocked ==
    /\ pc[Loop] = "startup"
    /\ call' = "startup"
    /\ Goto(Loop, "es_read")
    /\ UNCHANGED <<row, events, now, snap, under, ops, crashes, lockFailed>>

\* startup_safety_audit: ensure_live_startup_runtime_lock, then the audit.
\* Whatever the lock raises is logged and passed over: the server goes on
\* with the row as it was.
Startup ==
    /\ pc[Loop] = "startup"
    /\ call' = "startup"
    /\ \/ /\ LiveStartup
          /\ row' = SetLocked("startup", Never)
          /\ Goto(Loop, "lock_event")
          /\ UNCHANGED lockFailed
       \/ /\ LiveStartup
          /\ lockFailed' = TRUE
          /\ Goto(Loop, "es_read")
          /\ UNCHANGED row
       \/ /\ ~LiveStartup
          /\ Goto(Loop, "es_read")
          /\ UNCHANGED <<row, lockFailed>>
    /\ UNCHANGED <<events, now, snap, under, ops, crashes>>

\* The process dies: the row and the events stay, every thread is gone and
\* nothing resumes an execution that had begun.
Crash ==
    /\ crashes < MaxCrashes
    /\ crashes' = crashes + 1
    /\ pc' = [t \in Threads |->
                IF t = Loop THEN "startup"
                ELSE IF pc[t] \in {"new", "done"} THEN pc[t] ELSE "lost"]
    /\ snap' = [t \in Threads |-> SetUnlocked]
    /\ call' = "none"
    /\ lockFailed' = FALSE
    /\ UNCHANGED <<row, events, now, under, ops>>

Tick ==
    /\ now < MaxTime
    /\ now' = now + 1
    /\ UNCHANGED <<row, events, pc, snap, call, under, ops, crashes, lockFailed>>

-----------------------------------------------------------------------------

Init ==
    /\ row = SetUnlocked
    /\ events = {}
    /\ now = 0
    /\ pc = [t \in Threads |-> IF t = Loop THEN "startup" ELSE "new"]
    /\ snap = [t \in Threads |-> SetUnlocked]
    /\ call = "none"
    /\ under = [t \in Tasks |-> 0]
    /\ ops = 0
    /\ crashes = 0
    /\ lockFailed = FALSE

LoopStep ==
    \/ Startup
    \/ LockCall
    \/ LockEvent
    \/ UnlockCall
    \/ UnlockEvent
    \/ UnlockOnceCall
    \/ UnlockOnceEvent
    \/ QueryCall
    \/ EffectiveStateStep(Loop)
    \/ Answer

Next ==
    \/ \E t \in Tasks : TaskStep(t)
    \/ LoopStep
    \/ Tick
    \/ Crash

Spec == Init /\ [][Next]_vars

\* A thread of the pool that has begun an execution keeps running: nothing
\* it waits for here depends on another thread.  Neither the operator nor
\* the clock nor the arrival of signals is assumed to act.
Fairness ==
    \A t \in Tasks :
        /\ WF_vars(EffectiveStateStep(t) \/ Decide(t) \/ Finish(t))
        /\ WF_vars(ConsumeRead(t) \/ ConsumeBefore(t) \/ ConsumeWrite(t)
                     \/ ConsumeAfter(t) \/ ConsumeEvent(t))

FairSpec == Spec /\ Fairness

-----------------------------------------------------------------------------
(* Properties.                                                             *)

\* The columns of the row agree: an active one-shot is a grant of one use
\* with an expiry over an unlocked row, and a consumed or spent one-shot
\* leaves the row locked until somebody rewrites it.
\* (storage.py, the six UPDATE statements taken together)
OneShotRowConsistent ==
    /\ row.shot.enabled <=> row.shot.remaining = 1
    /\ row.shot.enabled =>
          ~row.locked /\ row.shot.expires # Never /\ row.shot.consumedBy = NoTask
    /\ row.shot.consumedBy # NoTask => row.locked
    /\ row.shot.grant # 0 /\ ~row.shot.enabled => row.locked

\* A lock written on behalf of a signal or of a TTL replaces an active
\* one-shot, never an operator's lock or unlock that came in between the
\* read and the write.  (the WHERE clauses of consume_one_shot_and_lock
\* and expire_one_shot_and_lock)
SystemLockReplacesGrant ==
    [][row' # row /\ row'.reason \in {"consumed", "expired"}
          => OneShotActive(row)]_vars

\* No two TradingView signals are let through by the same one-shot.
\* (README.md: only the next TradingView signal enters the execution chain)
OneShotAdmitsOneTvSignal ==
    \A t, u \in TVTasks : under[t] # 0 /\ under[t] = under[u] => t = u

\* When the clock takes a lock away, that lock had a locked_until and the
\* instant has passed.  (README.md: a lock whose locked_until has passed is
\* unlocked automatically)
AutoExpireOnlyExpiredLock ==
    [][\A t \in Threads :
          /\ pc[t] = "auto_expire"
          /\ pc'[t] = "auto_expire_event"
          /\ row.locked
          => LockExpired(row)]_vars

\* An execution that was lost in a crash takes its one-shot with it: on a
\* live deployment nothing is let through by that one-shot after a restart,
\* unless the startup lock of that restart raised.  Then the code promises
\* nothing: startup_safety_audit logs the error, the old one-shot stays
\* active in the row, and the next signal is let through by it.
\* (live_guard.py, ensure_live_startup_runtime_lock; main.py,
\* startup_safety_audit)
LostGrantIsSpent ==
    [][\A t, u \in Tasks :
          /\ ~lockFailed
          /\ pc[t] = "lost"
          /\ under[t] # 0
          /\ pc[u] = "decide"
          /\ pc'[u] = "running"
          => under'[u] # under[t]]_vars

\* Once a TradingView execution let through by a one-shot is over, that
\* one-shot is closed, whatever the execution's outcome was, unless the
\* process died under it.
\* (README.md: the system locks again whatever the outcome of the signal)
OneShotClosesAfterSignal ==
    \A t \in TVTasks :
        pc[t] = "running" /\ under[t] # 0
           ~> \/ pc[t] = "lost"
              \/ ~(OneShotActive(row) /\ row.shot.grant = under[t])

=============================================================================
