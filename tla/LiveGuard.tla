------------------------------ MODULE LiveGuard ------------------------------
(***************************************************************************)
(* The execution of a signal on a live endpoint (app/live_guard.py):       *)
(* composed with RuntimeControl.  After the lock check at the head of      *)
(* Trader.execute, validate_live_guard_before_plan asks for the status     *)
(* once more, through effective_state with its reads and writes, and wants *)
(* an active one-shot.  The row may change between the two checks and      *)
(* within the second one.                                                  *)
(*                                                                         *)
(* What the guard demands of the deployment and of the signal itself is in *)
(* SignalRules; here a signal meets it or not.                             *)
(***************************************************************************)
EXTENDS RuntimeControl

CONSTANTS
    RequireOneShot,   \* LIVE_REQUIRE_ONE_SHOT
    Acceptable        \* the signals that meet every other demand

ASSUME GuardAssumption == RequireOneShot \in BOOLEAN /\ Acceptable \subseteq Tasks

VARIABLES
    guard,      \* how far the guard has come with each task
    metGrant    \* history: tasks whose second check met an instant with an
                \* active one-shot within its TTL

guarded == <<vars, guard>>
liveVars == <<guarded, metGrant>>

Stages == {"before", "checking", "rejected", "trading"}

GuardTypeOK ==
    /\ TypeOK
    /\ guard \in [Tasks -> Stages]
    /\ metGrant \subseteq Tasks

GuardIs(t, stage) == guard' = [guard EXCEPT ![t] = stage]

-----------------------------------------------------------------------------

\* validate_live_guard_before_plan, up to the one-shot
CheckSignal(t) ==
    /\ pc[t] = "running"
    /\ guard[t] = "before"
    /\ IF t \in Acceptable /\ RequireOneShot
       THEN GuardIs(t, "checking") /\ Goto(t, "es_read")
       ELSE /\ GuardIs(t, IF t \in Acceptable THEN "trading" ELSE "rejected")
            /\ UNCHANGED pc
    /\ UNCHANGED <<row, events, now, snap, call, under, ops, crashes, lockFailed>>

\* Mutant: an unlocked runtime will do.
CheckLock(t) ==
    /\ pc[t] = "decide"
    /\ guard[t] = "checking"
    /\ GuardIs(t, IF EffectiveLocked(snap[t]) THEN "rejected" ELSE "trading")
    /\ Goto(t, "running")
    /\ Forget(t)
    /\ UNCHANGED <<row, events, now, call, under, ops, crashes, lockFailed>>

\* is_one_shot_active, on the answer of status_payload
CheckOneShot(t) ==
    /\ pc[t] = "decide"
    /\ guard[t] = "checking"
    /\ GuardIs(t, IF OneShotActive(snap[t]) THEN "trading" ELSE "rejected")
    /\ Goto(t, "running")
    /\ Forget(t)
    /\ UNCHANGED <<row, events, now, call, under, ops, crashes, lockFailed>>

\* The execution is over once the guard has spoken, or the lock check has
\* turned it away.
LiveTaskStep(t) ==
    \/ CheckSignal(t)
    \/ CheckOneShot(t)
    \/ /\ \/ Begin(t)
          \/ EffectiveStateStep(t)
          \/ guard[t] = "before" /\ Decide(t)
          \/ (guard[t] \in {"rejected", "trading"} \/ pc[t] = "blocked") /\ Finish(t)
          \/ ConsumeRead(t)
          \/ ConsumeBefore(t)
          \/ ConsumeWrite(t)
          \/ ConsumeAfter(t)
          \/ ConsumeEvent(t)
       /\ UNCHANGED guard

-----------------------------------------------------------------------------

GrantInForce ==
    OneShotActive(row) /\ (row.shot.expires = Never \/ now < row.shot.expires)

LiveInit == Init /\ guard = [t \in Tasks |-> "before"] /\ metGrant = {}

LiveNext ==
    /\ \/ \E t \in Tasks : LiveTaskStep(t)
       \/ LoopStep /\ UNCHANGED guard
       \/ Tick /\ UNCHANGED guard
       \/ Crash /\ UNCHANGED guard
    /\ metGrant' = {t \in Tasks :
                      \/ t \in metGrant
                      \/ /\ guard'[t] = "checking" /\ pc'[t] \in Checking
                         /\ GrantInForce'}

\* A thread of the pool that has begun an execution keeps running.
LiveFairness == \A t \in Tasks : WF_guarded(pc[t] # "new" /\ LiveTaskStep(t))

LiveSpec == LiveInit /\ [][LiveNext]_liveVars /\ LiveFairness

-----------------------------------------------------------------------------
(* Properties.                                                             *)

\* A live execution trades only if, after it had passed the lock, a one-shot
\* was active and within its TTL: an unlocked runtime is not enough, and a
\* lock, a consumption or an expiry between the two checks stops it.
\* (docs/v6.4.4, LIVE_REQUIRE_ONE_SHOT; live_guard.py, is_one_shot_active)
LiveTradeHadGrant ==
    RequireOneShot => \A t \in Tasks : guard[t] = "trading" => t \in metGrant

=============================================================================
