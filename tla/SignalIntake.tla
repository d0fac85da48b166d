---------------------------- MODULE SignalIntake ----------------------------
(***************************************************************************)
(* From the webhook to the settled signal: POST /tradingview and           *)
(* execute_background (main.py), SignalStore and TradeJournalStore         *)
(* (app/storage.py) and TradeJournal (app/journal.py).                     *)
(*                                                                         *)
(* The webhook handler runs on the event loop and does not await between   *)
(* its store calls, so two deliveries never interleave; a background       *)
(* execution runs in the thread pool and interleaves with deliveries of    *)
(* its own and of other keys.  Each store call is one SQLite transaction.  *)
(*                                                                         *)
(* Deliveries that change nothing (bad JSON, 401, 422) are not actions.    *)
(***************************************************************************)
EXTENDS Naturals

CONSTANTS
    Keys,        \* signal keys: signal_id, or the hash of the payload
    TVKeys,      \* those of TradingView signals, with the sandbox enabled
    NoKey,
    MaxFaults,   \* bound: store calls of executions that raise
    MaxCrashes   \* bound: process crashes

ASSUME KeyAssumption == TVKeys \subseteq Keys /\ NoKey \notin Keys
ASSUME BoundAssumption == MaxFaults \in Nat /\ MaxCrashes \in Nat

VARIABLES
    signals,   \* signals.status by key, "absent" without a row
    journal,   \* the row of trade_executions by key
    handler,   \* the delivery being handled, and where the handler is
    pc,        \* where execute_background is, by key
    ended,     \* how Trader.execute ended: "returned", "dry_run", "raised"
    traded,    \* history: the execution submitted orders
    faults,
    crashes

vars == <<signals, journal, handler, pc, ended, traded, faults, crashes>>

Statuses == {"absent", "received", "done", "failed"}
RowKinds == {"none", "execution", "failure", "rejection", "duplicate"}
HandlerAt == {"idle", "exists", "mark", "respond", "duplicate",
              "reject_exists", "reject_mark", "reject_journal", "reject_failed"}
TaskPC == {"none", "queued", "executing", "persist", "persist_orders",
           "mark_done", "persist_failure", "failure_orders", "mark_failed",
           "finished", "lost"}

TypeOK ==
    /\ signals \in [Keys -> Statuses]
    /\ journal \in [Keys -> [kind : RowKinds, orders : BOOLEAN]]
    /\ handler \in [at : HandlerAt, key : Keys \union {NoKey}]
    /\ handler.at # "idle" => handler.key \in Keys
    /\ pc \in [Keys -> TaskPC]
    /\ ended \in [Keys -> {"none", "returned", "dry_run", "raised"}]
    /\ traded \in [Keys -> BOOLEAN]
    /\ faults \in Nat
    /\ crashes \in Nat

-----------------------------------------------------------------------------

\* Mutant: only signals that are still pending count as known.
PendingOnly(k) == signals[k] = "received"

\* The key has a row: SignalStore.exists, and the primary key that makes
\* the INSERT of mark_received fail.
Known(k) == signals[k] # "absent"

Idle == [at |-> "idle", key |-> NoKey]

At(label) == handler.at = label

HandlerGoto(label) == handler' = [handler EXCEPT !.at = label]

Goto(k, label) == pc' = [pc EXCEPT ![k] = label]

SetStatus(k, status) == signals' = [signals EXCEPT ![k] = status]

\* Mutant: INSERT OR REPLACE
ReplaceRow(k, kind) ==
    journal' = [journal EXCEPT ![k] = [kind |-> kind, orders |-> FALSE]]

\* insert_execution under UNIQUE(signal_key): a second row for the key
\* raises, and every caller swallows the exception.
InsertRow(k, kind) ==
    IF journal[k].kind = "none"
    THEN journal' = [journal EXCEPT ![k] = [kind |-> kind, orders |-> FALSE]]
    ELSE UNCHANGED journal

Inserted(k, kind) == journal[k].kind = "none" /\ InsertRow(k, kind)

\* A store call of an execution raises instead of taking effect.
Fault == faults < MaxFaults /\ faults' = faults + 1

-----------------------------------------------------------------------------
(* POST /tradingview                                                       *)

\* A payload that passes validation and carries the right secret.
DeliverValid(k) ==
    /\ At("idle")
    /\ handler' = [at |-> "exists", key |-> k]
    /\ UNCHANGED <<signals, journal, pc, ended, traded, faults, crashes>>

\* A TradingView payload that validate_tv_payload, the position strategy or
\* the schema rejects.  The same key may have been, or may later be,
\* delivered with a valid payload.
DeliverRejected(k) ==
    /\ At("idle")
    /\ k \in TVKeys
    /\ handler' = [at |-> "reject_exists", key |-> k]
    /\ UNCHANGED <<signals, journal, pc, ended, traded, faults, crashes>>

CheckExists ==
    /\ At("exists")
    /\ IF Known(handler.key)
       THEN IF handler.key \in TVKeys
            THEN HandlerGoto("duplicate")
            ELSE handler' = Idle
       ELSE HandlerGoto("mark")
    /\ UNCHANGED <<signals, journal, pc, ended, traded, faults, crashes>>

\* persist_duplicate_signal
PersistDuplicate ==
    /\ At("duplicate")
    /\ InsertRow(handler.key, "duplicate")
    /\ handler' = Idle
    /\ UNCHANGED <<signals, pc, ended, traded, faults, crashes>>

\* mark_received; the INSERT raises on a key that has a row
MarkReceived ==
    /\ At("mark")
    /\ IF Known(handler.key)
       THEN handler' = Idle /\ UNCHANGED signals
       ELSE SetStatus(handler.key, "received") /\ HandlerGoto("respond")
    /\ UNCHANGED <<journal, pc, ended, traded, faults, crashes>>

\* The response is sent, then the background task is started.
Respond ==
    /\ At("respond")
    /\ Goto(handler.key, "queued")
    /\ handler' = Idle
    /\ UNCHANGED <<signals, journal, ended, traded, faults, crashes>>

\* _persist_tv_rejection: exists, mark_received, the journal, mark_failed
RejectExists ==
    /\ At("reject_exists")
    /\ IF Known(handler.key)
       THEN handler' = Idle
       ELSE HandlerGoto("reject_mark")
    /\ UNCHANGED <<signals, journal, pc, ended, traded, faults, crashes>>

RejectMark ==
    /\ At("reject_mark")
    /\ SetStatus(handler.key, "received")
    /\ HandlerGoto("reject_journal")
    /\ UNCHANGED <<journal, pc, ended, traded, faults, crashes>>

\* Without a symbol or a side the INSERT violates NOT NULL, which the
\* journal swallows: there is no row.
RejectJournal ==
    /\ At("reject_journal")
    /\ InsertRow(handler.key, "rejection") \/ UNCHANGED journal
    /\ HandlerGoto("reject_failed")
    /\ UNCHANGED <<signals, pc, ended, traded, faults, crashes>>

RejectFailed ==
    /\ At("reject_failed")
    /\ SetStatus(handler.key, "failed")
    /\ handler' = Idle
    /\ UNCHANGED <<journal, pc, ended, traded, faults, crashes>>

HandlerStep ==
    \/ CheckExists
    \/ PersistDuplicate
    \/ MarkReceived
    \/ Respond
    \/ RejectExists
    \/ RejectMark
    \/ RejectJournal
    \/ RejectFailed

-----------------------------------------------------------------------------
(* execute_background                                                      *)

Start(k) ==
    /\ pc[k] = "queued"
    /\ Goto(k, "executing")
    /\ UNCHANGED <<signals, journal, handler, ended, traded, faults, crashes>>

\* Trader.execute returns a result (which is a dry run, or has orders or
\* none) or raises (before or after it has submitted orders).
Execute(k) ==
    /\ pc[k] = "executing"
    /\ \E how \in {"returned", "dry_run", "raised"}, orders \in BOOLEAN :
          /\ how = "dry_run" => ~orders
          /\ ended' = [ended EXCEPT ![k] = how]
          /\ traded' = [traded EXCEPT ![k] = orders]
          /\ Goto(k, IF how = "raised" THEN "persist_failure" ELSE "persist")
    /\ UNCHANGED <<signals, journal, handler, faults, crashes>>

\* persist_execution: nothing for a dry run; else the row, and if it could
\* be inserted its orders.  Exceptions are swallowed.
Persist(k) ==
    /\ pc[k] = "persist"
    /\ \/ /\ ended[k] = "returned"
          /\ Inserted(k, "execution")
          /\ Goto(k, "persist_orders")
          /\ UNCHANGED faults
       \/ /\ ended[k] = "dry_run" \/ journal[k].kind # "none"
          /\ Goto(k, "mark_done")
          /\ UNCHANGED <<journal, faults>>
       \/ /\ Fault
          /\ Goto(k, "mark_done")
          /\ UNCHANGED journal
    /\ UNCHANGED <<signals, handler, ended, traded, crashes>>

InsertOrders(k) ==
    journal' = [journal EXCEPT ![k].orders = traded[k]]

PersistOrders(k) ==
    /\ pc[k] = "persist_orders"
    /\ \/ InsertOrders(k) /\ UNCHANGED faults
       \/ Fault /\ UNCHANGED journal
    /\ Goto(k, "mark_done")
    /\ UNCHANGED <<signals, handler, ended, traded, crashes>>

MarkDone(k) ==
    /\ pc[k] = "mark_done"
    /\ \/ SetStatus(k, "done") /\ Goto(k, "finished") /\ UNCHANGED faults
       \/ Fault /\ Goto(k, "persist_failure") /\ UNCHANGED signals
    /\ UNCHANGED <<journal, handler, ended, traded, crashes>>

\* Mutant: an exception that is logged and not recorded.
FailureNotMarked(k) ==
    /\ pc[k] = "persist_failure"
    /\ InsertRow(k, "failure")
    /\ Goto(k, "finished")
    /\ UNCHANGED <<signals, handler, ended, traded, faults, crashes>>

\* persist_failure: a row, and the orders of the result if there is one.
\* When Trader.execute itself raised there is no result.
PersistFailure(k) ==
    /\ pc[k] = "persist_failure"
    /\ \/ /\ Inserted(k, "failure")
          /\ Goto(k, IF ended[k] = "raised" THEN "mark_failed"
                                            ELSE "failure_orders")
          /\ UNCHANGED faults
       \/ /\ journal[k].kind # "none"
          /\ Goto(k, "mark_failed")
          /\ UNCHANGED <<journal, faults>>
       \/ /\ Fault
          /\ Goto(k, "mark_failed")
          /\ UNCHANGED journal
    /\ UNCHANGED <<signals, handler, ended, traded, crashes>>

FailureOrders(k) ==
    /\ pc[k] = "failure_orders"
    /\ \/ InsertOrders(k) /\ UNCHANGED faults
       \/ Fault /\ UNCHANGED journal
    /\ Goto(k, "mark_failed")
    /\ UNCHANGED <<signals, handler, ended, traded, crashes>>

\* Mutant: a status that no reader of the table knows.
MarkFailedAsError(k) ==
    /\ pc[k] = "mark_failed"
    /\ SetStatus(k, "error")
    /\ Goto(k, "finished")
    /\ UNCHANGED <<journal, handler, ended, traded, faults, crashes>>

\* mark_failed; if it raises, the exception leaves execute_background
MarkFailed(k) ==
    /\ pc[k] = "mark_failed"
    /\ \/ SetStatus(k, "failed") /\ UNCHANGED faults
       \/ Fault /\ UNCHANGED signals
    /\ Goto(k, "finished")
    /\ UNCHANGED <<journal, handler, ended, traded, crashes>>

TaskStep(k) ==
    \/ Start(k)
    \/ Execute(k)
    \/ Persist(k)
    \/ PersistOrders(k)
    \/ MarkDone(k)
    \/ PersistFailure(k)
    \/ FailureOrders(k)
    \/ MarkFailed(k)

-----------------------------------------------------------------------------

\* The tables survive; the handler, the queued and the running tasks do not.
\* Nothing reads signals in state received when the process starts again.
Crash ==
    /\ crashes < MaxCrashes
    /\ crashes' = crashes + 1
    /\ handler' = Idle
    /\ pc' = [k \in Keys |->
                IF pc[k] \in {"none", "finished"} THEN pc[k] ELSE "lost"]
    /\ UNCHANGED <<signals, journal, ended, traded, faults>>

Init ==
    /\ signals = [k \in Keys |-> "absent"]
    /\ journal = [k \in Keys |-> [kind |-> "none", orders |-> FALSE]]
    /\ handler = Idle
    /\ pc = [k \in Keys |-> "none"]
    /\ ended = [k \in Keys |-> "none"]
    /\ traded = [k \in Keys |-> FALSE]
    /\ faults = 0
    /\ crashes = 0

Next ==
    \/ \E k \in Keys : DeliverValid(k) \/ DeliverRejected(k)
    \/ HandlerStep
    \/ \E k \in Keys : TaskStep(k)
    \/ Crash

Spec == Init /\ [][Next]_vars

\* A handler that has started and a thread of the pool keep running.
\* Deliveries and crashes are not assumed to happen.
Fairness == WF_vars(HandlerStep) /\ \A k \in Keys : WF_vars(TaskStep(k))

FairSpec == Spec /\ Fairness

-----------------------------------------------------------------------------
(* Properties.                                                             *)

\* What a key has come to, in the words of SignalLedger.
FateOf(k) ==
    IF pc[k] = "queued" \/ (At("respond") /\ handler.key = k) THEN "owed"
    ELSE IF pc[k] = "none" THEN IF Known(k) THEN "dropped" ELSE "unknown"
    ELSE IF pc[k] = "finished" THEN "settled"
    ELSE IF pc[k] = "lost" THEN "dropped"
    ELSE "running"

Ledger == INSTANCE SignalLedger WITH fate <- [k \in Keys |-> FateOf(k)]

\* Every key is executed at most once, however often it is delivered, with
\* whatever payloads, and across restarts.
\* (main.py, tradingview_webhook: exists, mark_received, add_task)
ExecutedAtMostOnce == Ledger!Spec

\* A signal's status and its journal row agree once it is over, unless a
\* store call has raised: done exactly when Trader.execute returned, and a
\* returned execution that was not a dry run has its orders in the journal
\* unless a duplicate delivery has taken its row.
StatusAndJournalAgree ==
    \A k \in Keys :
        pc[k] = "finished" /\ faults = 0 =>
            /\ signals[k] = (IF ended[k] = "raised" THEN "failed" ELSE "done")
            /\ journal[k].kind = "execution" => ended[k] = "returned"
            /\ traded[k] /\ ended[k] = "returned" =>
                  journal[k].orders \/ journal[k].kind = "duplicate"

\* The first row written for a key stays: nothing that arrives later
\* rewrites the record of what was executed.
\* (storage.py: UNIQUE(signal_key) and plain INSERT)
JournalRowKept ==
    [][\A k \in Keys : journal[k].kind # "none"
          => journal'[k].kind = journal[k].kind]_vars

\* A signal that was received is settled, unless the process died or the
\* database failed.
\* (main.py, execute_background: mark_done or mark_failed on every path)
ReceivedIsSettled ==
    \A k \in Keys :
        signals[k] = "received"
           ~> signals[k] # "received" \/ crashes > 0 \/ faults > 0

\* A duplicate delivery leaves no trace in the journal, so the row of a
\* signal that was executed is the row of its execution.
\* (README.md: duplicate signals are intercepted and not written)
ExecutedRowIsNotDuplicate ==
    \A k \in Keys : pc[k] = "finished" => journal[k].kind # "duplicate"

=============================================================================
