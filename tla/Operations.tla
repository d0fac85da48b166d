----------------------------- MODULE Operations -----------------------------
(***************************************************************************)
(* What works on the symbol of an execution from beside it: the requests   *)
(* of the operator that close a position or cancel orders                  *)
(* (close_position_maintenance and cleanup_symbol_orders of app/trader.py, *)
(* the endpoints of main.py and of app/dashboard_runtime_control.py), and  *)
(* the read-only inspections, the safety audit (app/reconcile.py) and the  *)
(* TradingView observation (app/tv_observation.py).                        *)
(*                                                                         *)
(* None of them takes a lock: a request is a series of calls to the        *)
(* exchange, an inspection a series of reads, and executions, fills and    *)
(* triggers happen between any two of them.  The event loop serves one of  *)
(* them at a time.  A request is one that passed the control token,        *)
(* assert_demo_maintenance_allowed and the symbol check.                   *)
(***************************************************************************)
EXTENDS TradeExecution

CONSTANTS
    Requests,        \* what the operator may ask for, a set of Request
    Backdrops,       \* what an inspection finds besides the symbol
    Leftovers,       \* sets of conditional orders that earlier executions,
                     \* whose position is gone, may have left
    StopShowsReduceOnly,  \* external: the exchange lists a close-position
                          \* stop as reduceOnly
    MaxRequests,     \* bound: requests served
    MaxInspections   \* bound: inspections begun

Request == [op : {"close", "cleanup", "cancel"}, before : BOOLEAN, after : BOOLEAN]

ReportLevels == {"OK", "WARN", "ERROR"}

\* The settings and the runtime row the audit reports on; the level of the
\* checks of an observation that are about its journal rows.
Backdrop == [control : BOOLEAN, locked : BOOLEAN, one_shot : BOOLEAN,
             env : {"demo", "live", "unknown"}, trading : BOOLEAN, rejects_live : BOOLEAN,
             observing : BOOLEAN, rows : ReportLevels]

ASSUME OperationsAssumption ==
    /\ Requests \subseteq Request
    /\ Backdrops \subseteq Backdrop
    /\ Leftovers \subseteq SUBSET Algo
    /\ StopShowsReduceOnly \in BOOLEAN
    /\ MaxRequests \in Nat
    /\ MaxInspections \in Nat

VARIABLES
    mpc,       \* where the request is, or the status it was answered with
    job,       \* the request
    held,      \* position_amt, the amount it last read
    failed,    \* cancel calls answered with an error
    advised,   \* history: it follows the advice of an audit
    alone,     \* history: no execution has been under way since it began
    requests,
    apc,       \* where the inspection is
    backdrop,
    view,      \* what it has read
    report,    \* the latest report
    exposed,   \* history: a position without a stop, for all of it
    undisturbed,  \* history: no execution has been under way since it began,
                  \* when no limit order was open
    inspections

maintenance == <<mpc, job, held, failed, advised, requests>>
inspection == <<apc, backdrop, view, report, inspections>>
history == <<alone, exposed, undisturbed>>
operations == <<vars, maintenance, inspection, history>>

Answered == {"position_closed", "position_close_incomplete",
             "no_position_cleanup_done", "close_order_failed", "cleaned",
             "cancelled", "error"}
Serving == {"read", "regular_before", "algo_before", "close", "settle",
            "regular_after", "algo_after", "look", "look_failed"}

View == [amount : Int, regular : BOOLEAN, algo : SUBSET Algo,
         unread : SUBSET {"position", "regular", "algo"}]
NothingRead == [amount |-> 0, regular |-> FALSE, algo |-> {}, unread |-> {}]

Inspections == {"audit", "observation"}
NoBackdrop == [by |-> "audit",
               seen |-> [control |-> FALSE, locked |-> FALSE, one_shot |-> FALSE,
                         env |-> "demo", trading |-> FALSE, rejects_live |-> FALSE,
                         observing |-> FALSE, rows |-> "OK"]]
Report == [by : Inspections \union {"nobody"}, level : ReportLevels,
           unprotected : BOOLEAN, residual : BOOLEAN,
           unread : SUBSET {"position", "regular", "algo"}]
NoReport == [by |-> "nobody", level |-> "OK", unprotected |-> FALSE,
             residual |-> FALSE, unread |-> {}]

OperationsTypeOK ==
    /\ TypeOK
    /\ mpc \in {"idle"} \union Serving \union Answered
    /\ job \in Request
    /\ held \in Int
    /\ failed \subseteq {"regular", "algo"}
    /\ advised \in BOOLEAN
    /\ alone \in BOOLEAN
    /\ requests \in 0..MaxRequests
    /\ apc \in {"idle", "position", "regular", "algo", "judge"}
    /\ backdrop \in [by : Inspections, seen : Backdrop]
    /\ view \in View
    /\ report \in Report
    /\ exposed \in BOOLEAN
    /\ undisturbed \in BOOLEAN
    /\ inspections \in 0..MaxInspections

-----------------------------------------------------------------------------
(* Maintenance.                                                            *)

\* The event loop, on which every handler runs to its end.
Free == mpc \in {"idle"} \union Answered /\ apc = "idle"

AskFor(request) ==
    /\ Free
    /\ requests < MaxRequests
    /\ requests' = requests + 1
    /\ job' = request
    /\ mpc' = IF request.op = "close" THEN "read" ELSE "regular_before"
    /\ failed' = {}
    /\ advised' = (report.residual /\ "position" \notin report.unread)
    /\ UNCHANGED <<vars, held, inspection>>

ReadHeldPosition ==
    /\ mpc = "read"
    /\ \/ /\ held' = position
          /\ mpc' = IF job.before \/ (job.after /\ position = 0) THEN "regular_before"
                    ELSE IF position = 0 THEN "look" ELSE "close"
          /\ UNCHANGED faults
       \/ Fails /\ mpc' = "error" /\ UNCHANGED held
    /\ UNCHANGED <<exchange, pc, local, blind, thin, job, failed, advised,
                   requests, inspection>>

\* After the first round of cancelling: a position is closed; without one,
\* and in a cleanup, only a last look is left.
AfterCancelling ==
    IF job.op = "cancel" THEN "cancelled"
    ELSE IF job.op = "close" /\ held # 0 THEN "close" ELSE "look"

\* cancel_symbol_open_orders, its two halves: an error is noted and passed
\* over.
NoteError(half) == failed' = IF faults' = faults THEN failed ELSE failed \union {half}

CancelRegularHalf ==
    /\ \/ mpc = "regular_before" /\ mpc' = "algo_before"
       \/ mpc = "regular_after" /\ mpc' = "algo_after"
    /\ \/ limit' = [t \in Tasks |-> 0] /\ (UNCHANGED faults \/ Fails)
       \/ UNCHANGED limit /\ Fails
    /\ NoteError("regular")
    /\ UNCHANGED <<position, algo, bought, pc, local, blind, thin, job, held,
                   advised, requests, inspection>>

\* The status after the second round was decided before it.
CancelAlgoHalf ==
    /\ \/ mpc = "algo_before" /\ mpc' = AfterCancelling
       \/ /\ mpc = "algo_after"
          /\ mpc' = IF held = 0 THEN "position_closed" ELSE "position_close_incomplete"
    /\ \/ algo' = {} /\ (UNCHANGED faults \/ Fails)
       \/ UNCHANGED algo /\ Fails
    /\ NoteError("algo")
    /\ UNCHANGED <<position, limit, bought, pc, local, blind, thin, job, held,
                   advised, requests, inspection>>

\* Mutant: the order that closes is not reduce-only.
CloseHeldUncapped ==
    /\ mpc = "close"
    /\ position' = position - held
    /\ mpc' = "settle"
    /\ UNCHANGED <<limit, algo, bought, pc, local, bounds, job, held, failed,
                   advised, requests, inspection>>

\* close_position_market for the amount read before; it may fill in part.
\* Whatever it raises is caught.
CloseHeld ==
    /\ mpc = "close"
    /\ \/ /\ Sign(position) = Sign(held)
          /\ \E n \in 0..Least(Abs(held), Abs(position)) :
                position' = position - Sign(position) * n
          /\ \/ mpc' = "settle" /\ UNCHANGED faults
             \/ mpc' = "look_failed" /\ Fails
       \/ /\ FailsUnless(Sign(position) # Sign(held))
          /\ mpc' = "look_failed"
          /\ UNCHANGED position
    /\ UNCHANGED <<limit, algo, bought, pc, local, blind, thin, job, held, failed,
                   advised, requests, inspection>>

\* Mutant: an order that was accepted is taken for a closed position.
TrustClose ==
    /\ mpc = "settle"
    /\ held' = 0
    /\ mpc' = IF job.after THEN "regular_after" ELSE "position_closed"
    /\ UNCHANGED <<vars, job, failed, advised, requests, inspection>>

\* _wait_for_position_zero and the read after it, which decides the status.
SettleClose ==
    /\ mpc = "settle"
    /\ \/ /\ held' = position
          /\ mpc' = IF job.after THEN "regular_after"
                    ELSE IF position = 0 THEN "position_closed"
                    ELSE "position_close_incomplete"
          /\ UNCHANGED faults
       \/ Fails /\ mpc' = "error" /\ UNCHANGED held
    /\ UNCHANGED <<exchange, pc, local, blind, thin, job, failed, advised,
                   requests, inspection>>

\* The last read only goes into the answer; when it raises there is none.
LastLook ==
    /\ mpc \in {"look", "look_failed"}
    /\ \/ /\ mpc' = IF mpc = "look_failed" THEN "close_order_failed"
                    ELSE IF job.op = "cleanup" THEN "cleaned"
                    ELSE "no_position_cleanup_done"
          /\ UNCHANGED faults
       \/ Fails /\ mpc' = "error"
    /\ UNCHANGED <<exchange, pc, local, blind, thin, job, held, failed,
                   advised, requests, inspection>>

Maintenance ==
    \/ \E request \in Requests : AskFor(request)
    \/ ReadHeldPosition
    \/ CancelRegularHalf
    \/ CancelAlgoHalf
    \/ CloseHeld
    \/ SettleClose
    \/ LastLook

-----------------------------------------------------------------------------
(* Inspections.                                                            *)

StartInspection(kind, found) ==
    /\ Free
    /\ inspections < MaxInspections
    /\ inspections' = inspections + 1
    /\ backdrop' = [by |-> kind, seen |-> found]
    /\ view' = NothingRead
    /\ apc' = "position"
    /\ UNCHANGED <<vars, maintenance, report>>

Unread(what) == view' = [view EXCEPT !.unread = @ \union {what}]

\* The observation gives up its reads when this one fails, without a word.
ReadPositionView ==
    /\ apc = "position"
    /\ \/ /\ view' = [view EXCEPT !.amount = position]
          /\ apc' = IF backdrop.by = "audit" THEN "regular" ELSE "algo"
          /\ UNCHANGED faults
       \/ /\ Fails
          /\ Unread("position")
          /\ apc' = IF backdrop.by = "audit" THEN "regular" ELSE "judge"
    /\ UNCHANGED <<exchange, pc, local, blind, thin, maintenance, backdrop,
                   report, inspections>>

OrdersOpen == \E t \in Tasks : limit[t] > 0

ReadRegularView ==
    /\ apc = "regular"
    /\ \/ /\ view' = [view EXCEPT !.regular = OrdersOpen]
          /\ UNCHANGED faults
       \/ Fails /\ Unread("regular")
    /\ apc' = "algo"
    /\ UNCHANGED <<exchange, pc, local, blind, thin, maintenance, backdrop,
                   report, inspections>>

ReadAlgoView ==
    /\ apc = "algo"
    /\ \/ view' = [view EXCEPT !.algo = algo] /\ UNCHANGED faults
       \/ Fails /\ Unread("algo")
    /\ apc' = "judge"
    /\ UNCHANGED <<exchange, pc, local, blind, thin, maintenance, backdrop,
                   report, inspections>>

Stops(v) == {order \in v.algo : order.kind = "stop"}
TakeProfits(v) == v.algo \ Stops(v)

\* Mutant: any conditional order is taken for protection.
UnprotectedWithoutOrders(v) == v.amount # 0 /\ v.algo = {}

\* missing_stop_loss, tv_unprotected_position: the side is not looked at
Unprotected(v) == v.amount # 0 /\ Stops(v) = {}

\* protection_side_mismatch, protection_reduce_only
WrongSideOrder(v) == \E order \in v.algo : order.guards # Sign(v.amount)
NotReduceOnly(v) == Stops(v) # {} /\ ~StopShowsReduceOnly

\* take_profit_quantity_low, _high: only for a position with several levels,
\* each of one unit here; within 2% below and 5% (an error: 20%) above.
Levels(v) == Cardinality(TakeProfits(v))
TooLittleTaken(v) == Levels(v) > 1 /\ 100 * Levels(v) < 98 * Abs(v.amount)
TooMuchTaken(v, percent) == Levels(v) > 1 /\ 100 * Levels(v) > percent * Abs(v.amount)

\* Mutant: a stop is a stop, on whatever side.
SymbolErrorSideBlind(v) ==
    \/ "position" \in v.unread
    \/ v.amount # 0 /\ Stops(v) = {}

SymbolError(v) ==
    \/ "position" \in v.unread
    \/ /\ v.amount # 0
       /\ \/ Unprotected(v)
          \/ v.algo = {}
          \/ WrongSideOrder(v)
          \/ NotReduceOnly(v)
          \/ TooMuchTaken(v, 120)

\* Mutant: whatever has no take profit is a residue.
ResidualWithoutTakeProfit(v) == TakeProfits(v) = {} /\ v.algo # {}

\* residual_regular_orders, residual_algo_orders: with the advice to clean up
Residual(v) == v.amount = 0 /\ (v.regular \/ v.algo # {})

SymbolWarning(v) ==
    \/ v.unread \intersect {"regular", "algo"} # {}
    \/ Residual(v)
    \/ /\ v.amount # 0
       /\ \/ TakeProfits(v) = {}
          \/ TooLittleTaken(v)
          \/ TooMuchTaken(v, 105)

\* _aggregate_level
Level(error, warning) == IF error THEN "ERROR" ELSE IF warning THEN "WARN" ELSE "OK"

AuditLevel(found, v) ==
    Level(\/ ~found.control \/ ~found.locked \/ found.env # "demo"
          \/ SymbolError(v),
          \/ found.one_shot \/ found.trading \/ ~found.rejects_live
          \/ SymbolWarning(v))

\* Without TV_ALERT_OBSERVATION_ENABLED there is one check, a warning.
ObservationLevel(found, v) ==
    IF ~found.observing THEN "WARN"
    ELSE Level(Unprotected(v) \/ found.rows = "ERROR",
               (found.control /\ found.locked) \/ found.rows = "WARN" \/ found.env = "live")

\* _build_report and _store_report; the end of build_tv_observation.
Judgement ==
    /\ apc = "judge"
    /\ report' = [by |-> backdrop.by,
                  level |-> IF backdrop.by = "audit" THEN AuditLevel(backdrop.seen, view)
                            ELSE ObservationLevel(backdrop.seen, view),
                  unprotected |-> Unprotected(view),
                  residual |-> backdrop.by = "audit" /\ Residual(view),
                  unread |-> view.unread]
    /\ apc' = "idle"
    /\ view' = NothingRead
    /\ backdrop' = NoBackdrop
    /\ UNCHANGED <<vars, maintenance, inspections>>

Reading == ReadPositionView \/ ReadRegularView \/ ReadAlgoView \/ Judgement

-----------------------------------------------------------------------------

OperationsInit ==
    /\ \E orders \in Leftovers : InitWith(orders)
    /\ mpc = "idle"
    /\ job = [op |-> "close", before |-> TRUE, after |-> TRUE]
    /\ held = 0
    /\ failed = {}
    /\ advised = FALSE
    /\ alone = FALSE
    /\ requests = 0
    /\ apc = "idle"
    /\ backdrop = NoBackdrop
    /\ view = NothingRead
    /\ report = NoReport
    /\ exposed = FALSE
    /\ undisturbed = FALSE
    /\ inspections = 0

\* What has held since the latest request, or inspection, began.
AskedNow == requests' # requests
InspectedNow == inspections' # inspections

History ==
    /\ alone' = (Busy' = {} /\ (alone \/ AskedNow))
    /\ exposed' = /\ ~Covered'
                  /\ InspectedNow \/ (exposed /\ Sign(position') = Sign(position))
    /\ undisturbed' = (Busy' = {} /\ (undisturbed \/ (InspectedNow /\ ~OrdersOpen)))

OperationsNext ==
    /\ \/ Next /\ UNCHANGED <<maintenance, inspection>>
       \/ Maintenance
       \/ \E kind \in Inspections, found \in Backdrops : StartInspection(kind, found)
       \/ Reading
    /\ History

OperationsSpec == OperationsInit /\ [][OperationsNext]_operations

-----------------------------------------------------------------------------
(* Properties.                                                             *)

\* The market order of a maintenance close only ever takes from the
\* position: whatever stopped out, filled or turned between the read of the
\* amount and the order, it neither reverses the position nor adds to it.
\* (trader.py, close_position_maintenance; binance_client.py,
\* close_position_market)
MaintenanceOnlyReduces ==
    [][mpc = "close" /\ mpc' # "close"
       => \/ position' = position
          \/ position' \in 0..position
          \/ position' \in position..0]_operations

\* A close answered with position_closed, whose cancels before the close
\* went through and beside which, up to now, no execution was under way,
\* leaves no position and no order: a partial fill or a trigger on the way
\* does not hide behind the status.  Of an execution that does run beside it
\* nothing is said: the close holds none back.
\* (trader.py, close_position_maintenance)
ClosedLeavesNothing ==
    /\ mpc = "position_closed"
    /\ job.before
    /\ alone
    /\ failed = {}
    => /\ position = 0
       /\ algo = {}
       /\ \A t \in Tasks : limit[t] = 0

\* A position that has no stop on its side from the beginning of an audit to
\* its end makes that report an ERROR, although the three reads are apart,
\* any of them may fail, and an old stop of the other side may be listed.
\* (reconcile.py, _build_report)
AuditReportsExposure ==
    [][apc = "judge" /\ apc' # "judge" /\ backdrop.by = "audit" /\ exposed
       => report'.level = "ERROR"]_operations

\* The observation says so too, provided it is enabled, could read the
\* position, and no stop of the other side is listed.
\* (tv_observation.py, build_tv_observation)
ObservationReportsExposure ==
    [][/\ apc = "judge" /\ apc' # "judge" /\ backdrop.by = "observation" /\ exposed
       /\ backdrop.seen.observing
       /\ view.unread = {}
       /\ ~WrongSideOrder(view)
       => report'.level = "ERROR"]_operations

\* A cleanup that follows the advice of an audit takes no stop away from an
\* open position, when the audit could read the position, no limit order was
\* open as it began, and no execution has been under way since.  That is all
\* the advice is worth: it is as old as the audit and the cleanup does not
\* look at the position, so that of one opened in between, by a signal or by
\* a limit order left behind, it does cancel the stop.
\* (reconcile.py, the advice of residual_algo_orders; trader.py,
\* cleanup_symbol_orders)
AdvisedCleanupStripsNothing ==
    [][mpc = "algo_before" /\ mpc' # mpc /\ advised /\ undisturbed /\ Covered
       => Covered']_operations

=============================================================================
