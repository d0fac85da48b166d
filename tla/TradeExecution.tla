--------------------------- MODULE TradeExecution ---------------------------
(***************************************************************************)
(* Trader.execute (app/trader.py) from the first order-related call to its *)
(* return, on one symbol, against the exchange.                            *)
(*                                                                         *)
(* Executions run in the threads of a pool and share nothing but the       *)
(* exchange: every call of BinanceClient is one step, and between two      *)
(* calls the other executions and the market may act.  A call that fails   *)
(* either was rejected (BinanceAPIError, no effect) or lost its answer     *)
(* (any other exception; the effect may or may not have happened).         *)
(*                                                                         *)
(* The position is a signed number of units.  A plan is for PlanQty units; *)
(* a take profit closes one unit.  Under a risk mode a unit stands for the *)
(* same share of the plan's target risk, which is what the recalculation   *)
(* of a fallback keeps.  Under the manual mode it is a quantity, and the   *)
(* plan's notional buys more or fewer units at another price.  Prices are  *)
(* left out: a price check is a choice.                                    *)
(***************************************************************************)
EXTENDS Integers, FiniteSets

CONSTANTS
    Tasks,           \* the executions
    Signals,         \* what they may be asked to do, a set of Signal
    PlanQty,         \* units of a plan
    ManualQty,       \* most units a manual plan's notional buys later on
    EmergencyClose,  \* EMERGENCY_CLOSE_ON_PROTECTION_FAIL
    Workers,         \* size of the thread pool
    MaxThin,         \* bound: market orders that fill only in part
    MaxFaults        \* bound: calls to the exchange that fail

ASSUME QtyAssumption == PlanQty \in Nat \ {0} /\ ManualQty \in Nat
ASSUME BoundAssumption ==
    /\ Workers \in Nat \ {0}
    /\ MaxThin \in Nat
    /\ MaxFaults \in Nat
    /\ EmergencyClose \in BOOLEAN

Sides == {1, -1}
Signal == [side : Sides, entry : {"market", "limit"},
           policy : {"replace", "reverse_only", "ignore_same_side", "add", "reject"},
           cancel : BOOLEAN, fallback : BOOLEAN, manual : BOOLEAN,
           stop : BOOLEAN, tps : 0..PlanQty]

ASSUME SignalAssumption == Signals \subseteq Signal

VARIABLES
    position,  \* external: the net position
    limit,     \* external: open units of each execution's limit order
    algo,      \* external: the conditional orders, a set of Algo
    bought,    \* external: units each execution's entry orders have filled
    pc,        \* where each execution is
    sig,       \* its signal
    seen,      \* the position amount it last read
    filled,    \* filled_qty
    prot,      \* protection_summary, and the count of tries
    faults,
    blind,     \* history: executions whose limit order outlived its cancel
    thin       \* history: executions that had a market order fill in part

exchange == <<position, limit, algo, bought>>
local == <<sig, seen, filled, prot>>
bounds == <<faults, blind, thin>>
vars == <<exchange, pc, local, bounds>>

Algo == [kind : {"stop", "tp"}, by : Tasks, guards : Sides, n : 0..PlanQty]

Ended == {"skipped", "entry_not_filled", "protected", "protection_failed",
          "raised"}
Labels == {"new", "read_position", "cancel_regular", "cancel_algo", "close",
           "leverage", "entry", "wait", "cancel_limit", "check_limit",
           "after_limit", "fallback", "record", "confirm", "stop",
           "stop_retry", "tp", "judge", "emergency_read",
           "emergency_close"} \union Ended

Protection == [tries : 0..3, stop : BOOLEAN, tried : 0..PlanQty,
               placed : 0..PlanQty, failed : BOOLEAN]
NoProtection == [tries |-> 0, stop |-> FALSE, tried |-> 0, placed |-> 0,
                 failed |-> FALSE]

TypeOK ==
    /\ position \in Int
    /\ limit \in [Tasks -> 0..PlanQty]
    /\ algo \subseteq Algo
    /\ bought \in [Tasks -> Nat]
    /\ pc \in [Tasks -> Labels]
    /\ sig \in [Tasks -> Signals]
    /\ seen \in [Tasks -> Int]
    /\ filled \in [Tasks -> Nat]
    /\ prot \in [Tasks -> Protection]
    /\ faults \in 0..MaxFaults
    /\ blind \subseteq Tasks
    /\ thin \subseteq Tasks

-----------------------------------------------------------------------------

Abs(n) == IF n < 0 THEN -n ELSE n
Sign(n) == IF n > 0 THEN 1 ELSE IF n < 0 THEN -1 ELSE 0
Least(m, n) == IF m < n THEN m ELSE n
Most(m, n) == IF m > n THEN m ELSE n

Busy == {t \in Tasks : pc[t] \notin {"new"} \union Ended}

Goto(t, label) == pc' = [pc EXCEPT ![t] = label]

Fails == faults < MaxFaults /\ faults' = faults + 1

\* The outcome is a failure, except where the exchange is right to give it.
FailsUnless(due) == (due /\ UNCHANGED faults) \/ (~due /\ Fails)

\* A market order fills whole, or in part while the book is thin.
Fills(t, n, quantity) ==
    \/ n = quantity /\ UNCHANGED thin
    \/ /\ n \in 0..(quantity - 1)
       /\ Cardinality(thin) < MaxThin
       /\ thin' = thin \union {t}

\* close_position_market: a reduce-only order of the size last read.  The
\* exchange turns it away when there is no such position any more.
ReduceOnly(t) ==
    /\ Sign(position) = Sign(seen[t])
    /\ \E n \in 0..Least(Abs(seen[t]), Abs(position)) :
          /\ Fills(t, n, Least(Abs(seen[t]), Abs(position)))
          /\ position' = position - Sign(position) * n
    /\ UNCHANGED <<limit, algo, bought>>

ReduceOnlyRejected(t) == Sign(position) # Sign(seen[t])

\* Mutant: only a position on the other side is closed, whatever the policy.
ClosesOpposite(t, current) ==
    Sign(current) = -sig[t].side /\ sig[t].policy # "add"

\* A position that was not a reason to skip the signal is closed before the
\* entry, except by policy add.
MustClose(t, current) == current # 0 /\ sig[t].policy # "add"

\* _position_meets_entry_expectation
MeetsExpectation(t) ==
    /\ Sign(position) = sig[t].side
    /\ 10 * Abs(position) >= 8 * filled[t]

-----------------------------------------------------------------------------
(* _handle_existing_position                                               *)

Begin(t) ==
    /\ pc[t] = "new"
    /\ Cardinality(Busy) < Workers
    /\ Goto(t, "read_position")
    /\ UNCHANGED <<exchange, local, bounds>>

SkippedByPolicy(t, current) ==
    /\ current # 0
    /\ \/ sig[t].policy = "reject"
       \/ /\ sig[t].policy \in {"reverse_only", "ignore_same_side"}
          /\ Sign(current) = sig[t].side

\* Mutant: the old orders are cancelled before the policy is consulted.
CancelBeforePolicy(t) ==
    /\ pc[t] = "read_position"
    /\ seen' = [seen EXCEPT ![t] = position]
    /\ IF SkippedByPolicy(t, position)
       THEN Goto(t, "skipped") /\ algo' = {}
       ELSE /\ Goto(t, IF sig[t].cancel THEN "cancel_regular"
                       ELSE IF MustClose(t, position) THEN "close" ELSE "leverage")
            /\ UNCHANGED algo
    /\ UNCHANGED <<position, limit, bought, sig, filled, prot, bounds>>

ReadPosition(t) ==
    /\ pc[t] = "read_position"
    /\ \/ /\ seen' = [seen EXCEPT ![t] = position]
          /\ Goto(t, IF SkippedByPolicy(t, position) THEN "skipped"
                     ELSE IF sig[t].cancel THEN "cancel_regular"
                     ELSE IF MustClose(t, position) THEN "close" ELSE "leverage")
          /\ UNCHANGED faults
       \/ Fails /\ Goto(t, "raised") /\ UNCHANGED seen
    /\ UNCHANGED <<exchange, sig, filled, prot, blind, thin>>

\* cancel_symbol_open_orders: either half may fail, which is only logged.
CancelRegular(t) ==
    /\ pc[t] = "cancel_regular"
    /\ \/ limit' = [u \in Tasks |-> 0] /\ (UNCHANGED faults \/ Fails)
       \/ UNCHANGED limit /\ Fails
    /\ Goto(t, "cancel_algo")
    /\ UNCHANGED <<position, algo, bought, local, blind, thin>>

CancelAlgo(t) ==
    /\ pc[t] = "cancel_algo"
    /\ \/ algo' = {} /\ (UNCHANGED faults \/ Fails)
       \/ UNCHANGED algo /\ Fails
    /\ Goto(t, IF MustClose(t, seen[t]) THEN "close" ELSE "leverage")
    /\ UNCHANGED <<position, limit, bought, local, blind, thin>>

ClosePosition(t) ==
    /\ pc[t] = "close"
    /\ \/ ReduceOnly(t) /\ Goto(t, "leverage") /\ UNCHANGED faults
       \/ ReduceOnly(t) /\ Goto(t, "raised") /\ Fails
       \/ /\ UNCHANGED <<exchange, thin>>
          /\ Goto(t, "raised")
          /\ FailsUnless(ReduceOnlyRejected(t))
    /\ UNCHANGED <<local, blind>>

-----------------------------------------------------------------------------
(* change_leverage and _submit_entry_order                                 *)

\* change_leverage; for a market entry also the price and level checks,
\* which raise a ValueError when the market has moved.
ChangeLeverage(t) ==
    /\ pc[t] = "leverage"
    /\ \/ Goto(t, "entry") /\ UNCHANGED faults
       \/ Goto(t, "raised") /\ Fails
       \/ Goto(t, "raised") /\ sig[t].entry = "market" /\ UNCHANGED faults
    /\ UNCHANGED <<exchange, local, blind, thin>>

Buy(t, n) ==
    /\ position' = position + sig[t].side * n
    /\ bought' = [bought EXCEPT ![t] = @ + n]

SetFilled(t, n) == filled' = [filled EXCEPT ![t] = n]

\* An answer without an executed quantity counts as a complete fill.
Reported(n, quantity) == IF n = 0 THEN quantity ELSE n

MarketEntry(t) ==
    /\ pc[t] = "entry"
    /\ sig[t].entry = "market"
    /\ \/ \E n \in 0..PlanQty :
             /\ Fills(t, n, PlanQty)
             /\ Buy(t, n)
             /\ \/ /\ SetFilled(t, Reported(n, PlanQty))
                   /\ Goto(t, "record")
                   /\ UNCHANGED faults
                \/ Fails /\ Goto(t, "raised") /\ UNCHANGED filled
       \/ /\ Fails
          /\ Goto(t, "raised")
          /\ UNCHANGED <<position, bought, filled, thin>>
    /\ UNCHANGED <<limit, algo, sig, seen, prot, blind>>

LimitEntry(t) ==
    /\ pc[t] = "entry"
    /\ sig[t].entry = "limit"
    /\ \/ /\ limit' = [limit EXCEPT ![t] = PlanQty]
          /\ \/ Goto(t, "wait") /\ UNCHANGED faults
             \/ Goto(t, "raised") /\ Fails
       \/ Goto(t, "raised") /\ Fails /\ UNCHANGED limit
    /\ UNCHANGED <<position, algo, bought, local, blind, thin>>

\* _wait_for_limit_fill: the last answer, which is an earlier one when a
\* poll has failed.
WaitForLimitFill(t) ==
    /\ pc[t] = "wait"
    /\ \E n \in 0..bought[t] :
          /\ FailsUnless(n = bought[t])
          /\ SetFilled(t, n)
          /\ Goto(t, IF n = PlanQty THEN "record" ELSE "cancel_limit")
    /\ UNCHANGED <<exchange, sig, seen, prot, blind, thin>>

\* cancel_order: its answer carries the executed quantity.  The exchange
\* refuses it when the order is no longer open.
CancelLimit(t) ==
    /\ pc[t] = "cancel_limit"
    /\ \/ /\ limit[t] > 0
          /\ limit' = [limit EXCEPT ![t] = 0]
          /\ \/ /\ SetFilled(t, Most(filled[t], bought[t]))
                /\ Goto(t, "after_limit")
                /\ UNCHANGED faults
             \/ Fails /\ Goto(t, "check_limit") /\ UNCHANGED filled
          /\ UNCHANGED blind
       \/ /\ FailsUnless(limit[t] = 0)
          /\ blind' = IF limit[t] > 0 THEN blind \union {t} ELSE blind
          /\ Goto(t, "check_limit")
          /\ UNCHANGED <<limit, filled>>
    /\ UNCHANGED <<position, algo, bought, sig, seen, prot, thin>>

\* The second look, get_order: its executed quantity is used, its status
\* is not.  Without an answer the quantity stays what it was.
CheckLimit(t) ==
    /\ pc[t] = "check_limit"
    /\ Goto(t, "after_limit")
    /\ \/ /\ SetFilled(t, Most(filled[t], bought[t]))
          /\ UNCHANGED <<faults, blind>>
       \/ Fails /\ blind' = blind \union {t} /\ UNCHANGED filled
    /\ UNCHANGED <<exchange, sig, seen, prot, thin>>

\* After the limit order, and after the fallback: something was filled, or
\* the execution is over.
EntryOutcome(t, n) == IF n > 0 THEN "record" ELSE "entry_not_filled"

AfterLimit(t) ==
    /\ pc[t] = "after_limit"
    /\ Goto(t, IF sig[t].fallback /\ filled[t] < PlanQty THEN "fallback"
               ELSE EntryOutcome(t, filled[t]))
    /\ UNCHANGED <<exchange, local, bounds>>

\* What the plan comes to when it is made again at the latest price, at most:
\* a manual plan is its notional by that price, which plan.quantity does not
\* cap.
RecalculatedTotal(t) == IF sig[t].manual THEN ManualQty ELSE PlanQty

\* Mutant: the fallback orders the whole plan again.
WholePlanAgain(t) == RecalculatedTotal(t)

\* _recalculate_fallback_market_plan: at most what is left of the total
FallbackQty(t) == RecalculatedTotal(t) - filled[t]

\* _execute_market_fallback: refused (market entries disabled, levels,
\* exchange minimum, slippage), raised (ticker, leverage, order), or sent.
MarketFallback(t) ==
    /\ pc[t] = "fallback"
    /\ \/ /\ Goto(t, EntryOutcome(t, filled[t]))
          /\ UNCHANGED <<position, bought, filled, faults, thin>>
       \/ /\ Goto(t, "raised")
          /\ Fails
          /\ UNCHANGED <<position, bought, filled, thin>>
       \/ \E quantity \in 1..FallbackQty(t), n \in 0..FallbackQty(t) :
             /\ Fills(t, n, quantity)
             /\ Buy(t, n)
             /\ \/ /\ SetFilled(t, filled[t] + Reported(n, quantity))
                   /\ Goto(t, "record")
                   /\ UNCHANGED faults
                \/ Fails /\ Goto(t, "raised") /\ UNCHANGED filled
    /\ UNCHANGED <<limit, algo, sig, seen, prot, blind>>

-----------------------------------------------------------------------------
(* record_successful_open and _submit_protections_after_entry              *)

RecordOpen(t) ==
    /\ pc[t] = "record"
    /\ \/ Goto(t, "confirm") /\ UNCHANGED faults
       \/ Goto(t, "raised") /\ Fails
    /\ UNCHANGED <<exchange, local, blind, thin>>

\* _wait_for_position_after_entry; an exchange that does not show the
\* position before the deadline is one more failure.
ConfirmPosition(t) ==
    /\ pc[t] = "confirm"
    /\ \/ /\ MeetsExpectation(t)
          /\ Goto(t, IF sig[t].stop THEN "stop" ELSE "tp")
          /\ UNCHANGED faults
       \/ /\ Goto(t, "protection_failed")
          /\ IF MeetsExpectation(t) THEN Fails ELSE UNCHANGED faults
       \/ Goto(t, "raised") /\ Fails
    /\ UNCHANGED <<exchange, local, blind, thin>>

Place(t, kind, n) ==
    algo' = algo \union {[kind |-> kind, by |-> t, guards |-> sig[t].side, n |-> n]}

Placed(t, change) == prot' = [prot EXCEPT ![t] = change]

\* _submit_stop_loss_with_retry: only BinanceAPIError is caught, and only
\* code -4509 is tried again, up to three tries.
SubmitStop(t) ==
    /\ pc[t] = "stop"
    /\ \/ /\ Place(t, "stop", 0)
          /\ Placed(t, [prot[t] EXCEPT !.stop = TRUE])
          /\ Goto(t, "tp")
          /\ UNCHANGED faults
       \/ /\ Fails
          /\ \/ /\ prot[t].tries < 2
                /\ Placed(t, [prot[t] EXCEPT !.tries = @ + 1])
                /\ Goto(t, "stop_retry")
                /\ UNCHANGED algo
             \/ /\ Placed(t, [prot[t] EXCEPT !.failed = TRUE])
                /\ \/ Goto(t, "tp") /\ UNCHANGED algo
                   \/ Goto(t, "raised") /\ (UNCHANGED algo \/ Place(t, "stop", 0))
    /\ UNCHANGED <<position, limit, bought, sig, seen, filled, blind, thin>>

\* Before another try the position is read; its value is only logged.
StopRetry(t) ==
    /\ pc[t] = "stop_retry"
    /\ \/ Goto(t, "stop") /\ UNCHANGED <<prot, faults>>
       \/ /\ Goto(t, "raised")
          /\ Fails
          /\ Placed(t, [prot[t] EXCEPT !.failed = TRUE])
    /\ UNCHANGED <<exchange, sig, seen, filled, blind, thin>>

\* Mutant: the loop over the levels runs once too often.
OneLevelTooMany(t) == Least(sig[t].tps, filled[t]) + 1

\* _plan_for_filled_quantity: levels whose quantity rounds to zero go
TpCount(t) == Least(sig[t].tps, filled[t])

SubmitTakeProfit(t) ==
    /\ pc[t] = "tp"
    /\ prot[t].tried < TpCount(t)
    /\ \/ /\ Place(t, "tp", prot[t].tried)
          /\ Placed(t, [prot[t] EXCEPT !.tried = @ + 1, !.placed = @ + 1])
          /\ UNCHANGED <<pc, faults>>
       \/ /\ Fails
          /\ Placed(t, [prot[t] EXCEPT !.tried = @ + 1, !.failed = TRUE])
          /\ \/ UNCHANGED <<pc, algo>>
             \/ Goto(t, "raised") /\ UNCHANGED algo
             \/ Goto(t, "raised") /\ Place(t, "tp", prot[t].tried)
    /\ UNCHANGED <<position, limit, bought, sig, seen, filled, blind, thin>>

TakeProfitsDone(t) ==
    /\ pc[t] = "tp"
    /\ prot[t].tried = TpCount(t)
    /\ Goto(t, "judge")
    /\ UNCHANGED <<exchange, local, bounds>>

\* sl_failed or tp_failed
ProtectionIncomplete(t) ==
    \/ sig[t].stop /\ ~prot[t].stop
    \/ prot[t].placed < TpCount(t)

Judge(t) ==
    /\ pc[t] = "judge"
    /\ Goto(t, IF ~ProtectionIncomplete(t) THEN "protected"
               ELSE IF EmergencyClose THEN "emergency_read"
               ELSE "protection_failed")
    /\ UNCHANGED <<exchange, local, bounds>>

\* _handle_emergency_close_on_protection_fail
EmergencyRead(t) ==
    /\ pc[t] = "emergency_read"
    /\ \/ /\ seen' = [seen EXCEPT ![t] = position]
          /\ Goto(t, IF position = 0 THEN "protection_failed"
                                     ELSE "emergency_close")
          /\ UNCHANGED faults
       \/ Fails /\ Goto(t, "raised") /\ UNCHANGED seen
    /\ UNCHANGED <<exchange, sig, filled, prot, blind, thin>>

\* Mutant: closes only what this execution has bought.
CloseOwnEntry(t) ==
    /\ pc[t] = "emergency_close"
    /\ position' = position - Sign(position) * Least(filled[t], Abs(position))
    /\ Goto(t, "protection_failed")
    /\ UNCHANGED <<limit, algo, bought, local, bounds>>

EmergencyCloseOrder(t) ==
    /\ pc[t] = "emergency_close"
    /\ \/ ReduceOnly(t) /\ Goto(t, "protection_failed") /\ UNCHANGED faults
       \/ ReduceOnly(t) /\ Goto(t, "raised") /\ Fails
       \/ /\ UNCHANGED <<exchange, thin>>
          /\ Goto(t, "raised")
          /\ FailsUnless(ReduceOnlyRejected(t))
    /\ UNCHANGED <<local, blind>>

TaskStep(t) ==
    \/ Begin(t)
    \/ ReadPosition(t)
    \/ CancelRegular(t)
    \/ CancelAlgo(t)
    \/ ClosePosition(t)
    \/ ChangeLeverage(t)
    \/ MarketEntry(t)
    \/ LimitEntry(t)
    \/ WaitForLimitFill(t)
    \/ CancelLimit(t)
    \/ CheckLimit(t)
    \/ AfterLimit(t)
    \/ MarketFallback(t)
    \/ RecordOpen(t)
    \/ ConfirmPosition(t)
    \/ SubmitStop(t)
    \/ StopRetry(t)
    \/ SubmitTakeProfit(t)
    \/ TakeProfitsDone(t)
    \/ Judge(t)
    \/ EmergencyRead(t)
    \/ EmergencyCloseOrder(t)

-----------------------------------------------------------------------------
(* The market.                                                             *)

FillLimit(t) ==
    /\ limit[t] > 0
    /\ limit' = [limit EXCEPT ![t] = @ - 1]
    /\ Buy(t, 1)
    /\ UNCHANGED <<algo, pc, local, bounds>>

\* A stop closes the whole position it guards, a take profit one unit.
Trigger(order) ==
    /\ order.guards = Sign(position)
    /\ algo' = algo \ {order}
    /\ position' = IF order.kind = "stop" THEN 0 ELSE position - Sign(position)
    /\ UNCHANGED <<limit, bought, pc, local, bounds>>

Market ==
    \/ \E t \in Tasks : FillLimit(t)
    \/ \E order \in algo : Trigger(order)

-----------------------------------------------------------------------------

\* No position and no order yet, other than these conditional ones.
InitWith(orders) ==
    /\ position = 0
    /\ limit = [t \in Tasks |-> 0]
    /\ algo = orders
    /\ bought = [t \in Tasks |-> 0]
    /\ pc = [t \in Tasks |-> "new"]
    /\ sig \in [Tasks -> Signals]
    /\ seen = [t \in Tasks |-> 0]
    /\ filled = [t \in Tasks |-> 0]
    /\ prot = [t \in Tasks |-> NoProtection]
    /\ faults = 0
    /\ blind = {}
    /\ thin = {}

Init == InitWith({})

Next == (\E t \in Tasks : TaskStep(t)) \/ Market

Spec == Init /\ [][Next]_vars

-----------------------------------------------------------------------------
(* Properties.                                                             *)

\* Executions whose limit order can outlive them.
Strays == blind \union {t \in Tasks : pc[t] = "raised" /\ sig[t].entry = "limit"}

Covered == \/ position = 0
           \/ \E order \in algo : /\ order.kind = "stop"
                                  /\ order.guards = Sign(position)

\* What the plan of an execution allows: the planned quantity, or, once a
\* manual plan may have been made again at a later price, the larger one.
PlanAllows(t) ==
    IF sig[t].entry = "limit" /\ sig[t].fallback /\ sig[t].manual
    THEN Most(PlanQty, ManualQty) ELSE PlanQty

\* The entry of an execution, the limit order, its partial fills and the
\* market order of the fallback taken together, never exceeds its plan, that
\* is the plan made at the latest price where the mode is manual: what the
\* limit order has filled is not bought again, unless that order survived its
\* cancellation or went unobserved.  (trader.py, _submit_entry_order)
EntryWithinPlan ==
    \A t \in Tasks \ blind : bought[t] + limit[t] <= PlanAllows(t)

\* Not begun, or ended with nothing to report: the signal asked for a stop,
\* no order was left behind or cut short.  An add that cancels is excluded:
\* it drops the stop of a position it means to keep.
Orderly(t) ==
    /\ pc[t] \in {"new", "skipped", "entry_not_filled", "protected"}
    /\ sig[t].stop
    /\ t \notin blind \union thin
    /\ ~(sig[t].policy = "add" /\ sig[t].cancel)

\* One worker: while every execution so far has ended in order, an open
\* position has a stop on its side, whatever the policies, the failed calls
\* and the fills were.  (trader.py, execute; journal.py, the statuses)
OrderlyEndsAreCovered == (\A t \in Tasks : Orderly(t)) => Covered

\* One worker: without an add, without a stray limit order and with full
\* fills, a new entry never goes on top of an old position: what is open was
\* bought by one execution, whatever its mode and size.
\* (README.md: replace closes the current position, then opens the new one)
PositionsDoNotStack ==
    /\ \A t \in Tasks : sig[t].policy # "add"
    /\ Strays = {}
    /\ thin = {}
    => \/ position = 0
       \/ \E t \in Tasks : /\ Sign(position) = sig[t].side
                          /\ Abs(position) <= bought[t]

\* One worker: when the emergency close has been sent and answered, nothing
\* is left of the position, the part that was there before included.
\* (trader.py, _handle_emergency_close_on_protection_fail)
EmergencyLeavesFlat ==
    [][\A t \in Tasks :
          /\ pc[t] \in {"emergency_read", "emergency_close"}
          /\ pc'[t] = "protection_failed"
          /\ Strays = {}
          /\ t \notin thin'
          => position' = 0]_vars

\* Whenever the placement of a stop or of a take profit fails, the position
\* is closed by the time the execution ends.
\* (config.py, the comment on emergency_close_on_protection_fail)
FailedProtectionIsClosed ==
    [][\A t \in Tasks :
          /\ EmergencyClose
          /\ pc[t] \notin Ended
          /\ pc'[t] \in Ended
          /\ prot'[t].failed
          => position' = 0]_vars

=============================================================================
