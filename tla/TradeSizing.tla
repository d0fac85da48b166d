----------------------------- MODULE TradeSizing -----------------------------
(***************************************************************************)
(* How much an admitted signal buys: prepare_plan and the recalculation of *)
(* a fallback (app/trader.py), the sizing rules (app/risk.py) and the      *)
(* rounding to the exchange's steps (app/exchange_rules.py), composed with *)
(* SignalRules.                                                            *)
(*                                                                         *)
(* The price at which a plan is sized, the prices at which its limit order *)
(* fills, the average the bot knows of them and the price at which a       *)
(* fallback buys the rest are all different moments of one market.         *)
(*                                                                         *)
(* Decimals are integers: quantities and prices as such, money over Unit,  *)
(* a margin over Cent.  Orders that fail are in TradeExecution.            *)
(***************************************************************************)
EXTENDS SignalRules

CONSTANTS
    Tick,             \* price_tick
    Step,             \* market_qty_step
    MinQty,
    MinNotional,
    Cent,             \* what a margin is rounded down to: 1/Cent
    Fees,             \* the fee rates _fee_rate may return, padded
    Selected,         \* selected_balance
    Available,        \* availableBalance
    AutoMargin,       \* AUTO_MARGIN_BALANCE_PCT
    MaxAutoLeverage,
    Brackets,         \* leverage brackets, a sequence of [cap, leverage]
    AllowedEntries,   \* ALLOW_MARKET_ENTRY, ALLOW_LIMIT_ENTRY
    DefaultEntry,     \* DEFAULT_ENTRY_TYPE
    Fallback          \* DEFAULT_LIMIT_FALLBACK_TO_MARKET

ASSUME StepAssumption ==
    /\ Tick \in Nat \ {0} /\ Step \in Nat \ {0} /\ Cent \in Nat \ {0}
    /\ MinQty \in Nat /\ MinNotional \in Nat
ASSUME AccountAssumption ==
    /\ Fees \subseteq 0..Unit /\ Selected \in Nat \ {0} /\ Available \in Nat
    /\ AutoMargin \in 1..Unit /\ MaxAutoLeverage \in 1..125
    /\ Brackets \in Seq([cap : Nat, leverage : Nat]) /\ Brackets # <<>>
    /\ AllowedEntries \subseteq {"market", "limit"} /\ Fallback \in BOOLEAN
    /\ DefaultEntry \in {"market", "limit"}

\* The margin budget that is left to the program is worth at least what a
\* margin is rounded down to.
ASSUME BudgetAssumption == Unit <= Cent * Selected * AutoMargin

VARIABLES
    phase,    \* how far the entry has come
    plan,     \* the TradePlan
    fill,     \* external: what the limit order has executed, and for how much
    seen,     \* what the last poll answered of it
    filled,   \* filled_qty
    bought,   \* the market order sent: its quantity and the latest price
    lever,    \* the leverage set at the exchange
    guards    \* the quantities of the take profits

sizing == <<phase, plan, fill, seen, filled, bought, lever, guards>>
vars == <<intake, environment, sizing>>

Phases == {"none", "sized", "planned", "resting", "cancelling",
           "after_limit", "entered", "not_filled", "refused"}
Plan == [ref : Nat, stop : Nat, qty : Nat, notional : Nat, margin : Nat,
         leverage : Nat, max : Nat, target : Nat, fee : Nat]
Execution == [qty : Nat, cost : Nat]

NoPlan == [ref |-> 0, stop |-> 0, qty |-> 0, notional |-> 0, margin |-> 0,
           leverage |-> 0, max |-> 0, target |-> 0, fee |-> 0]
Nothing == [qty |-> 0, cost |-> 0]

TypeOK ==
    /\ IntakeTypeOK
    /\ phase \in Phases
    /\ plan \in Plan
    /\ fill \in Execution
    /\ seen \in Execution
    /\ filled \in Nat
    /\ bought \in [qty : Nat, price : Nat]
    /\ lever \in Nat
    /\ guards \in Seq(Nat)

-----------------------------------------------------------------------------
(* Rounding, fees and losses: exchange_rules.py and the helpers of risk.py *)

FloorTo(n, step) == (n \div step) * step
CeilDiv(n, d) == (n + d - 1) \div d
Larger(m, n) == IF m > n THEN m ELSE n
Smaller(m, n) == IF m < n THEN m ELSE n

\* per_unit_total_loss_at_entry, over Unit
PerUnitLoss(price, stop, fee) == Unit * Abs(price - stop) + fee * (price + stop)

\* calculate_quantity_for_target_risk, for a target over parts * Unit
QtyForRisk(target, parts, loss) == FloorTo(target \div (parts * loss), Step)

\* estimate_stop_loss_loss of executed orders, over Unit
LossAtStop(execution, stop, fee) ==
    Unit * Abs(execution.cost - execution.qty * stop)
      + fee * (execution.cost + execution.qty * stop)

Orderable(qty, price) ==
    qty > 0 /\ qty >= MinQty /\ qty * price >= MinNotional

\* validate_price_levels, for raw take profits and a given stop
LevelsHold(stop, price) ==
    /\ stop # None => IF Buys(payload) THEN stop < price ELSE stop > price
    /\ \A level \in LevelsOf(payload) :
          IF Buys(payload) THEN level.price > price ELSE level.price < price

\* Mutant: the last level gets the rest without what went before.
RestIgnoringUsed(total, used) == FloorTo(total, Step)

RestOf(total, used) == FloorTo(total - used, Step)

\* allocate_tp_quantities, the levels of quantity zero included
Allocation(total) ==
    LET n == Len(payload.tps)
        last(i) == i = n /\ ShareSum(payload) = Unit
        used[i \in 0..n] ==
            IF i = 0 THEN 0
            ELSE used[i - 1]
                 + IF last(i) THEN RestOf(total, used[i - 1])
                   ELSE FloorTo((total * payload.tps[i].pct) \div Unit, Step)
    IN  [i \in 1..n |-> used[i] - used[i - 1]]

\* _check_market_slippage: only against the side of the order
SlippageHolds(price) ==
    \/ payload.signal_price = None
    \/ payload.slippage = 0
    \/ IF Buys(payload)
       THEN Unit * price <= payload.signal_price * (Unit + payload.slippage)
       ELSE Unit * price >= payload.signal_price * (Unit - payload.slippage)

-----------------------------------------------------------------------------
(* The plans: build_manual_trade_plan, build_risk_based_trade_plan         *)

RiskMode == payload.mode \in {"fixed_usdt", "fixed_pct"}
EntryOf == IF payload.entry = "none" THEN DefaultEntry ELSE payload.entry

\* The target of the signal, over Unit.
TargetRisk == IF payload.mode = "fixed_usdt" THEN Unit * payload.risk_usdt
              ELSE Selected * payload.risk_pct

MarginBudget == IF payload.margin_usdt # None THEN Unit * payload.margin_usdt
                ELSE Selected * AutoMargin

RequestedNotional ==
    IF payload.notional_usdt # None THEN payload.notional_usdt
    ELSE payload.margin_usdt * payload.leverage

ConfiguredMax ==
    IF payload.max_leverage = None THEN MaxAutoLeverage
    ELSE IF RiskMode THEN Smaller(MaxAutoLeverage, payload.max_leverage)
    ELSE payload.max_leverage

\* Mutant: the fees are left out of the loss per unit.
RiskPlanWithoutFees(ref, fee) ==
    LET stop == FloorTo(payload.sl, Tick)
        qty == QtyForRisk(TargetRisk, 1, PerUnitLoss(ref, stop, 0))
    IN  [ref |-> ref, stop |-> stop, qty |-> qty, notional |-> qty * ref,
         margin |-> MarginBudget, leverage |-> 1, max |-> ConfiguredMax,
         target |-> TargetRisk, fee |-> fee]

RiskPlan(ref, fee) ==
    LET stop == FloorTo(payload.sl, Tick)
        qty == QtyForRisk(TargetRisk, 1, PerUnitLoss(ref, stop, fee))
        leverage == Larger(1, CeilDiv(Unit * qty * ref, MarginBudget))
    IN  [ref |-> ref, stop |-> stop, qty |-> qty, notional |-> qty * ref,
         margin |-> (Cent * qty * ref) \div leverage, leverage |-> leverage,
         max |-> ConfiguredMax, target |-> TargetRisk, fee |-> fee]

ManualPlan(ref, fee) ==
    LET leverage == Larger(1, payload.leverage)
    IN  [ref |-> ref,
         stop |-> IF payload.sl = None THEN None ELSE FloorTo(payload.sl, Tick),
         qty |-> FloorTo(RequestedNotional \div ref, Step),
         notional |-> RequestedNotional,
         margin |-> IF payload.margin_usdt # None THEN Cent * payload.margin_usdt
                    ELSE (Cent * RequestedNotional) \div leverage,
         leverage |-> leverage, max |-> ConfiguredMax, target |-> 0, fee |-> fee]

\* What either builder checks before it sizes, and of what it has sized.
RiskPlanHolds(ref, fee, cap) ==
    /\ LevelsHold(payload.sl, ref)
    /\ PerUnitLoss(ref, FloorTo(payload.sl, Tick), fee) > 0
    /\ Orderable(RiskPlan(ref, fee).qty, ref)
    /\ MarginBudget > 0 /\ MarginBudget <= Unit * Available
    /\ RiskPlan(ref, fee).leverage <= cap

ManualPlanHolds(ref, fee) ==
    /\ LevelsHold(payload.sl, ref)
    /\ Orderable(ManualPlan(ref, fee).qty, ref)

PlanHolds(ref, fee, cap) ==
    IF RiskMode THEN RiskPlanHolds(ref, fee, cap) ELSE ManualPlanHolds(ref, fee)
PlanAt(ref, fee) == IF RiskMode THEN RiskPlan(ref, fee) ELSE ManualPlan(ref, fee)

\* _exchange_max_leverage: the bracket of the notional, the last one beyond
\* them all, and 125 when they cannot be read.
ExchangeMax(notional) ==
    LET fits == {i \in DOMAIN Brackets : notional <= Brackets[i].cap}
    IN  IF fits = {} THEN {125, Brackets[Len(Brackets)].leverage}
        ELSE {125, Brackets[CHOOSE i \in fits : \A j \in fits : i <= j].leverage}

Refuse == phase' = "refused" /\ UNCHANGED <<plan, fill, seen, filled, bought,
                                            lever, guards>>

\* _resolve_entry_reference_price: the limit on its tick, or the market.
EntryPrice == IF EntryOf = "limit" THEN FloorTo(payload.limit_price, Tick)
              ELSE market

PreparePlan ==
    /\ stage = "admitted"
    /\ phase = "none"
    /\ \E fee \in Fees :
          IF /\ EntryOf \in AllowedEntries
             /\ EntryPrice > 0
             /\ EntryOf = "market" => SlippageHolds(market)
             /\ PlanHolds(EntryPrice, fee, ConfiguredMax)
          THEN LET made == PlanAt(EntryPrice, fee)
               IN \E max \in ExchangeMax(made.notional) :
                     IF made.leverage <= Smaller(max, ConfiguredMax)
                     THEN /\ plan' = [made EXCEPT !.max = Smaller(max, ConfiguredMax)]
                          /\ phase' = "sized"
                          /\ UNCHANGED <<fill, seen, filled, bought, lever, guards>>
                     ELSE Refuse
          ELSE Refuse
    /\ UNCHANGED <<intake, environment>>

\* The ticker, the rules or the account cannot be read.
PlanUnavailable ==
    /\ stage = "admitted"
    /\ phase = "none"
    /\ Refuse
    /\ UNCHANGED <<intake, environment>>

\* validate_live_guard_after_plan
LivePlanHolds ==
    settings.env = "live" =>
    /\ plan.notional <= settings.live_notional
    /\ plan.margin <= Cent * settings.live_margin
    /\ RiskMode /\ payload.margin_usdt = None
          => plan.target <= Unit * settings.live_risk

\* Trader.execute after prepare_plan, up to the leverage; the account risk
\* and the existing position are in AccountRisk and TradeExecution.
GuardPlan ==
    /\ phase = "sized"
    /\ IF LivePlanHolds /\ settings.trading
       THEN /\ phase' = "planned"
            /\ lever' = plan.leverage
            /\ UNCHANGED <<plan, fill, seen, filled, bought, guards>>
       ELSE Refuse
    /\ UNCHANGED <<intake, environment>>

-----------------------------------------------------------------------------
(* _submit_entry_order                                                     *)

\* _plan_for_filled_quantity
Enter(quantity) ==
    /\ phase' = "entered"
    /\ filled' = quantity
    /\ guards' = Allocation(quantity)

\* The market has moved since the plan: the checks are made again, the
\* quantity stays.
MarketEntry ==
    /\ phase = "planned"
    /\ EntryOf = "market"
    /\ IF SlippageHolds(market) /\ LevelsHold(plan.stop, market)
       THEN /\ bought' = [qty |-> plan.qty, price |-> market]
            /\ Enter(plan.qty)
            /\ UNCHANGED <<plan, fill, seen, lever>>
       ELSE Refuse
    /\ UNCHANGED <<intake, environment>>

PlaceLimit ==
    /\ phase = "planned"
    /\ EntryOf = "limit"
    /\ phase' = "resting"
    /\ UNCHANGED <<intake, environment, plan, fill, seen, filled, bought,
                   lever, guards>>

\* External: an order that crosses the book fills at better prices first,
\* what rests fills at its limit.
FillLimit ==
    /\ phase \in {"resting", "cancelling"}
    /\ \E n \in 1..(plan.qty - fill.qty), price \in Prices :
          /\ n % Step = 0
          /\ IF Buys(payload) THEN price <= plan.ref ELSE price >= plan.ref
          /\ price = plan.ref \/ fill = Nothing
          /\ fill' = [qty |-> fill.qty + n, cost |-> fill.cost + n * price]
    /\ UNCHANGED <<intake, environment, phase, plan, seen, filled, bought,
                   lever, guards>>

\* _wait_for_limit_fill: one answer, after which the order is full, polled
\* again, or past its deadline.
Poll ==
    /\ phase = "resting"
    /\ seen' = fill
    /\ IF fill.qty = plan.qty
       THEN Enter(fill.qty)
       ELSE phase' \in {"resting", "cancelling"} /\ UNCHANGED <<filled, guards>>
    /\ UNCHANGED <<intake, environment, plan, fill, bought, lever>>

\* The cancellation, or the second look after a failed one, answers with
\* what was executed; without either the last poll stands.
CancelLimit ==
    /\ phase = "cancelling"
    /\ phase' = "after_limit"
    /\ filled' \in {fill.qty, seen.qty}
    /\ UNCHANGED <<intake, environment, plan, fill, seen, bought, lever, guards>>

\* _limit_entry_avg_price, as a quotient: the average of the last poll, of
\* the cancellation if there was nothing to poll, or the limit.
AveragePrice ==
    IF seen.qty > 0 THEN seen
    ELSE IF filled > 0 THEN fill
    ELSE [qty |-> 1, cost |-> plan.ref]

\* The loss at the stop of what was filled, at the average; over
\* Unit * AveragePrice.qty.
UsedRisk == filled * LossAtStop(AveragePrice, plan.stop, plan.fee)

\* Mutant: the rest may risk the whole target once more.
TargetAgain == plan.target * AveragePrice.qty

RemainingRisk == plan.target * AveragePrice.qty - UsedRisk

\* _recalculate_fallback_market_plan: the quantity before normalisation, 0
\* when it is refused.
FallbackQty ==
    IF RiskMode /\ filled > 0
    THEN IF RemainingRisk > 0 /\ PerUnitLoss(market, plan.stop, plan.fee) > 0
         THEN QtyForRisk(RemainingRisk, AveragePrice.qty,
                         PerUnitLoss(market, plan.stop, plan.fee))
         ELSE 0
    ELSE IF PlanHolds(market, plan.fee, plan.max)
    THEN Larger(0, PlanAt(market, plan.fee).qty - filled)
    ELSE 0

\* Mutant: the cap of the plan is not applied to the rest.
UncappedLeverage ==
    IF RiskMode /\ filled > 0
    THEN Larger(1, CeilDiv(Cent * FallbackQty * market, plan.margin))
    ELSE PlanAt(market, plan.fee).leverage

\* _build_partial_risk_fallback_plan, or the leverage of the new plan
FallbackLeverage ==
    IF RiskMode /\ filled > 0
    THEN Smaller(Larger(1, CeilDiv(Cent * FallbackQty * market, plan.margin)),
                 plan.max)
    ELSE PlanAt(market, plan.fee).leverage

FallbackHolds ==
    /\ "market" \in AllowedEntries
    /\ LevelsHold(plan.stop, market)
    /\ Orderable(FallbackQty, market)
    /\ SlippageHolds(market)

\* What the limit order leaves when there is no fallback, or it is refused.
WithoutFallback ==
    IF filled > 0 THEN Enter(filled) /\ UNCHANGED <<bought, lever>>
    ELSE /\ phase' = "not_filled"
         /\ UNCHANGED <<filled, guards, bought, lever>>

AfterLimit ==
    /\ phase = "after_limit"
    /\ IF Fallback /\ filled < plan.qty /\ FallbackHolds
       THEN /\ bought' = [qty |-> FallbackQty, price |-> market]
            /\ lever' = Larger(plan.leverage, FallbackLeverage)
            /\ Enter(filled + FallbackQty)
       ELSE WithoutFallback
    /\ UNCHANGED <<intake, environment, plan, fill, seen>>

-----------------------------------------------------------------------------

Init ==
    /\ IntakeInit
    /\ phase = "none"
    /\ plan = NoPlan
    /\ fill = Nothing
    /\ seen = Nothing
    /\ filled = 0
    /\ bought = [qty |-> 0, price |-> 0]
    /\ lever = 0
    /\ guards = <<>>

Over == stage = "rejected" \/ phase \in {"entered", "not_filled", "refused"}

Next ==
    \/ IntakeNext /\ UNCHANGED sizing
    \/ TimePasses /\ stage \in {"posted", "queued"} /\ UNCHANGED sizing
    \/ MarketMoves /\ ~Over /\ UNCHANGED sizing
    \/ PreparePlan
    \/ PlanUnavailable
    \/ GuardPlan
    \/ MarketEntry
    \/ PlaceLimit
    \/ FillLimit
    \/ Poll
    \/ CancelLimit
    \/ AfterLimit

Spec == Init /\ [][Next]_vars

-----------------------------------------------------------------------------
(* Properties.                                                             *)

\* A plan loses at most the target of its signal when it is filled at the
\* price it was sized for and stopped, the fees of both ends included.
\* (README.md:148, risk_usdt=10 loses at most 10 USDT)
PlanWithinTarget ==
    RiskMode /\ plan # NoPlan
    => LossAtStop([qty |-> plan.qty, cost |-> plan.qty * plan.ref],
                  plan.stop, plan.fee) <= TargetRisk

\* What a limit entry loses at the stop, over Unit: its executions, at the
\* prices they had, and the market order of the fallback.  A price beyond
\* the stop is a gain.
EntryLoss ==
    LET qty == fill.qty + bought.qty
        cost == fill.cost + bought.qty * bought.price
        lost == IF Buys(payload) THEN cost - qty * plan.stop
                                 ELSE qty * plan.stop - cost
    IN  Unit * lost + plan.fee * (cost + qty * plan.stop)

\* The average the bot computes with is older than the quantity.
AverageIsStale == seen.qty \notin {0, fill.qty}

\* The executions of a limit order and the market order that replaces the
\* rest, bought at other prices, together stay within the target, if what
\* the bot knows of the executions is complete and of one moment.
\* (trader.py, _recalculate_fallback_market_plan)
FallbackWithinTarget ==
    /\ RiskMode /\ EntryOf = "limit" /\ phase = "entered"
    /\ filled = fill.qty + bought.qty
    /\ ~AverageIsStale
    => EntryLoss <= TargetRisk

\* On a live deployment no plan that is about to be executed risks more
\* than the deployment allows.
\* (docs/v6.4.4:13, LIVE_MAX_RISK_USDT caps the risk of signal and plan)
LiveRiskCapped ==
    settings.env = "live" /\ RiskMode /\ phase = "planned"
    => plan.target <= Unit * settings.live_risk

\* The leverage never exceeds what signal, configuration and bracket allowed
\* for the plan, the one of the fallback included.
\* (trader.py, prepare_plan and _build_partial_risk_fallback_plan)
LeverageWithinCap ==
    phase \notin {"none", "sized", "refused"} =>
    lever <= plan.max /\ plan.max <= ConfiguredMax

GuardedQty == SumOf(guards)

\* The take profits close what was filled, all of it when their shares make
\* a whole, and never more, whichever way the quantity came about.
\* (risk.py, allocate_tp_quantities)
TakeProfitsFitPosition ==
    phase = "entered" =>
    /\ \A i \in DOMAIN guards : guards[i] >= 0
    /\ GuardedQty <= filled
    /\ ShareSum(payload) = Unit => GuardedQty = FloorTo(filled, Step)

=============================================================================
