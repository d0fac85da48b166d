----------------------------- MODULE AccountRisk -----------------------------
(***************************************************************************)
(* AccountRiskGuard (app/account_risk.py) with ACCOUNT_RISK_ENABLED=true,  *)
(* AccountRiskStore (app/storage.py), and the executions that consult the  *)
(* one before an entry and write to the other after it.                    *)
(*                                                                         *)
(* check_before_entry makes five reads, of the exchange and of the store,  *)
(* each a step, and judges afterwards what it has read; nothing reserves   *)
(* what an execution that has passed is about to use.                      *)
(*                                                                         *)
(* An entry adds one unit of risk to its symbol; a position without a      *)
(* visible stop is estimated at the penalty of the settings, a plan        *)
(* without a stop at nothing.                                              *)
(***************************************************************************)
EXTENDS Naturals, FiniteSets, FiniteSetsExt

CONSTANTS
    Tasks, Symbols,
    Settings,       \* the limits a deployment may be started with
    Stopless,       \* the sets of executions whose plans may lack a stop
    Workers,        \* size of the thread pool
    Never,          \* last_open_at of a symbol without an open
    DayLength,      \* ticks in a day
    MaxTime,        \* bound: last tick of the clock
    MaxFaults       \* bound: reads and orders that fail

\* AccountRiskLimits: daily_max_loss_usdt, daily_max_trades,
\* max_open_positions, symbol_cooldown_sec in ticks and max_total_risk_usdt
\* in units, of which 0 turns the rule off, and the penalty, in units of
\* estimated risk per unit, for a position without a stop.
Limits == [loss : Nat, trades : Nat, open : Nat, cooldown : Nat, risk : Nat,
           penalty : Nat]

ASSUME LimitAssumption == Settings \subseteq Limits
ASSUME StoplessAssumption == Stopless \subseteq SUBSET Tasks
ASSUME WorkerAssumption == Workers \in Nat \ {0}
ASSUME TimeAssumption ==
    /\ Never \notin Nat
    /\ DayLength \in Nat \ {0}
    /\ MaxTime \in Nat
    /\ MaxFaults \in Nat

VARIABLES
    limits,  \* the settings of this deployment
    plan,    \* the symbol each execution trades
    stopless,  \* executions whose plan has no stop_loss_price
    opens,   \* the rows of account_risk_opens
    units,   \* external: the risk of the open position by symbol, 0 if flat
    stops,   \* external: symbols with a stop-loss order
    loss,    \* external: realized loss of the current day
    now,     \* the clock
    pc,      \* where each execution is
    stats,   \* AccountRiskStats of each execution, as far as it has been read
    faults

config == <<limits, plan, stopless>>
vars == <<config, opens, units, stops, loss, now, pc, stats, faults>>

DayOf(time) == time \div DayLength
Instant == Nat \union {Never}

Checking == {"loss", "count", "positions", "last_open", "algo", "judge"}
Labels == {"new", "enter", "record", "done", "blocked"} \union Checking

Open == [by : Tasks, symbol : Symbols, at : Nat]
Stats == [now : Nat, loss : Nat, trades : Nat, units : [Symbols -> Nat],
          last : Instant, risk : Nat]
NoStats == [now |-> 0, loss |-> 0, trades |-> 0,
            units |-> [s \in Symbols |-> 0], last |-> Never, risk |-> 0]

TypeOK ==
    /\ limits \in Settings
    /\ plan \in [Tasks -> Symbols]
    /\ stopless \subseteq Tasks
    /\ opens \subseteq Open
    /\ units \in [Symbols -> Nat]
    /\ stops \subseteq Symbols
    /\ loss \in Nat
    /\ now \in Nat
    /\ pc \in [Tasks -> Labels]
    /\ stats \in [Tasks -> Stats]
    /\ faults \in Nat

Goto(t, label) == pc' = [pc EXCEPT ![t] = label]

Fails == faults < MaxFaults /\ faults' = faults + 1

OpenSymbols(u) == {s \in Symbols : u[s] > 0}

Busy == {t \in Tasks : pc[t] \in Checking \union {"enter", "record"}}

-----------------------------------------------------------------------------
(* AccountRiskStore                                                        *)

CountOpensSince(time) == Cardinality({o \in opens : o.at >= time})

LastOpenAt(symbol) ==
    LET times == {o.at : o \in {p \in opens : p.symbol = symbol}}
    IN  IF times = {} THEN Never ELSE Max(times)

\* Mutant: signal_key and symbol the other way round.
SwappedArguments(t) ==
    opens' = opens \union {[by |-> plan[t], symbol |-> t, at |-> now]}

\* INSERT OR IGNORE: a key is recorded once.
RecordSuccessfulOpen(t) ==
    opens' = IF \E o \in opens : o.by = t THEN opens
             ELSE opens \union {[by |-> t, symbol |-> plan[t], at |-> now]}

-----------------------------------------------------------------------------
(* check_before_entry                                                      *)

Begin(t) ==
    /\ pc[t] = "new"
    /\ Cardinality(Busy) < Workers
    /\ stats' = [stats EXCEPT ![t].now = now]
    /\ Goto(t, "loss")
    /\ UNCHANGED <<config, opens, units, stops, loss, now, faults>>

\* _daily_realized_loss_usdt: without an answer the rule is skipped.
ReadLoss(t) ==
    /\ pc[t] = "loss"
    /\ \/ stats' = [stats EXCEPT ![t].loss = loss] /\ UNCHANGED faults
       \/ UNCHANGED stats /\ Fails
    /\ Goto(t, "count")
    /\ UNCHANGED <<config, opens, units, stops, loss, now>>

ReadCount(t) ==
    /\ pc[t] = "count"
    /\ stats' = [stats EXCEPT
          ![t].trades = CountOpensSince(DayOf(stats[t].now) * DayLength)]
    /\ Goto(t, "positions")
    /\ UNCHANGED <<config, opens, units, stops, loss, now, faults>>

\* non_zero_positions: without an answer the execution raises.
ReadPositions(t) ==
    /\ pc[t] = "positions"
    /\ \/ /\ stats' = [stats EXCEPT ![t].units = units]
          /\ Goto(t, "last_open")
          /\ UNCHANGED faults
       \/ Fails /\ Goto(t, "done") /\ UNCHANGED stats
    /\ UNCHANGED <<config, opens, units, stops, loss, now>>

ReadLastOpen(t) ==
    /\ pc[t] = "last_open"
    /\ stats' = [stats EXCEPT ![t].last = LastOpenAt(plan[t])]
    /\ Goto(t, "algo")
    /\ UNCHANGED <<config, opens, units, stops, loss, now, faults>>

\* _estimate_open_positions_risk
EstimatedRisk(u, visible) ==
    SumFunctionOnSet([s \in Symbols |-> IF s \in visible THEN u[s]
                                       ELSE u[s] * limits.penalty],
                     OpenSymbols(u))

\* open_algo_orders: without an answer no stop is visible.
ReadAlgoOrders(t) ==
    /\ pc[t] = "algo"
    /\ \E visible \in {stops, {}} :
          /\ IF visible = stops THEN UNCHANGED faults ELSE Fails
          /\ stats' = [stats EXCEPT
                ![t].risk = EstimatedRisk(stats[t].units, visible)]
    /\ Goto(t, "judge")
    /\ UNCHANGED <<config, opens, units, stops, loss, now>>

\* Mutants of the four rules: off by one, off by one, a cooldown that is
\* never active, and the planned risk left out.
TradesOverLimit(x) == limits.trades > 0 /\ x.trades > limits.trades
OpenOverLimit(x, symbol) ==
    /\ limits.open > 0
    /\ x.units[symbol] = 0
    /\ Cardinality(OpenSymbols(x.units)) > limits.open
NeverCools(x) == FALSE
CurrentRiskOnly(x, planned) == limits.risk > 0 /\ x.risk > limits.risk

LossExceeded(x) == limits.loss > 0 /\ x.loss >= limits.loss

TradesExceeded(x) == limits.trades > 0 /\ x.trades >= limits.trades

OpenExceeded(x, symbol) ==
    /\ limits.open > 0
    /\ x.units[symbol] = 0
    /\ Cardinality(OpenSymbols(x.units)) >= limits.open

CoolingDown(x) ==
    /\ limits.cooldown > 0
    /\ x.last # Never
    /\ x.now < x.last + limits.cooldown

\* _planned_new_risk_usdt: a plan without a stop adds nothing.
PlannedRisk(t) == IF t \in stopless THEN 0 ELSE 1

RiskExceeded(x, planned) == limits.risk > 0 /\ x.risk + planned > limits.risk

Judge(t) ==
    /\ pc[t] = "judge"
    /\ Goto(t, IF \/ LossExceeded(stats[t])
                  \/ TradesExceeded(stats[t])
                  \/ OpenExceeded(stats[t], plan[t])
                  \/ CoolingDown(stats[t])
                  \/ RiskExceeded(stats[t], PlannedRisk(t))
               THEN "blocked" ELSE "enter")
    /\ stats' = [stats EXCEPT ![t] = NoStats]
    /\ UNCHANGED <<config, opens, units, stops, loss, now, faults>>

-----------------------------------------------------------------------------
(* The rest of Trader.execute: the entry replaces the position or adds to  *)
(* it, or nothing is filled, or it raises before or after the fill.  Where *)
(* the plan has a stop, its order may still fail.                          *)

Enter(t) ==
    /\ pc[t] = "enter"
    /\ \E after \in {units[plan[t]] + 1, 1}, stop \in {FALSE, t \notin stopless} :
          /\ units' = [units EXCEPT ![plan[t]] = after]
          /\ stops' = IF stop THEN stops \union {plan[t]} ELSE stops
    /\ \/ Goto(t, "record") /\ UNCHANGED faults
       \/ Goto(t, "done") /\ Fails
    /\ UNCHANGED <<config, opens, loss, now, stats>>

NoEntry(t) ==
    /\ pc[t] = "enter"
    /\ Goto(t, "done")
    /\ UNCHANGED <<config, opens, units, stops, loss, now, stats, faults>>

Record(t) ==
    /\ pc[t] = "record"
    /\ RecordSuccessfulOpen(t)
    /\ Goto(t, "done")
    /\ UNCHANGED <<config, units, stops, loss, now, stats, faults>>

TaskStep(t) ==
    \/ Begin(t)
    \/ ReadLoss(t)
    \/ ReadCount(t)
    \/ ReadPositions(t)
    \/ ReadLastOpen(t)
    \/ ReadAlgoOrders(t)
    \/ Judge(t)
    \/ Enter(t)
    \/ NoEntry(t)
    \/ Record(t)

-----------------------------------------------------------------------------

\* A stop or a take profit closes a position, with or without a loss.
CloseOut(s) ==
    /\ units[s] > 0
    /\ units' = [units EXCEPT ![s] = 0]
    /\ stops' = stops \ {s}
    /\ loss' \in {loss, loss + 1}
    /\ UNCHANGED <<config, opens, now, pc, stats, faults>>

Tick ==
    /\ now < MaxTime
    /\ now' = now + 1
    /\ loss' = IF DayOf(now) = DayOf(now + 1) THEN loss ELSE 0
    /\ UNCHANGED <<config, opens, units, stops, pc, stats, faults>>

Init ==
    /\ limits \in Settings
    /\ plan \in [Tasks -> Symbols]
    /\ stopless \in Stopless
    /\ opens = {}
    /\ units = [s \in Symbols |-> 0]
    /\ stops = {}
    /\ loss = 0
    /\ now = 0
    /\ pc = [t \in Tasks |-> "new"]
    /\ stats = [t \in Tasks |-> NoStats]
    /\ faults = 0

Next ==
    \/ \E t \in Tasks : TaskStep(t)
    \/ \E s \in Symbols : CloseOut(s)
    \/ Tick

Spec == Init /\ [][Next]_vars

-----------------------------------------------------------------------------
(* Properties: how far concurrent executions overshoot a limit that each   *)
(* of them has checked.  With one worker there is no overshoot, but of the *)
(* total risk by a plan without a stop.                                    *)

\* What the check of Workers executions can let through beyond a limit.
Overshoot == Workers - 1

\* The recorded entries of a day.  (account_risk.py, the daily_max_trades rule)
DailyTradesBounded ==
    limits.trades > 0 =>
        \A o \in opens :
            Cardinality({p \in opens : DayOf(p.at) = DayOf(o.at)})
                <= limits.trades + Overshoot

\* The symbols with a position, those whose positions closed and opened
\* again during a check included.  (the max_open_positions rule)
OpenPositionsBounded ==
    limits.open > 0 => Cardinality(OpenSymbols(units)) <= limits.open + Overshoot

\* The entries of one symbol within a cooldown.  (the symbol_cooldown rule)
CooldownBounded ==
    limits.cooldown > 0 =>
        \A o \in opens :
            Cardinality({p \in opens : /\ p.symbol = o.symbol
                                       /\ p.at >= o.at
                                       /\ p.at < o.at + limits.cooldown})
                <= Workers

\* What it can let through beyond the total risk: a plan without a stop
\* passes when the limit has been reached, so that even the first of them
\* goes beyond it.
RiskOvershoot == IF stopless = {} THEN Overshoot ELSE Workers

\* The risk that is open, as long as a position without a stop is not
\* estimated below its risk.  (the max_total_risk_usdt rule)
TotalRiskBounded ==
    limits.risk > 0 /\ limits.penalty > 0 =>
        SumFunctionOnSet(units, OpenSymbols(units)) <= limits.risk + RiskOvershoot

=============================================================================
