---------------------------- MODULE MCTradeSizing ----------------------------
(* Instances of TradeSizing small enough for TLC.  Prices are around a      *)
(* close of 100; levels must be more than 2 percent away from it, within a  *)
(* tolerance of 1 percent.                                                  *)
EXTENDS TradeSizing

Levels(price1, share1, price2, share2) ==
    <<[price |-> price1, pct |-> share1], [price |-> price2, pct |-> share2]>>

\* A limit order whose stop is too near and will be moved.
LimitBuy ==
    [source |-> "allowed", id |-> "tv", strategy |-> "replace", policy |-> "none",
     sent |-> 0, side |-> "buy", malformed |-> FALSE,
     listed |-> TRUE, entry |-> "limit",
     mode |-> "fixed_usdt", close |-> 100, entry_price |-> 0,
     signal_price |-> 100, limit_price |-> 101, sl |-> 97,
     tps |-> Levels(103, 50, 110, 50), risk_usdt |-> 48, risk_pct |-> 0,
     margin_usdt |-> 300, notional_usdt |-> 0, leverage |-> 0,
     max_leverage |-> 3, slippage |-> 2]

LimitSell == [LimitBuy EXCEPT !.side = "sell", !.sl = 103, !.limit_price = 100,
                              !.tps = Levels(97, 50, 90, 50)]

\* Not from TradingView: sized by hand.
Manual == [LimitBuy EXCEPT !.source = "none", !.id = "none", !.strategy = "none",
                           !.mode = "manual", !.risk_usdt = 0, !.leverage = 2,
                           !.margin_usdt = 250, !.max_leverage = 0]

\* A share of the balance with a margin of its own.
PercentWithMargin ==
    [LimitBuy EXCEPT !.source = "none", !.id = "none", !.strategy = "none",
                     !.mode = "fixed_pct", !.risk_usdt = 0, !.risk_pct = 4,
                     !.sl = 94, !.margin_usdt = 300]

SignalsOfAllKinds ==
    {LimitBuy, LimitSell, Manual,
     [LimitBuy EXCEPT !.entry = "market", !.limit_price = 0, !.sent = -2],
     [LimitSell EXCEPT !.sent = 5],
     [LimitBuy EXCEPT !.sent = -2, !.close = 0, !.sl = 94],
     [LimitBuy EXCEPT !.entry = "market", !.limit_price = 0, !.close = 0,
                      !.signal_price = 0, !.sl = 94, !.tps = Levels(110, 50, 112, 45)],
     [LimitSell EXCEPT !.mode = "fixed_pct", !.risk_usdt = 0, !.risk_pct = 5,
                       !.sl = 105, !.max_leverage = 0, !.sent = NoTime],
     [LimitBuy EXCEPT !.tps = Levels(103, 60, 110, 45)],
     [LimitBuy EXCEPT !.sl = 100], [LimitBuy EXCEPT !.tps = <<>>],
     [LimitBuy EXCEPT !.strategy = "other"], [LimitSell EXCEPT !.source = "other"],
     [Manual EXCEPT !.entry = "market", !.limit_price = 0, !.margin_usdt = 0,
                    !.notional_usdt = 500, !.sl = 0, !.side = "sell",
                    !.tps = Levels(97, 30, 90, 40)],
     [LimitBuy EXCEPT !.sl = 108], PercentWithMargin,
     [PercentWithMargin EXCEPT !.listed = FALSE],
     [PercentWithMargin EXCEPT !.source = "tradingview"],
     [Manual EXCEPT !.entry = "none", !.limit_price = 0],
     [PercentWithMargin EXCEPT !.risk_pct = 2, !.margin_usdt = 0],
     [Manual EXCEPT !.malformed = TRUE]}

Strict ==
    [sandbox |-> TRUE, source |-> TRUE, strategy |-> TRUE, timestamp |-> TRUE,
     expiry |-> TRUE, max_age |-> 3, ahead |-> 1, max_tps |-> 3, min_sum |-> 95,
     max_sum |-> 105, normalize |-> TRUE, min_stop |-> 2, min_tp |-> 2,
     buffer |-> 2, epsilon |-> 1, max_risk |-> 100, max_margin |-> 1000,
     reject_live |-> TRUE, entries |-> {"market", "limit"},
     env |-> "demo", trading |-> TRUE, live_enabled |-> FALSE,
     live_one_shot |-> TRUE, live_rejects_tv |-> TRUE, live_risk |-> 20,
     live_margin |-> 300, live_notional |-> 600]

\* The defaults, a buffer within the tolerance, and no normalisation.
Live == [Strict EXCEPT !.env = "live", !.live_enabled = TRUE]

SettingsOfAllKinds ==
    {Strict, Live, [Strict EXCEPT !.trading = FALSE], [Strict EXCEPT !.buffer = 1],
     [Strict EXCEPT !.normalize = FALSE, !.timestamp = FALSE, !.expiry = FALSE]}

Around == {98, 100, 102}
FeeOfOne == {1}
TwoBrackets == <<[cap |-> 550, leverage |-> 5], [cap |-> 2000, leverage |-> 2]>>
AnyEntry == {"market", "limit"}

=============================================================================
