-------------------------- MODULE MCTradeExecution --------------------------
(* Instances of TradeExecution small enough for TLC.                       *)
EXTENDS TradeExecution, TLC

CONSTANTS t1, t2

OneTask == {t1}
TwoTasks == {t1, t2}

MarketReplace(side) ==
    [side |-> side, entry |-> "market", policy |-> "replace", cancel |-> TRUE,
     fallback |-> FALSE, manual |-> FALSE, stop |-> TRUE, tps |-> 2]

LimitFallback(side) == [MarketReplace(side) EXCEPT !.entry = "limit", !.fallback = TRUE]

\* Both directions, every policy, with and without cancelling, with and
\* without a fallback, risk and manual modes.
MixedSignals ==
    {MarketReplace(1), LimitFallback(1), [LimitFallback(-1) EXCEPT !.manual = TRUE],
     [MarketReplace(1) EXCEPT !.policy = "add"],
     [MarketReplace(-1) EXCEPT !.policy = "add", !.cancel = FALSE, !.tps = 1],
     [MarketReplace(1) EXCEPT !.policy = "reject"],
     [LimitFallback(1) EXCEPT !.policy = "reverse_only", !.fallback = FALSE],
     [MarketReplace(-1) EXCEPT !.policy = "ignore_same_side", !.manual = TRUE,
                               !.stop = FALSE]}

ReplaceBuy == {MarketReplace(1)}

TaskSymmetry == Permutations(Tasks)

=============================================================================
