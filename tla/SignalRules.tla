----------------------------- MODULE SignalRules -----------------------------
(***************************************************************************)
(* What a signal must satisfy, and when: the schema (app/schemas.py), the  *)
(* checks of TradingView signals (app/tv_sandbox.py, app/tv_production.py) *)
(* with the normalisation of their guard prices, and the live guard before *)
(* the plan (app/live_guard.py).                                           *)
(*                                                                         *)
(* A TradingView signal is checked twice, by the webhook and, after an     *)
(* unknown wait in the thread pool, by Trader.execute; in between time     *)
(* passes and the market moves.  The guard prices are normalised both      *)
(* times, in place.                                                        *)
(*                                                                         *)
(* Prices are integers, shares and percentages integers over Unit; 0 is an *)
(* absent number.  The wording of a rejection is reduced to its reason.    *)
(***************************************************************************)
EXTENDS Integers, Sequences

CONSTANTS
    Payloads,   \* the signals that may be posted, a set of Payload
    Settings,   \* the configurations, a set of Setting
    Prices,     \* what the ticker may answer
    Unit,       \* 100 percent
    MaxNow      \* bound: the clock

ASSUME UnitAssumption == Unit \in Nat \ {0} /\ MaxNow \in Nat
ASSUME PriceAssumption == Prices \subseteq Nat \ {0}

VARIABLES
    settings,   \* the configuration, fixed at the start
    now,        \* external: the wall clock
    market,     \* external: the latest price
    payload,    \* raw_payload, from which the signal is parsed
    stage,      \* how far the signal has come
    reason      \* skip_reason of a rejection

intake == <<payload, stage, reason>>
environment == <<settings, now, market>>

None == 0
NoTime == -100000
Accepted == "none"

Stages == {"posted", "queued", "admitted", "rejected"}
Reasons == {Accepted, "tv_payload_invalid", "signal_expired", "schema",
            "wrong_side", "too_close", "tv_policy", "live_guard"}

Level == [price : Nat, pct : Nat]

Setting == [sandbox : BOOLEAN, source : BOOLEAN, strategy : BOOLEAN,
            timestamp : BOOLEAN, expiry : BOOLEAN, max_age : Nat, ahead : Nat,
            max_tps : Nat, min_sum : Nat, max_sum : Nat, normalize : BOOLEAN,
            min_stop : Nat, min_tp : Nat, buffer : Nat, epsilon : Nat,
            max_risk : Nat, max_margin : Nat, reject_live : BOOLEAN,
            entries : SUBSET {"market", "limit"},
            env : {"demo", "live", "unknown"}, trading : BOOLEAN,
            live_enabled : BOOLEAN, live_one_shot : BOOLEAN,
            live_rejects_tv : BOOLEAN, live_risk : Nat, live_margin : Nat,
            live_notional : Nat]

Payload == [source : {"none", "allowed", "tradingview", "other"},
            id : {"none", "tv", "other"},
            strategy : {"none", "replace", "reject", "add", "other"},
            policy : {"none", "replace", "reject", "add", "reverse_only",
                      "ignore_same_side"},
            sent : Int, side : {"none", "buy", "sell"}, malformed : BOOLEAN,
            listed : BOOLEAN,
            entry : {"none", "market", "limit"}, mode : {"none", "manual",
            "fixed_usdt", "fixed_pct"}, close : Nat, entry_price : Nat,
            signal_price : Nat, limit_price : Nat, sl : Nat, tps : Seq(Level),
            risk_usdt : Nat, risk_pct : Nat, margin_usdt : Nat,
            notional_usdt : Nat, leverage : Nat, max_leverage : Nat,
            slippage : Nat]

ASSUME SettingAssumption == Settings \subseteq Setting
ASSUME PayloadAssumption == \A p \in Payloads : p \in Payload

\* What validate_runtime (config.py) bounds: the distances and the buffer to
\* 10 percent, the tolerance to 1 percent.
ASSUME DistanceAssumption ==
    \A s \in Settings :
        /\ 10 * s.min_stop <= Unit /\ 10 * s.min_tp <= Unit
        /\ 10 * s.buffer <= Unit /\ 100 * s.epsilon <= Unit

\* The prices are counted in units so small that rounding one down costs
\* less than what a buffer adds to the tolerance; the code divides exactly.
ASSUME ResolutionAssumption ==
    \A s \in Settings, p \in Payloads :
        s.buffer > s.epsilon /\ p.close # 0
        => Unit <= p.close * (s.buffer - s.epsilon)

IntakeTypeOK ==
    /\ settings \in Settings
    /\ now \in 0..MaxNow
    /\ market \in Prices
    /\ payload \in Payload
    /\ stage \in Stages
    /\ reason \in Reasons

-----------------------------------------------------------------------------

Abs(n) == IF n < 0 THEN -n ELSE n
LevelsOf(p) == {p.tps[i] : i \in DOMAIN p.tps}

SumOf(numbers) ==
    LET sum[i \in 0..Len(numbers)] ==
            IF i = 0 THEN 0 ELSE sum[i - 1] + numbers[i]
    IN  sum[Len(numbers)]

\* The shares of the take profits together.
ShareSum(p) == SumOf([i \in DOMAIN p.tps |-> p.tps[i].pct])

\* is_tv_signal; source "tradingview" stands for this word where the allowed
\* sources do not list it
IsTv(p) == p.source = "allowed" \/ p.id = "tv"

Sandboxed(p) == settings.sandbox /\ IsTv(p)

\* The fields of _missing_tv_fields that a payload can lack here.
Incomplete(p) ==
    \/ p.id = "none" \/ p.side = "none" \/ p.entry = "none" \/ p.mode = "none"
    \/ settings.source /\ p.source = "none"
    \/ p.sl = None
    \/ p.risk_usdt = None /\ p.margin_usdt = None
    \/ p.tps = <<>>

StrategyInvalid(p) ==
    settings.strategy /\ p.strategy \notin {"replace", "reject", "add"}

Age(p) == now - p.sent

Expired(p) ==
    p.sent # NoTime /\ settings.expiry /\ Age(p) > settings.max_age

\* A missing timestamp, or one that lies in the future.
TimestampInvalid(p) ==
    IF p.sent = NoTime THEN settings.timestamp
                       ELSE settings.expiry /\ Age(p) < -settings.ahead

TpsInvalid(p) ==
    \/ p.tps = <<>>
    \/ Len(p.tps) > settings.max_tps
    \/ \E level \in LevelsOf(p) : level.price = 0 \/ level.pct \notin 1..Unit
    \/ ShareSum(p) \notin settings.min_sum..settings.max_sum

\* validate_tv_payload, in the order of its validators
PayloadReason(p) ==
    IF StrategyInvalid(p) THEN "tv_payload_invalid"
    ELSE IF Expired(p) THEN "signal_expired"
    ELSE IF TimestampInvalid(p) \/ TpsInvalid(p) \/ Incomplete(p)
    THEN "tv_payload_invalid"
    ELSE Accepted

\* The field types and validate_amounts of the schema.
SchemaValid(p) ==
    /\ ~p.malformed
    /\ p.side # "none"
    /\ \A level \in LevelsOf(p) : level.price > 0 /\ level.pct \in 1..Unit
    /\ ShareSum(p) <= Unit
    /\ (p.entry = "limit") <=> (p.limit_price # None)
    /\ CASE p.mode = "manual" \/ p.mode = "none" ->
              /\ (p.margin_usdt = None) # (p.notional_usdt = None)
              /\ p.leverage >= 1
              /\ p.risk_pct = None /\ p.risk_usdt = None
         [] p.mode = "fixed_pct" ->
              /\ p.sl # None /\ p.risk_pct \in 1..Unit
              /\ p.risk_usdt = None /\ p.notional_usdt = None
         [] p.mode = "fixed_usdt" ->
              /\ p.sl # None /\ p.risk_usdt # None
              /\ p.risk_pct = None /\ p.notional_usdt = None

-----------------------------------------------------------------------------
(* normalize_tv_guard_prices                                               *)

Buys(p) == p.side = "buy"

\* A price that lies on its side of the reference, but too near to it.
TooNear(price, ref, minimum) ==
    Unit * Abs(ref - price) <= (minimum + settings.epsilon) * ref

\* Mutant: the price is moved to the minimum itself.
PushedToMinimum(price, ref, below, minimum) ==
    IF (IF below THEN price < ref ELSE price > ref) /\ TooNear(price, ref, minimum)
    THEN (ref * (IF below THEN Unit - minimum ELSE Unit + minimum)) \div Unit
    ELSE price

\* The price, moved to the minimum distance plus the buffer if it lies on
\* its side, below or above the reference, and is too near.
Pushed(price, ref, below, minimum) ==
    IF (IF below THEN price < ref ELSE price > ref) /\ TooNear(price, ref, minimum)
    THEN LET distance == minimum + settings.buffer
         IN  (ref * (IF below THEN Unit - distance ELSE Unit + distance)) \div Unit
    ELSE price

\* Mutant: the latest price is the reference.
NormalizedToMarket(p) ==
    [p EXCEPT !.sl = Pushed(@, market, Buys(p), settings.min_stop),
              !.tps = [i \in DOMAIN p.tps |-> [p.tps[i] EXCEPT
                  !.price = Pushed(@, market, ~Buys(p), settings.min_tp)]]]

\* Only the close of the payload is a reference, and only the raw side.
Normalized(p) ==
    IF ~settings.normalize \/ p.close = None \/ p.side = "none" THEN p
    ELSE [p EXCEPT
            !.sl = IF @ = None THEN None
                   ELSE Pushed(@, p.close, Buys(p), settings.min_stop),
            !.tps = [i \in DOMAIN p.tps |-> [p.tps[i] EXCEPT
                !.price = IF @ = 0 THEN 0
                          ELSE Pushed(@, p.close, ~Buys(p), settings.min_tp)]]]

\* apply_position_strategy
WithPolicy(p) ==
    IF p.strategy \in {"replace", "reject", "add"}
    THEN [p EXCEPT !.policy = p.strategy] ELSE p

-----------------------------------------------------------------------------
(* validate_tv_policy and validate_sl_tp_levels                            *)

\* The close, another price of the payload, or else the ticker.
ReferencePrice(p) ==
    IF p.close # None THEN p.close
    ELSE IF p.entry_price # None THEN p.entry_price
    ELSE IF p.signal_price # None THEN p.signal_price
    ELSE IF p.limit_price # None THEN p.limit_price
    ELSE market

WrongSide(p, ref) ==
    \/ IF Buys(p) THEN p.sl >= ref ELSE p.sl <= ref
    \/ \E level \in LevelsOf(p) :
          IF Buys(p) THEN level.price <= ref ELSE level.price >= ref

TooClose(p, ref) ==
    \/ TooNear(p.sl, ref, settings.min_stop)
    \/ \E level \in LevelsOf(p) : TooNear(level.price, ref, settings.min_tp)

PolicyViolated(p) ==
    \/ settings.source /\ p.source = "none"
    \/ p.source \in {"tradingview", "other"}
    \/ p.id # "tv"
    \/ settings.reject_live /\ settings.env # "demo"
    \/ p.risk_usdt > settings.max_risk
    \/ p.margin_usdt > settings.max_margin
    \/ p.entry \notin settings.entries

\* Mutant: the distances are checked, the sides are not.
PolicyReasonByDistance(p) ==
    IF PayloadReason(p) # Accepted THEN PayloadReason(p)
    ELSE IF PolicyViolated(p) THEN "tv_policy"
    ELSE IF TooClose(Normalized(p), ReferencePrice(p)) THEN "too_close"
    ELSE Accepted

\* Mutant: what the webhook has checked is not checked again.
PolicyReasonWithoutPayload(p) ==
    LET ref == ReferencePrice(p)
    IN  IF PolicyViolated(p) THEN "tv_policy"
        ELSE IF WrongSide(p, ref) THEN "wrong_side"
        ELSE IF TooClose(Normalized(p), ref) THEN "too_close"
        ELSE Accepted

\* The payload is checked again, as of now, then the policy, the sides of
\* the levels, and their distances after another normalisation.
PolicyReason(p) ==
    LET ref == ReferencePrice(p)
    IN  IF PayloadReason(p) # Accepted THEN PayloadReason(p)
        ELSE IF PolicyViolated(p) THEN "tv_policy"
        ELSE IF WrongSide(p, ref) THEN "wrong_side"
        ELSE IF TooClose(Normalized(p), ref) THEN "too_close"
        ELSE Accepted

\* validate_live_guard_before_plan; the switch and the phrase of the
\* deployment are one, the symbol is allowed or not.
LiveGuardHolds(p, active) ==
    settings.env = "live" =>
    /\ settings.live_enabled
    /\ p.listed
    /\ p.risk_usdt <= settings.live_risk
    /\ p.margin_usdt <= settings.live_margin
    /\ settings.live_rejects_tv => ~IsTv(p) /\ p.source # "tradingview"
    /\ settings.live_one_shot => active

-----------------------------------------------------------------------------

\* Mutant: the arguments are swapped.
RejectSwapped(why) == stage' = why /\ reason' = "rejected"

Reject(why) == stage' = "rejected" /\ reason' = why

\* POST /tradingview: the payload checks of a TradingView signal, its
\* normalisation and its policy, then the schema.
Webhook ==
    /\ stage = "posted"
    /\ IF Sandboxed(payload) /\ PayloadReason(payload) # Accepted
       THEN Reject(PayloadReason(payload)) /\ UNCHANGED payload
       ELSE /\ payload' = IF IsTv(payload) THEN WithPolicy(Normalized(payload))
                                           ELSE payload
            /\ IF SchemaValid(payload')
               THEN stage' = "queued" /\ UNCHANGED reason
               ELSE Reject("schema")
    /\ UNCHANGED environment

\* Trader.execute up to prepare_plan: the live guard, the policy, and the
\* normalised prices.  Whether a one-shot is active is another's affair.
CheckPolicy ==
    /\ stage = "queued"
    /\ \E active \in BOOLEAN :
          IF ~LiveGuardHolds(payload, active)
          THEN Reject("live_guard") /\ UNCHANGED payload
          ELSE IF ~Sandboxed(payload)
          THEN stage' = "admitted" /\ UNCHANGED <<payload, reason>>
          ELSE /\ payload' = IF PolicyReason(payload) \in {Accepted, "too_close"}
                             THEN Normalized(payload) ELSE payload
               /\ IF PolicyReason(payload) = Accepted
                  THEN stage' = "admitted" /\ UNCHANGED reason
                  ELSE Reject(PolicyReason(payload))
    /\ UNCHANGED environment

\* validate_sl_tp_levels without a price in the payload and without ticker
TickerUnavailable ==
    /\ stage = "queued"
    /\ \E active \in BOOLEAN : LiveGuardHolds(payload, active)
    /\ Sandboxed(payload)
    /\ PayloadReason(payload) = Accepted
    /\ ~PolicyViolated(payload)
    /\ payload.close = None /\ payload.entry_price = None
    /\ payload.signal_price = None /\ payload.limit_price = None
    /\ Reject("tv_payload_invalid")
    /\ UNCHANGED <<payload, environment>>

TimePasses ==
    /\ now < MaxNow
    /\ now' = now + 1
    /\ UNCHANGED <<settings, market, intake>>

MarketMoves ==
    /\ market' \in Prices \ {market}
    /\ UNCHANGED <<settings, now, intake>>

IntakeInit ==
    /\ settings \in Settings
    /\ now = 0
    /\ market \in Prices
    /\ payload \in Payloads
    /\ stage = "posted"
    /\ reason = Accepted

IntakeNext == Webhook \/ CheckPolicy \/ TickerUnavailable

-----------------------------------------------------------------------------
(* Properties, checked on TradeSizing, which completes the specification.  *)

\* A TradingView signal that a plan is made for was fresh when it left the
\* queue of the thread pool, however long it had been there.
\* (tv_production.py, validate_signal_timestamp; tv_sandbox.py:118)
AdmittedFresh ==
    [][stage = "queued" /\ stage' = "admitted" /\ Sandboxed(payload)
       /\ settings.expiry /\ payload.sent # NoTime
       => now - payload.sent \in -settings.ahead..settings.max_age]_stage

\* The guard prices a queued signal carries, which the signals table has
\* stored, are the ones it is traded with: whatever the market did in the
\* meantime, the second normalisation changes nothing.
\* (docs/v6.4.2: the close is the reference, not the ticker)
QueuedPricesAreFinal ==
    [][stage = "queued"
       => payload'.sl = payload.sl /\ payload'.tps = payload.tps]_<<stage, payload>>

\* With a close in the payload and a buffer above the tolerance, a signal
\* that is turned down for its distances does not exist.
\* (docs/v6.4.2: no signal of the right direction is rejected by distance)
NormalizedIsFarEnough ==
    /\ settings.normalize
    /\ settings.buffer > settings.epsilon
    /\ payload.close # None
    => reason # "too_close"

\* What is admitted as a TradingView signal has its stop and its take
\* profits on their sides of the reference, farther away than the minimum,
\* and closes no more than the position.
\* (tv_production.py, validate_sl_tp_levels; schemas.py, validate_amounts)
AdmittedGuards ==
    stage = "admitted" /\ Sandboxed(payload) /\ payload.close # None =>
    /\ ~WrongSide(payload, payload.close)
    /\ ~TooClose(payload, payload.close)
    /\ ShareSum(payload) <= Unit

=============================================================================
