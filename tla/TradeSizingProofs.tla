-------------------------- MODULE TradeSizingProofs --------------------------
(***************************************************************************)
(* Proofs about SignalRules and TradeSizing, for any signals, settings,    *)
(* prices, steps and fees: a queued signal is still fresh when it is       *)
(* admitted and is traded with the prices it was queued with, on their     *)
(* sides and beyond the minimum distance; a plan, its limit order and its  *)
(* fallback risk no more than the target, at a leverage within its cap;    *)
(* and the take profits fit what was filled.                               *)
(***************************************************************************)
EXTENDS TradeSizing, SequenceTheorems, WellFoundedInduction, TLAPS

-----------------------------------------------------------------------------
(* Induction over numbers, as an argument about the least counterexample:  *)
(* the library's induction theorems take an operator.                      *)

NatLess == {ss \in Nat \X Nat : ss[1] < ss[2]}

LEMMA NatLeast ==
    ASSUME NEW T \in SUBSET Nat, T # {}
    PROVE  \E n \in T : \A m \in T : n <= m
  <1>1. IsWellFoundedOn(NatLess, Nat)
    BY NatLessThanWellFounded DEF OpToRel, NatLess
  <1>2. PICK n \in T : \A m \in T : ~ (<<m, n>> \in NatLess)
    BY <1>1, WFMin
  <1>3. ASSUME NEW m \in T
        PROVE  n <= m
    <2>1. ~ (m < n)
      BY <1>2 DEF NatLess
    <2>. QED  BY <2>1
  <1>. QED  BY <1>3

-----------------------------------------------------------------------------
(* What happens to the payload.                                            *)

\* What the proofs need to know of a payload.
Numbers(p) ==
    /\ {"source", "id", "side", "mode", "close", "sent", "sl", "tps", "policy",
        "risk_usdt", "risk_pct", "limit_price"} \subseteq DOMAIN p
    /\ p.sent \in Int
    /\ p.close \in Nat
    /\ p.sl \in Nat
    /\ p.risk_usdt \in Nat
    /\ p.risk_pct \in Nat
    /\ p.limit_price \in Nat

\* What a normalisation leaves alone.
Alike(p, q) ==
    /\ q.source = p.source
    /\ q.id = p.id
    /\ q.side = p.side
    /\ q.mode = p.mode
    /\ q.close = p.close
    /\ q.sent = p.sent
    /\ q.risk_usdt = p.risk_usdt
    /\ q.risk_pct = p.risk_pct
    /\ q.limit_price = p.limit_price

SameGuards(p, q) == q.sl = p.sl /\ q.tps = p.tps

\* A second normalisation would change nothing.
Settled(p) == SameGuards(p, Normalized(p))

LEMMA PayloadNumbers == \A p \in Payload : Numbers(p)
  <1>. SUFFICES ASSUME NEW p \in Payload PROVE Numbers(p)
    OBVIOUS
  <1>1. {"source", "id", "side", "mode", "close", "sent", "sl", "tps", "policy",
         "risk_usdt", "risk_pct", "limit_price"} \subseteq DOMAIN p
    BY DEF Payload
  <1>2. p.sent \in Int /\ p.sl \in Nat /\ p.risk_usdt \in Nat
    BY DEF Payload
  <1>3. p.close \in Nat
    BY DEF Payload
  <1>4. p.risk_pct \in Nat /\ p.limit_price \in Nat
    BY DEF Payload
  <1>. QED  BY <1>1, <1>2, <1>3, <1>4 DEF Numbers

\* The distances of a configuration, together below the whole.
LEMMA Distances ==
    ASSUME settings \in Settings
    PROVE  /\ settings.min_stop \in Nat /\ settings.min_tp \in Nat
           /\ settings.buffer \in Nat /\ settings.epsilon \in Nat
           /\ settings.min_stop + settings.buffer <= Unit
           /\ settings.min_tp + settings.buffer <= Unit
  <1>1. /\ settings.min_stop \in Nat /\ settings.min_tp \in Nat
        /\ settings.buffer \in Nat /\ settings.epsilon \in Nat
    BY SettingAssumption DEF Setting
  <1>2. /\ 10 * settings.min_stop <= Unit /\ 10 * settings.min_tp <= Unit
        /\ 10 * settings.buffer <= Unit
    BY DistanceAssumption
  <1>. QED  BY <1>1, <1>2, UnitAssumption

\* A price that is moved remains one.
LEMMA PushedNat ==
    ASSUME NEW price \in Nat, NEW ref \in Nat, NEW below \in BOOLEAN,
           NEW minimum \in {settings.min_stop, settings.min_tp}, settings \in Settings
    PROVE  Pushed(price, ref, below, minimum) \in Nat
  <1>. DEFINE distance == minimum + settings.buffer
  <1>1. distance \in Nat /\ distance <= Unit
    BY Distances
  <1>. HIDE DEF distance
  <1>2. Unit - distance \in Nat /\ Unit + distance \in Nat
    BY <1>1, UnitAssumption
  <1>3. ref * (Unit - distance) \in Nat /\ ref * (Unit + distance) \in Nat
    BY <1>2
  <1>4. \A n \in Nat : n \div Unit \in Nat
    BY UnitAssumption
  <1>. QED  BY <1>3, <1>4 DEF Pushed, distance

\* The price a guard is moved to depends on the reference alone.
LEMMA PushedTwice ==
    ASSUME NEW price, NEW ref, NEW below, NEW minimum
    PROVE  Pushed(Pushed(price, ref, below, minimum), ref, below, minimum)
             = Pushed(price, ref, below, minimum)
  BY DEF Pushed

\* Writing prices of guards, or a policy, into a payload leaves a payload.
LEMMA PayloadExcept ==
    ASSUME NEW p \in Payload, NEW sl \in Nat, NEW tps \in Seq(Level)
    PROVE  [p EXCEPT !.sl = sl, !.tps = tps] \in Payload
  BY DEF Payload

LEMMA NormalizedPayload ==
    ASSUME NEW p \in Payload, settings \in Settings
    PROVE  Normalized(p) \in Payload /\ Alike(p, Normalized(p))
  <1>. DEFINE moved(n) == Pushed(n, p.close, ~Buys(p), settings.min_tp)
              sl == IF p.sl = None THEN None
                    ELSE Pushed(p.sl, p.close, Buys(p), settings.min_stop)
              tps == [i \in DOMAIN p.tps |-> [p.tps[i] EXCEPT
                        !.price = IF @ = 0 THEN 0 ELSE moved(@)]]
  <1>1. Numbers(p) /\ p.tps \in Seq(Level)
    BY PayloadNumbers DEF Payload
  <1>2. sl \in Nat
    BY <1>1, PushedNat DEF Numbers, Buys, None
  <1>3. tps \in Seq(Level)
    <2>1. \A n \in Nat : moved(n) \in Nat
      BY <1>1, PushedNat DEF Numbers, Buys
    <2>2. \A level \in Level :
             [level EXCEPT !.price = IF @ = 0 THEN 0 ELSE moved(@)] \in Level
      BY <2>1 DEF Level
    <2>3. PICK n \in Nat : p.tps \in [1..n -> Level]
      BY <1>1, SeqDef
    <2>. HIDE DEF moved
    <2>4. DOMAIN p.tps = 1..n /\ \A i \in 1..n : p.tps[i] \in Level
      BY <2>3
    <2>5. tps = [i \in 1..n |-> [p.tps[i] EXCEPT !.price = IF @ = 0 THEN 0 ELSE moved(@)]]
      BY <2>4
    <2>6. \A i \in 1..n :
             [p.tps[i] EXCEPT !.price = IF @ = 0 THEN 0 ELSE moved(@)] \in Level
      BY <2>2, <2>4
    <2>. HIDE DEF tps
    <2>7. tps \in [1..n -> Level]
      BY <2>5, <2>6
    <2>. QED  BY <2>7, SeqDef
  <1>4. Normalized(p) = p \/ Normalized(p) = [p EXCEPT !.sl = sl, !.tps = tps]
    BY <1>1 DEF Normalized, Numbers
  <1>. HIDE DEF sl, tps
  <1>5. Alike(p, Normalized(p))
    BY <1>1, <1>4 DEF Alike, Numbers
  <1>. QED  BY <1>2, <1>3, <1>4, <1>5, PayloadExcept

LEMMA PolicyKeeps ==
    ASSUME NEW p \in Payload
    PROVE  /\ WithPolicy(p) \in Payload
           /\ Alike(p, WithPolicy(p))
           /\ SameGuards(p, WithPolicy(p))
  <1>1. Numbers(p)
    BY PayloadNumbers
  <1>2. WithPolicy(p) \in Payload
    <2>1. \A policy \in {"replace", "reject", "add"} : [p EXCEPT !.policy = policy] \in Payload
      BY DEF Payload
    <2>. QED  BY <2>1 DEF WithPolicy
  <1>. QED  BY <1>1, <1>2 DEF WithPolicy, Numbers, Alike, SameGuards

\* Normalisation is idempotent: a guard that was moved stays where it is.
LEMMA NormalizedIsSettled ==
    ASSUME NEW p \in Payload
    PROVE  Settled(Normalized(p))
  <1>. DEFINE q == Normalized(p)
              moved(n) == Pushed(n, p.close, ~Buys(p), settings.min_tp)
  <1>1. CASE ~settings.normalize \/ p.close = None \/ p.side = "none"
    BY <1>1 DEF Normalized, Settled, SameGuards
  <1>2. CASE settings.normalize /\ p.close # None /\ p.side # "none"
    <2>1. {"side", "close", "sl", "tps"} \subseteq DOMAIN p
      BY DEF Payload
    <2>2. q.close = p.close /\ q.side = p.side /\ "sl" \in DOMAIN q /\ "tps" \in DOMAIN q
      BY <1>2, <2>1 DEF Normalized
    <2>3. Normalized(q).sl = q.sl
      BY <1>2, <2>1, <2>2, PushedTwice DEF Normalized, Buys
    <2>4. q.tps = [i \in DOMAIN p.tps |-> [p.tps[i] EXCEPT
                     !.price = IF @ = 0 THEN 0 ELSE moved(@)]]
      BY <1>2, <2>1 DEF Normalized
    <2>. HIDE DEF q
    <2>5. Normalized(q).tps = [i \in DOMAIN q.tps |-> [q.tps[i] EXCEPT
                                 !.price = IF @ = 0 THEN 0 ELSE moved(@)]]
      BY <1>2, <2>2 DEF Normalized, Buys
    <2>6. \A i \in DOMAIN p.tps : "price" \in DOMAIN p.tps[i]
      <3>1. p.tps \in Seq(Level)
        BY DEF Payload
      <3>2. \A i \in DOMAIN p.tps : p.tps[i] \in Level
        BY <3>1
      <3>. QED  BY <3>2 DEF Level
    <2>7. \A n : moved(moved(n)) = moved(n)
      BY DEF Pushed
    <2>8. ASSUME NEW i \in DOMAIN p.tps
          PROVE  [q.tps[i] EXCEPT !.price = IF @ = 0 THEN 0 ELSE moved(@)] = q.tps[i]
      <3>. DEFINE r == p.tps[i]
                  n == IF r.price = 0 THEN 0 ELSE moved(r.price)
      <3>1. q.tps[i] = [r EXCEPT !.price = n]
        BY <2>4
      <3>2. q.tps[i].price = n
        BY <3>1, <2>6
      <3>3. (IF n = 0 THEN 0 ELSE moved(n)) = n
        BY <2>7
      <3>. HIDE DEF n, moved
      <3>. QED  BY <3>1, <3>2, <3>3
    <2>9. q.tps = [i \in DOMAIN q.tps |-> q.tps[i]]
      BY <2>4
    <2>10. DOMAIN q.tps = DOMAIN p.tps
      BY <2>4
    <2>11. Normalized(q).tps = q.tps
      BY <2>5, <2>8, <2>9, <2>10
    <2>. QED  BY <2>3, <2>11 DEF Settled, SameGuards, q
  <1>. QED  BY <1>1, <1>2

\* What a normalisation makes of a signal depends on these fields only.
LEMMA NormalizedAlike ==
    ASSUME NEW p, NEW q, Numbers(p), Numbers(q), Alike(p, q), SameGuards(p, q),
           Settled(p)
    PROVE  Settled(q)
  BY DEF Settled, SameGuards, Alike, Numbers, Normalized, Buys

LEMMA GuardsAlike ==
    ASSUME NEW p, NEW q, SameGuards(p, q), q.side = p.side
    PROVE  /\ ShareSum(q) = ShareSum(p)
           /\ \A ref : WrongSide(q, ref) <=> WrongSide(p, ref)
  <1>1. ShareSum(q) = ShareSum(p)
    BY DEF ShareSum, SameGuards
  <1>2. LevelsOf(q) = LevelsOf(p)
    BY DEF LevelsOf, SameGuards
  <1>. QED  BY <1>1, <1>2 DEF WrongSide, Buys, SameGuards

-----------------------------------------------------------------------------
(* The invariant.                                                          *)

Typed ==
    /\ settings \in Settings
    /\ now \in Nat
    /\ market \in Prices
    /\ payload \in Payload

\* A plan is made for an admitted signal, whose payload no longer changes.
PlannedLate ==
    /\ phase # "none" => stage = "admitted"
    /\ phase = "none" => plan = NoPlan

QueuedWhole ==
    stage = "queued" => /\ ShareSum(payload) <= Unit
                        /\ IsTv(payload) => Settled(payload)

SizingInv == Typed /\ PlannedLate /\ QueuedWhole /\ AdmittedGuards /\ PlanWithinTarget

\* What is true of the signal stays true while it and the settings stand.
LEMMA SignalStands ==
    ASSUME QueuedWhole, AdmittedGuards, UNCHANGED <<settings, payload, stage>>
    PROVE  QueuedWhole' /\ AdmittedGuards'
  <1>1. QueuedWhole'
    BY DEF QueuedWhole, IsTv, Settled, SameGuards, Normalized, Pushed, TooNear,
           Buys, ShareSum
  <1>2. AdmittedGuards'
    BY DEF AdmittedGuards, Sandboxed, IsTv, WrongSide, TooClose, TooNear, Buys,
           LevelsOf, ShareSum
  <1>. QED  BY <1>1, <1>2

LEMMA PlanStands ==
    ASSUME PlanWithinTarget, UNCHANGED <<payload, plan>>
    PROVE  PlanWithinTarget'
  BY DEF PlanWithinTarget, RiskMode, LossAtStop, TargetRisk

LEMMA NoPlanNoRisk ==
    ASSUME PlannedLate, stage # "admitted", UNCHANGED <<plan, phase>>
    PROVE  plan' = NoPlan /\ PlanWithinTarget' /\ PlannedLate'
  BY DEF PlannedLate, PlanWithinTarget

LEMMA SizingInvInit == Init => SizingInv
  <1>. SUFFICES ASSUME Init PROVE SizingInv
    OBVIOUS
  <1>1. payload \in Payload
    BY PayloadAssumption DEF Init, IntakeInit
  <1>. QED  BY <1>1 DEF Init, IntakeInit, SizingInv, Typed, PlannedLate, QueuedWhole,
                              AdmittedGuards, PlanWithinTarget

-----------------------------------------------------------------------------
(* The steps.                                                              *)

LEMMA WebhookKeeps ==
    ASSUME SizingInv, Webhook, UNCHANGED sizing
    PROVE  SizingInv'
  <1>. DEFINE q == Normalized(payload)
              r == WithPolicy(q)
  <1>1. payload \in Payload
    BY DEF SizingInv, Typed
  <1>2. q \in Payload /\ Alike(payload, q) /\ Settled(q)
    BY <1>1, NormalizedPayload, NormalizedIsSettled DEF SizingInv, Typed
  <1>3. r \in Payload /\ Alike(q, r) /\ SameGuards(q, r)
    BY <1>2, PolicyKeeps
  <1>4. Settled(r)
    BY <1>2, <1>3, NormalizedAlike, PayloadNumbers
  <1>5. payload' = payload \/ payload' = r
    BY DEF Webhook
  <1>. HIDE DEF q, r
  <1>6. stage' # "posted" /\ stage' # "admitted" /\ UNCHANGED environment
    BY DEF Webhook, Reject
  <1>7. Typed'
    BY <1>1, <1>3, <1>5, <1>6 DEF SizingInv, Typed, environment
  <1>8. ASSUME stage' = "queued"
        PROVE  SchemaValid(payload') /\ (IsTv(payload') => payload' = r)
    <2>1. SchemaValid(payload')
      BY <1>8 DEF Webhook, Reject
    <2>2. payload' = IF IsTv(payload) THEN r ELSE payload
      BY <1>8 DEF Webhook, Reject, q, r
    <2>. QED  BY <2>1, <2>2
  <1>9. QueuedWhole'
    <2>1. stage' = "queued" => ShareSum(payload') <= Unit
      BY <1>8 DEF SchemaValid
    <2>2. stage' = "queued" /\ IsTv(payload') => Settled(payload')
      BY <1>4, <1>8
    <2>3. Settled(payload') => Settled(payload)'
      BY <1>6 DEF environment, Settled, SameGuards, Normalized, Pushed, TooNear, Buys
    <2>4. ShareSum(payload)' = ShareSum(payload') /\ (IsTv(payload)' <=> IsTv(payload'))
      BY DEF ShareSum, IsTv
    <2>. QED  BY <2>1, <2>2, <2>3, <2>4 DEF QueuedWhole
  <1>10. plan' = NoPlan /\ PlanWithinTarget' /\ PlannedLate'
    BY <1>6, NoPlanNoRisk DEF SizingInv, Webhook, sizing, PlannedLate
  <1>. QED  BY <1>6, <1>7, <1>9, <1>10 DEF SizingInv, AdmittedGuards

LEMMA CheckPolicyKeeps ==
    ASSUME SizingInv, CheckPolicy, UNCHANGED sizing
    PROVE  SizingInv'
  <1>. DEFINE q == Normalized(payload)
  <1>1. payload \in Payload /\ Numbers(payload)
    BY PayloadNumbers DEF SizingInv, Typed
  <1>2. q \in Payload /\ Alike(payload, q)
    BY <1>1, NormalizedPayload DEF SizingInv, Typed
  <1>3. payload' = payload \/ payload' = q
    BY DEF CheckPolicy
  <1>4. /\ stage = "queued" /\ stage' \in {"rejected", "admitted"}
        /\ UNCHANGED environment
    BY DEF CheckPolicy, Reject
  <1>. HIDE DEF q
  <1>5. Typed'
    BY <1>1, <1>2, <1>3, <1>4 DEF SizingInv, Typed, environment
  <1>6. QueuedWhole'
    BY <1>4 DEF QueuedWhole
  <1>7. plan' = NoPlan /\ PlanWithinTarget' /\ PlannedLate'
    <2>1. stage # "admitted" /\ phase = "none"
      BY <1>4 DEF SizingInv, PlannedLate
    <2>. QED  BY <2>1, NoPlanNoRisk DEF SizingInv, sizing, PlannedLate
  <1>8. AdmittedGuards'
    <2>. SUFFICES ASSUME stage' = "admitted", Sandboxed(payload)', payload'.close # None
                  PROVE  /\ ~WrongSide(payload', payload'.close)
                         /\ ~TooClose(payload, payload.close)'
                         /\ ShareSum(payload') <= Unit
      BY DEF AdmittedGuards, WrongSide, Buys, LevelsOf, ShareSum
    <2>1. Sandboxed(payload)
      BY <1>1, <1>2, <1>3, <1>4 DEF Sandboxed, IsTv, Alike, environment
    <2>2. PolicyReason(payload) = Accepted /\ payload' = q
      BY <2>1 DEF CheckPolicy, Reject, Accepted, q
    <2>3. payload.close # None /\ ReferencePrice(payload) = payload.close
          /\ payload'.close = payload.close
      BY <1>2, <2>2 DEF Alike, ReferencePrice
    <2>4. ~WrongSide(payload, payload.close) /\ ~TooClose(q, payload.close)
      BY <2>2, <2>3 DEF PolicyReason, Accepted, q
    <2>5. SameGuards(payload, q) /\ ShareSum(payload) <= Unit
      BY <1>4, <2>1 DEF SizingInv, QueuedWhole, Sandboxed, Settled, q
    <2>6. q.side = payload.side
      BY <1>2 DEF Alike
    <2>7. ~WrongSide(q, payload.close) /\ ShareSum(q) <= Unit
      BY <2>4, <2>5, <2>6, GuardsAlike
    <2>8. TooClose(payload, payload.close)' <=> TooClose(payload', payload'.close)
      BY <1>4 DEF TooClose, TooNear, LevelsOf, environment
    <2>. QED  BY <2>2, <2>3, <2>4, <2>7, <2>8
  <1>. QED  BY <1>5, <1>6, <1>7, <1>8 DEF SizingInv

-----------------------------------------------------------------------------
(* What a plan risks.                                                      *)

LEMMA FloorBelow ==
    ASSUME NEW n \in Int, NEW step \in Nat \ {0}
    PROVE  /\ FloorTo(n, step) \in Int
           /\ FloorTo(n, step) <= n
           /\ n >= 0 => FloorTo(n, step) >= 0
  <1>1. n \div step \in Int /\ (n \div step) * step <= n
    OBVIOUS
  <1>2. n >= 0 => n \div step >= 0
    OBVIOUS
  <1>3. FloorTo(n, step) \in Int /\ FloorTo(n, step) <= n
    BY <1>1 DEF FloorTo
  <1>4. n >= 0 => FloorTo(n, step) >= 0
    <2>. DEFINE k == n \div step
    <2>1. k \in Int /\ (n >= 0 => k >= 0)
      BY <1>1, <1>2
    <2>. HIDE DEF k
    <2>2. n >= 0 => k * step >= 0
      BY <2>1
    <2>. QED  BY <2>2 DEF FloorTo, k
  <1>. QED  BY <1>3, <1>4

LEMMA QtyWithinTarget ==
    ASSUME NEW target \in Nat, NEW parts \in Nat \ {0}, NEW loss \in Nat \ {0}
    PROVE  /\ QtyForRisk(target, parts, loss) \in Nat
           /\ QtyForRisk(target, parts, loss) * (parts * loss) <= target
  <1>. DEFINE all == parts * loss
              raw == target \div all
              qty == FloorTo(raw, Step)
  <1>1. all \in Nat \ {0}
    OBVIOUS
  <1>. HIDE DEF all
  <1>2. raw \in Nat /\ raw * all <= target
    BY <1>1, FloorBelow DEF FloorTo
  <1>. HIDE DEF raw
  <1>3. qty \in Nat /\ qty <= raw
    BY <1>2, FloorBelow, StepAssumption
  <1>. HIDE DEF qty
  <1>4. qty * all <= raw * all
    BY <1>1, <1>2, <1>3
  <1>5. qty = QtyForRisk(target, parts, loss)
    BY DEF QtyForRisk, qty, raw, all
  <1>6. qty * all \in Int /\ raw * all \in Int
    BY <1>1, <1>2, <1>3
  <1>. QED  BY <1>2, <1>3, <1>4, <1>5, <1>6 DEF all

LEMMA LossOfQty ==
    ASSUME NEW qty \in Nat, NEW ref \in Int, NEW stop \in Int, NEW fee \in Nat
    PROVE  LossAtStop([qty |-> qty, cost |-> qty * ref], stop, fee)
             = qty * PerUnitLoss(ref, stop, fee)
  <1>1. qty * ref - qty * stop = qty * (ref - stop)
    OBVIOUS
  <1>2. Abs(qty * (ref - stop)) = qty * Abs(ref - stop)
    <2>1. CASE ref - stop < 0
      <3>1. qty = 0 \/ qty * (ref - stop) < 0
        BY <2>1
      <3>. QED  BY <2>1, <3>1 DEF Abs
    <2>2. CASE ref - stop >= 0
      <3>1. qty * (ref - stop) >= 0
        BY <2>2
      <3>. QED  BY <2>2, <3>1 DEF Abs
    <2>. QED  BY <2>1, <2>2
  <1>3. Abs(ref - stop) \in Int
    BY DEF Abs
  <1>. DEFINE d == Abs(ref - stop)
  <1>4. LossAtStop([qty |-> qty, cost |-> qty * ref], stop, fee)
          = Unit * (qty * d) + fee * (qty * ref + qty * stop)
    BY <1>1, <1>2 DEF LossAtStop
  <1>5. PerUnitLoss(ref, stop, fee) = Unit * d + fee * (ref + stop)
    BY DEF PerUnitLoss
  <1>. HIDE DEF d
  <1>6. Unit * (qty * d) + fee * (qty * ref + qty * stop)
          = qty * (Unit * d + fee * (ref + stop))
    BY <1>3, UnitAssumption DEF d
  <1>. QED  BY <1>4, <1>5, <1>6

LEMMA PlanPrice ==
    ASSUME Typed
    PROVE  EntryPrice \in Int
  <1>1. payload.limit_price \in Nat /\ market \in Nat
    BY PriceAssumption, PayloadNumbers DEF Typed, Numbers
  <1>. QED  BY <1>1, FloorBelow, StepAssumption DEF EntryPrice

LEMMA PreparedWithinTarget ==
    ASSUME Typed, PreparePlan
    PROVE  PlanWithinTarget' \/ UNCHANGED plan
  <1>. SUFFICES ASSUME RiskMode, plan' # plan
                PROVE  PlanWithinTarget'
    <2>1. UNCHANGED payload
      BY DEF PreparePlan, intake
    <2>. QED  BY <2>1 DEF PlanWithinTarget, RiskMode
  <1>1. PICK fee \in Fees :
           /\ RiskPlanHolds(EntryPrice, fee, ConfiguredMax)
           /\ \E max : plan' = [RiskPlan(EntryPrice, fee) EXCEPT !.max = max]
    BY DEF PreparePlan, Refuse, PlanHolds, PlanAt
  <1>. DEFINE ref == EntryPrice
              stop == FloorTo(payload.sl, Tick)
              loss == PerUnitLoss(ref, stop, fee)
              qty == QtyForRisk(TargetRisk, 1, loss)
  <1>2. /\ plan'.ref = ref /\ plan'.stop = stop
        /\ plan'.qty = qty /\ plan'.fee = fee
    BY <1>1 DEF RiskPlan
  <1>3. ref \in Int /\ stop \in Int /\ fee \in Nat
    BY PlanPrice, FloorBelow, StepAssumption, AccountAssumption, PayloadNumbers
    DEF Typed, Numbers
  <1>4. loss > 0
    BY <1>1 DEF RiskPlanHolds
  <1>5. loss \in Nat \ {0}
    <2>1. loss \in Int
      BY <1>3, UnitAssumption DEF PerUnitLoss, Abs
    <2>. QED  BY <1>4, <2>1
  <1>6. TargetRisk \in Nat
    BY UnitAssumption, AccountAssumption, PayloadNumbers DEF TargetRisk, Typed, Numbers
  <1>. HIDE DEF ref, stop, loss
  <1>7. qty \in Nat /\ qty * loss <= TargetRisk
    <2>1. qty \in Nat /\ qty * (1 * loss) <= TargetRisk
      BY <1>5, <1>6, QtyWithinTarget
    <2>. QED  BY <1>5, <2>1
  <1>. HIDE DEF qty
  <1>8. LossAtStop([qty |-> qty, cost |-> qty * ref], stop, fee) <= TargetRisk
    <2>1. LossAtStop([qty |-> qty, cost |-> qty * ref], stop, fee) = qty * loss
      BY <1>3, <1>7, LossOfQty DEF loss
    <2>. QED  BY <1>7, <2>1
  <1>9. TargetRisk' = TargetRisk /\ UNCHANGED payload
    BY DEF PreparePlan, intake, TargetRisk
  <1>10. LossAtStop([qty |-> plan.qty, cost |-> plan.qty * plan.ref], plan.stop, plan.fee)'
           = LossAtStop([qty |-> qty, cost |-> qty * ref], stop, fee)
    BY <1>2 DEF LossAtStop, Abs
  <1>. QED  BY <1>8, <1>9, <1>10 DEF PlanWithinTarget

-----------------------------------------------------------------------------

\* Everything after the rules leaves the signal alone, and nothing but
\* prepare_plan writes the plan.
Later ==
    \/ GuardPlan \/ MarketEntry \/ PlaceLimit \/ FillLimit \/ Poll \/ CancelLimit
    \/ AfterLimit

LEMMA LaterKeeps ==
    ASSUME SizingInv, Later
    PROVE  /\ UNCHANGED <<intake, environment, plan>>
           /\ phase # "none" /\ phase' # "none"
  <1>1. CASE GuardPlan
    BY <1>1 DEF GuardPlan, Refuse
  <1>2. CASE MarketEntry
    BY <1>2 DEF MarketEntry, Refuse, Enter
  <1>3. CASE PlaceLimit
    BY <1>3 DEF PlaceLimit
  <1>4. CASE FillLimit
    BY <1>4 DEF FillLimit
  <1>5. CASE Poll
    BY <1>5 DEF Poll, Enter
  <1>6. CASE CancelLimit
    BY <1>6 DEF CancelLimit
  <1>7. CASE AfterLimit
    BY <1>7 DEF AfterLimit, WithoutFallback, Enter
  <1>. QED  BY <1>1, <1>2, <1>3, <1>4, <1>5, <1>6, <1>7 DEF Later

LEMMA SizingInvStep == SizingInv /\ [Next]_vars => SizingInv'
  <1>. SUFFICES ASSUME SizingInv, [Next]_vars PROVE SizingInv'
    OBVIOUS
  <1>. USE DEF SizingInv
  <1>1. CASE Webhook /\ UNCHANGED sizing
    BY <1>1, WebhookKeeps
  <1>2. CASE CheckPolicy /\ UNCHANGED sizing
    BY <1>2, CheckPolicyKeeps
  <1>3. CASE TickerUnavailable /\ UNCHANGED sizing
    <2>1. stage = "queued" /\ stage' = "rejected" /\ UNCHANGED <<payload, environment, sizing>>
      BY <1>3 DEF TickerUnavailable, Reject
    <2>2. phase = "none" /\ plan' = NoPlan /\ PlanWithinTarget'
      BY <2>1, NoPlanNoRisk DEF PlannedLate, sizing
    <2>3. Typed'
      BY <2>1 DEF Typed, environment
    <2>. QED  BY <2>1, <2>2, <2>3 DEF PlannedLate, QueuedWhole, AdmittedGuards, sizing
  <1>4. CASE (TimePasses \/ MarketMoves) /\ UNCHANGED sizing
    <2>1. /\ UNCHANGED <<settings, intake, sizing>>
          /\ now' \in Nat /\ market' \in Prices
      BY <1>4 DEF TimePasses, MarketMoves, Typed
    <2>2. Typed'
      BY <2>1 DEF Typed, intake
    <2>3. QueuedWhole' /\ AdmittedGuards' /\ PlanWithinTarget'
      BY <2>1, SignalStands, PlanStands DEF intake, sizing
    <2>. QED  BY <2>1, <2>2, <2>3 DEF PlannedLate, intake, sizing
  <1>5. CASE PreparePlan \/ PlanUnavailable
    <2>1. /\ UNCHANGED <<intake, environment>>
          /\ stage = "admitted" /\ phase' # "none"
      BY <1>5 DEF PreparePlan, PlanUnavailable, Refuse
    <2>2. PlanWithinTarget'
      <3>1. PlanWithinTarget' \/ UNCHANGED plan
        BY <1>5, PreparedWithinTarget DEF PlanUnavailable, Refuse
      <3>. QED  BY <2>1, <3>1, PlanStands DEF intake
    <2>3. Typed'
      BY <2>1 DEF Typed, intake, environment
    <2>. QED  BY <2>1, <2>2, <2>3, SignalStands DEF PlannedLate, intake, environment
  <1>6. CASE Later
    <2>1. /\ UNCHANGED <<intake, environment, plan>>
          /\ phase # "none" /\ phase' # "none"
      BY <1>6, LaterKeeps
    <2>2. Typed'
      BY <2>1 DEF Typed, intake, environment
    <2>. QED  BY <2>1, <2>2, SignalStands, PlanStands DEF PlannedLate, intake, environment
  <1>7. CASE UNCHANGED vars
    <2>1. Typed'
      BY <1>7 DEF Typed, vars, intake, environment
    <2>. QED  BY <1>7, <2>1, SignalStands, PlanStands
              DEF PlannedLate, vars, intake, environment, sizing
  <1>. QED  BY <1>1, <1>2, <1>3, <1>4, <1>5, <1>6, <1>7 DEF Next, IntakeNext, Later

-----------------------------------------------------------------------------
(* The distance of a guard that has been moved.                            *)

\* Rounding down to a whole loses less than one.
LEMMA WholeOf ==
    ASSUME NEW n \in Nat
    PROVE  /\ n \div Unit \in Nat
           /\ Unit * (n \div Unit) <= n
           /\ n < Unit * (n \div Unit) + Unit
  BY UnitAssumption

\* A guard on its side that normalisation leaves where it is, is far enough.
LEMMA SettledIsFar ==
    ASSUME NEW price \in Nat, NEW ref \in Nat, NEW below \in BOOLEAN,
           NEW minimum \in {settings.min_stop, settings.min_tp}, settings \in Settings,
           IF below THEN price < ref ELSE price > ref,
           settings.buffer > settings.epsilon,
           Unit <= ref * (settings.buffer - settings.epsilon),
           Pushed(price, ref, below, minimum) = price
    PROVE  ~TooNear(price, ref, minimum)
  <1>. DEFINE e == settings.epsilon
              b == settings.buffer
              m == minimum
  <1>1. /\ e \in Nat /\ b \in Nat /\ m \in Nat /\ b > e /\ m + b <= Unit
        /\ Unit <= ref * (b - e) /\ Unit \in Nat \ {0}
    BY Distances, UnitAssumption
  <1>. SUFFICES ASSUME TooNear(price, ref, minimum) PROVE FALSE
    OBVIOUS
  <1>2. ref > 0
    <2>1. ref = 0 => ref * (b - e) = 0
      BY <1>1
    <2>. QED  BY <1>1, <2>1
  <1>3. price = (ref * (IF below THEN Unit - (m + b) ELSE Unit + (m + b))) \div Unit
    BY DEF Pushed
  <1>4. Unit * Abs(ref - price) <= (m + e) * ref
    BY DEF TooNear
  <1>. HIDE DEF e, b, m
  <1>5. (m + e) * ref = m * ref + e * ref /\ ref * (b - e) = b * ref - e * ref
    BY <1>1
  <1>6. ref * (Unit - (m + b)) = Unit * ref - m * ref - b * ref
        /\ ref * (Unit + (m + b)) = Unit * ref + m * ref + b * ref
    BY <1>1
  <1>7. m * ref \in Nat /\ b * ref \in Nat /\ e * ref \in Nat /\ Unit * ref \in Nat
        /\ Unit * price \in Nat
    BY <1>1
  <1>8. CASE below
    <2>1. Unit * price <= ref * (Unit - (m + b))
      <3>1. ref * (Unit - (m + b)) \in Nat
        BY <1>1
      <3>. QED  BY <1>3, <1>8, <3>1, WholeOf
    <2>2. Unit * Abs(ref - price) = Unit * ref - Unit * price
      <3>1. Abs(ref - price) = ref - price
        BY <1>8 DEF Abs
      <3>. QED  BY <1>1, <3>1
    <2>. QED  BY <1>1, <1>4, <1>5, <1>6, <1>7, <2>1, <2>2
  <1>9. CASE ~below
    <2>1. ref * (Unit + (m + b)) < Unit * price + Unit
      <3>1. ref * (Unit + (m + b)) \in Nat
        BY <1>1
      <3>. QED  BY <1>3, <1>9, <3>1, WholeOf
    <2>2. Unit * Abs(ref - price) = Unit * price - Unit * ref
      <3>1. Abs(ref - price) = price - ref
        BY <1>9 DEF Abs
      <3>. QED  BY <1>1, <3>1
    <2>. QED  BY <1>1, <1>4, <1>5, <1>6, <1>7, <2>1, <2>2
  <1>. QED  BY <1>8, <1>9

\* A signal is turned down for its distances by nobody but the policy, of
\* guards that are settled and on their sides.
FarInv ==
    /\ \E p \in Payloads : p.close = payload.close
    /\ NormalizedIsFarEnough

LEMMA RejectedFarEnough ==
    ASSUME SizingInv, FarInv, CheckPolicy, reason' = "too_close", reason # "too_close",
           settings.normalize, settings.buffer > settings.epsilon, payload.close # None
    PROVE  FALSE
  <1>. DEFINE q == Normalized(payload)
              ref == payload.close
  <1>1. /\ payload \in Payload /\ settings \in Settings /\ stage = "queued"
        /\ ref \in Nat /\ payload.sl \in Nat
    BY PayloadNumbers DEF SizingInv, Typed, CheckPolicy, Numbers
  <1>2. Sandboxed(payload) /\ PolicyReason(payload) = "too_close"
    BY DEF CheckPolicy, Reject
  <1>3. /\ PayloadReason(payload) = Accepted
        /\ ~WrongSide(payload, ref)
        /\ TooClose(q, ref)
    <2>1. PayloadReason(payload) # "too_close"
      BY DEF PayloadReason, Accepted
    <2>2. ReferencePrice(payload) = ref
      BY DEF ReferencePrice
    <2>. QED  BY <1>2, <2>1, <2>2 DEF PolicyReason, Accepted
  <1>4. SameGuards(payload, q)
    BY <1>1, <1>2 DEF SizingInv, QueuedWhole, Sandboxed, Settled
  <1>5. ~TpsInvalid(payload) /\ ~Incomplete(payload)
    BY <1>3 DEF PayloadReason, Accepted
  <1>6. Unit <= ref * (settings.buffer - settings.epsilon)
    <2>1. PICK p \in Payloads : p.close = ref
      BY DEF FarInv
    <2>. QED  BY <1>1, <2>1, ResolutionAssumption DEF None
  <1>7. payload.side # "none" /\ payload.sl # None
    BY <1>5 DEF Incomplete
  <1>8. ~TooNear(payload.sl, ref, settings.min_stop)
    <2>1. Pushed(payload.sl, ref, Buys(payload), settings.min_stop) = payload.sl
      <3>1. q.sl = Pushed(payload.sl, ref, Buys(payload), settings.min_stop)
        BY <1>1, <1>7 DEF Normalized, Payload
      <3>. QED  BY <1>4, <3>1 DEF SameGuards
    <2>2. IF Buys(payload) THEN payload.sl < ref ELSE payload.sl > ref
      BY <1>1, <1>3 DEF WrongSide
    <2>. QED  BY <1>1, <1>6, <2>1, <2>2, SettledIsFar DEF Buys
  <1>9. ASSUME NEW level \in LevelsOf(payload)
        PROVE  ~TooNear(level.price, ref, settings.min_tp)
    <2>1. PICK i \in DOMAIN payload.tps : level = payload.tps[i]
      BY DEF LevelsOf
    <2>2. level \in Level
      <3>1. payload.tps \in Seq(Level)
        BY <1>1 DEF Payload
      <3>. QED  BY <2>1, <3>1
    <2>3. level.price \in Nat /\ level.price # 0
      BY <1>5, <2>2 DEF TpsInvalid, Level
    <2>4. Pushed(level.price, ref, ~Buys(payload), settings.min_tp) = level.price
      <3>1. q.tps = [j \in DOMAIN payload.tps |-> [payload.tps[j] EXCEPT
                       !.price = IF @ = 0 THEN 0
                                 ELSE Pushed(@, ref, ~Buys(payload), settings.min_tp)]]
        BY <1>1, <1>7 DEF Normalized, Payload
      <3>2. q.tps[i] = [level EXCEPT
                          !.price = IF @ = 0 THEN 0
                                    ELSE Pushed(@, ref, ~Buys(payload), settings.min_tp)]
        BY <2>1, <3>1
      <3>3. q.tps[i] = level
        BY <1>4, <2>1 DEF SameGuards
      <3>. QED  BY <2>2, <2>3, <3>2, <3>3 DEF Level
    <2>5. IF ~Buys(payload) THEN level.price < ref ELSE level.price > ref
      BY <1>1, <1>3, <2>3 DEF WrongSide
    <2>. QED  BY <1>1, <1>6, <2>3, <2>4, <2>5, SettledIsFar DEF Buys
  <1>10. LevelsOf(q) = LevelsOf(payload) /\ q.sl = payload.sl
    BY <1>4 DEF SameGuards, LevelsOf
  <1>. QED  BY <1>3, <1>8, <1>9, <1>10 DEF TooClose

LEMMA FarInvInit == Init => FarInv
  BY DEF Init, IntakeInit, FarInv, NormalizedIsFarEnough, Accepted

\* The close and the configuration stay, and a reason is given once.
LEMMA IntakeSteps ==
    ASSUME SizingInv, [Next]_vars
    PROVE  /\ payload'.close = payload.close /\ settings' = settings
           /\ reason' = "too_close" => reason = "too_close" \/ CheckPolicy
  <1>1. payload \in Payload /\ settings \in Settings
    BY DEF SizingInv, Typed
  <1>2. ASSUME NEW p \in Payload
        PROVE  Normalized(p).close = p.close /\ WithPolicy(p).close = p.close
    BY <1>1, <1>2, NormalizedPayload, PolicyKeeps DEF Alike
  <1>3. Normalized(payload) \in Payload
    BY <1>1, NormalizedPayload
  <1>4. CASE Webhook
    <2>1. PayloadReason(payload) # "too_close"
      BY DEF PayloadReason, Accepted
    <2>. QED  BY <1>1, <1>2, <1>3, <1>4, <2>1 DEF Webhook, Reject, environment
  <1>5. CASE CheckPolicy
    BY <1>1, <1>2, <1>5 DEF CheckPolicy, Reject, environment
  <1>6. CASE TickerUnavailable
    BY <1>6 DEF TickerUnavailable, Reject, environment
  <1>7. CASE TimePasses \/ MarketMoves
    BY <1>7 DEF TimePasses, MarketMoves, intake
  <1>8. CASE PreparePlan \/ PlanUnavailable \/ UNCHANGED vars
    BY <1>8 DEF PreparePlan, PlanUnavailable, vars, intake, environment
  <1>9. CASE Later
    BY <1>9, LaterKeeps DEF intake, environment
  <1>. QED  BY <1>4, <1>5, <1>6, <1>7, <1>8, <1>9 DEF Next, IntakeNext, Later

LEMMA FarInvStep == SizingInv /\ FarInv /\ [Next]_vars => FarInv'
  <1>. SUFFICES ASSUME SizingInv, FarInv, [Next]_vars PROVE FarInv'
    OBVIOUS
  <1>1. payload'.close = payload.close /\ settings' = settings
    BY IntakeSteps
  <1>2. NormalizedIsFarEnough'
    <2>. SUFFICES ASSUME settings.normalize, settings.buffer > settings.epsilon,
                         payload.close # None, reason' = "too_close"
                  PROVE  FALSE
      BY <1>1 DEF NormalizedIsFarEnough
    <2>1. reason # "too_close"
      BY DEF FarInv, NormalizedIsFarEnough
    <2>. QED  BY <2>1, IntakeSteps, RejectedFarEnough
  <1>. QED  BY <1>1, <1>2 DEF FarInv

-----------------------------------------------------------------------------
(* The numbers of a plan.                                                  *)

LEMMA QuotientNat ==
    ASSUME NEW n \in Nat, NEW d \in Nat \ {0}
    PROVE  n \div d \in Nat
  OBVIOUS

\* Rounded up, a quotient exceeds the exact one by less than one.
LEMMA CeilingNat ==
    ASSUME NEW n \in Nat, NEW d \in Nat \ {0}
    PROVE  /\ CeilDiv(n, d) \in Nat
           /\ \A k \in Nat : n <= k * d => CeilDiv(n, d) <= k
  <1>1. n + d - 1 \in Nat
    OBVIOUS
  <1>2. CeilDiv(n, d) \in Nat
    BY <1>1, QuotientNat DEF CeilDiv
  <1>3. ASSUME NEW k \in Nat, n <= k * d
        PROVE  CeilDiv(n, d) <= k
    <2>. DEFINE c == (n + d - 1) \div d
    <2>1. c \in Nat /\ c * d <= n + d - 1
      BY <1>1
    <2>2. c = CeilDiv(n, d)
      BY DEF CeilDiv
    <2>. HIDE DEF c
    <2>3. c * d <= k * d + d - 1
      <3>1. c * d \in Nat /\ k * d \in Nat
        BY <2>1
      <3>. QED  BY <1>3, <2>1, <3>1
    <2>4. c <= k
      <3>. SUFFICES ASSUME c >= k + 1 PROVE FALSE
        BY <2>1
      <3>1. c * d >= (k + 1) * d /\ (k + 1) * d = k * d + d
        BY <2>1
      <3>2. c * d \in Nat /\ k * d \in Nat
        BY <2>1
      <3>. QED  BY <2>3, <3>1, <3>2
    <2>. QED  BY <2>2, <2>4
  <1>. QED  BY <1>2, <1>3

LEMMA FloorNat ==
    ASSUME NEW n \in Nat
    PROVE  FloorTo(n, Tick) \in Nat /\ FloorTo(n, Step) \in Nat
  BY FloorBelow, StepAssumption

\* What a signal asks for, as numbers.
LEMMA Amounts ==
    ASSUME Typed
    PROVE  /\ payload.margin_usdt \in Nat /\ payload.notional_usdt \in Nat
           /\ payload.leverage \in Nat
           /\ ConfiguredMax \in Nat /\ TargetRisk \in Nat
           /\ MarginBudget \in Nat \ {0} /\ Unit <= Cent * MarginBudget
           /\ RequestedNotional \in Nat
           /\ FloorTo(payload.sl, Tick) \in Nat
           /\ market \in Nat \ {0}
  <1>1. /\ payload.margin_usdt \in Nat /\ payload.notional_usdt \in Nat
        /\ payload.leverage \in Nat /\ payload.max_leverage \in Nat
    BY DEF Typed, Payload
  <1>2. Numbers(payload)
    BY PayloadNumbers DEF Typed
  <1>3. ConfiguredMax \in Nat
    <2>1. MaxAutoLeverage \in Nat
      BY AccountAssumption
    <2>. QED  BY <1>1, <2>1 DEF ConfiguredMax, Smaller
  <1>4. TargetRisk \in Nat
    BY <1>2, UnitAssumption, AccountAssumption DEF TargetRisk, Numbers
  <1>5. MarginBudget \in Nat \ {0} /\ Unit <= Cent * MarginBudget
    <2>1. CASE payload.margin_usdt # None
      <3>1. payload.margin_usdt >= 1
        BY <1>1, <2>1 DEF None
      <3>. DEFINE b == Unit * payload.margin_usdt
      <3>2. b \in Nat /\ Unit <= b
        BY <1>1, <3>1, UnitAssumption
      <3>3. MarginBudget = b
        BY <2>1 DEF MarginBudget
      <3>. HIDE DEF b
      <3>4. b <= Cent * b
        BY <3>2, StepAssumption
      <3>5. Cent * b \in Nat
        BY <3>2, StepAssumption
      <3>. QED  BY <3>2, <3>3, <3>4, <3>5, UnitAssumption
    <2>2. CASE payload.margin_usdt = None
      <3>1. MarginBudget = Selected * AutoMargin
        BY <2>2 DEF MarginBudget
      <3>2. Selected \in Nat \ {0} /\ AutoMargin \in Nat \ {0} /\ Cent \in Nat
        BY AccountAssumption, StepAssumption, UnitAssumption
      <3>3. Selected * AutoMargin \in Nat \ {0}
            /\ Cent * Selected * AutoMargin = Cent * (Selected * AutoMargin)
        BY <3>2
      <3>. QED  BY <3>1, <3>3, BudgetAssumption
    <2>. QED  BY <2>1, <2>2
  <1>6. RequestedNotional \in Nat
    BY <1>1 DEF RequestedNotional
  <1>7. FloorTo(payload.sl, Tick) \in Nat
    BY <1>2, FloorNat DEF Numbers
  <1>8. market \in Nat \ {0}
    BY PriceAssumption DEF Typed
  <1>. QED  BY <1>1, <1>3, <1>4, <1>5, <1>6, <1>7, <1>8

LEMMA LossNat ==
    ASSUME NEW price \in Nat, NEW stop \in Nat, NEW fee \in Nat
    PROVE  PerUnitLoss(price, stop, fee) \in Nat
  <1>1. Abs(price - stop) \in Nat
    BY DEF Abs
  <1>2. Unit * Abs(price - stop) \in Nat /\ fee * (price + stop) \in Nat
    BY <1>1, UnitAssumption
  <1>. QED  BY <1>2 DEF PerUnitLoss

\* The leverage of a plan never leaves a margin that rounds to nothing.
LEMMA MarginLeft ==
    ASSUME NEW cost \in Nat \ {0}, NEW budget \in Nat \ {0}, Unit <= Cent * budget
    PROVE  LET leverage == Larger(1, CeilDiv(Unit * cost, budget))
           IN  /\ leverage \in Nat \ {0}
               /\ (Cent * cost) \div leverage \in Nat \ {0}
  <1>. DEFINE leverage == Larger(1, CeilDiv(Unit * cost, budget))
              worth == Cent * cost
  <1>1. worth \in Nat \ {0} /\ Unit * cost \in Nat
    BY StepAssumption, UnitAssumption
  <1>2. Unit * cost <= worth * budget
    <2>1. Unit * cost <= (Cent * budget) * cost
      <3>1. Cent * budget \in Nat
        BY StepAssumption
      <3>. DEFINE c == Cent * budget
      <3>2. c \in Nat /\ Unit <= c
        BY <3>1
      <3>. HIDE DEF c
      <3>3. Unit * cost <= c * cost
        BY <3>2, UnitAssumption
      <3>. QED  BY <3>3 DEF c
    <2>2. (Cent * budget) * cost = worth * budget
      BY StepAssumption
    <2>. QED  BY <2>1, <2>2
  <1>. HIDE DEF worth
  <1>3. leverage \in Nat \ {0} /\ leverage <= worth
    <2>. DEFINE n == Unit * cost
                c == CeilDiv(n, budget)
    <2>1. n \in Nat /\ n <= worth * budget
      BY <1>1, <1>2
    <2>. HIDE DEF n
    <2>2. c \in Nat /\ c <= worth
      BY <1>1, <2>1, CeilingNat
    <2>3. leverage = Larger(1, c)
      BY DEF n
    <2>. HIDE DEF c, leverage
    <2>. QED  BY <1>1, <2>2, <2>3 DEF Larger
  <1>. HIDE DEF leverage
  <1>4. worth \div leverage \in Nat \ {0}
    BY <1>1, <1>3
  <1>. QED  BY <1>3, <1>4 DEF worth, leverage

\* What a plan is, apart from the cap on its leverage.
Built(made, ref, fee) ==
    /\ made \in Plan
    /\ made.ref = ref /\ made.fee = fee
    /\ made.qty > 0 /\ made.leverage > 0
    /\ IF RiskMode
       THEN /\ made.target = TargetRisk
            /\ made.stop = FloorTo(payload.sl, Tick)
            /\ made.qty * PerUnitLoss(ref, made.stop, fee) <= TargetRisk
            /\ made.margin > 0
       ELSE made.leverage = Larger(1, payload.leverage)

LEMMA RiskPlanBuilt ==
    ASSUME Typed, RiskMode, NEW ref \in Nat \ {0}, NEW fee \in Fees, NEW cap,
           RiskPlanHolds(ref, fee, cap)
    PROVE  Built(RiskPlan(ref, fee), ref, fee) /\ RiskPlan(ref, fee).leverage <= cap
  <1>. DEFINE stop == FloorTo(payload.sl, Tick)
              loss == PerUnitLoss(ref, stop, fee)
              qty == QtyForRisk(TargetRisk, 1, loss)
              lev == Larger(1, CeilDiv(Unit * (qty * ref), MarginBudget))
              margin == (Cent * (qty * ref)) \div lev
  <1>1. fee \in Nat /\ stop \in Nat /\ TargetRisk \in Nat /\ ConfiguredMax \in Nat
    BY Amounts, AccountAssumption
  <1>2. loss \in Nat \ {0}
    <2>1. loss \in Nat
      BY <1>1, LossNat
    <2>2. loss > 0
      BY DEF RiskPlanHolds
    <2>. QED  BY <2>1, <2>2
  <1>3. Orderable(RiskPlan(ref, fee).qty, ref) /\ RiskPlan(ref, fee).leverage <= cap
    BY DEF RiskPlanHolds
  <1>. HIDE DEF loss
  <1>4. qty \in Nat /\ qty * loss <= TargetRisk
    <2>1. /\ QtyForRisk(TargetRisk, 1, loss) \in Nat
          /\ QtyForRisk(TargetRisk, 1, loss) * (1 * loss) <= TargetRisk
      BY ONLY <1>1, <1>2, QtyWithinTarget
    <2>. QED  BY <1>2, <2>1
  <1>5. qty > 0
    BY <1>3 DEF RiskPlan, Orderable, loss
  <1>. HIDE DEF qty
  <1>6. qty * ref \in Nat \ {0}
    BY <1>4, <1>5
  <1>7. lev \in Nat \ {0} /\ margin \in Nat \ {0}
    BY <1>6, Amounts, MarginLeft
  <1>8. Unit * qty * ref = Unit * (qty * ref) /\ Cent * qty * ref = Cent * (qty * ref)
    BY <1>4, UnitAssumption, StepAssumption
  <1>9. RiskPlan(ref, fee) =
          [ref |-> ref, stop |-> stop, qty |-> qty, notional |-> qty * ref,
           margin |-> margin, leverage |-> lev, max |-> ConfiguredMax,
           target |-> TargetRisk, fee |-> fee]
    BY <1>8 DEF RiskPlan, qty, loss
  <1>. HIDE DEF stop, lev, margin
  <1>10. RiskPlan(ref, fee) \in Plan
    BY <1>1, <1>4, <1>6, <1>7, <1>9 DEF Plan
  <1>. QED  BY <1>3, <1>4, <1>5, <1>7, <1>9, <1>10 DEF Built, loss, stop

LEMMA ManualPlanBuilt ==
    ASSUME Typed, ~RiskMode, NEW ref \in Nat \ {0}, NEW fee \in Fees,
           ManualPlanHolds(ref, fee)
    PROVE  Built(ManualPlan(ref, fee), ref, fee)
  <1>. DEFINE lev == Larger(1, payload.leverage)
              stop == IF payload.sl = None THEN None ELSE FloorTo(payload.sl, Tick)
              margin == IF payload.margin_usdt # None THEN Cent * payload.margin_usdt
                        ELSE (Cent * RequestedNotional) \div lev
              qty == FloorTo(RequestedNotional \div ref, Step)
  <1>1. fee \in Nat /\ lev \in Nat \ {0}
    BY Amounts, AccountAssumption DEF Larger
  <1>2. stop \in Nat
    BY Amounts DEF None
  <1>3. margin \in Nat
    <2>1. /\ Cent * payload.margin_usdt \in Nat
          /\ Cent * RequestedNotional \in Nat
      BY Amounts, StepAssumption
    <2>. QED  BY <1>1, <2>1, QuotientNat
  <1>4. qty \in Nat
    BY Amounts, QuotientNat, FloorNat
  <1>5. ManualPlan(ref, fee) =
          [ref |-> ref, stop |-> stop, qty |-> qty, notional |-> RequestedNotional,
           margin |-> margin, leverage |-> lev, max |-> ConfiguredMax, target |-> 0,
           fee |-> fee]
    BY DEF ManualPlan
  <1>. HIDE DEF lev, stop, margin, qty
  <1>6. ManualPlan(ref, fee) \in Plan
    BY <1>1, <1>2, <1>3, <1>4, <1>5, Amounts DEF Plan
  <1>7. qty > 0
    BY <1>5 DEF ManualPlanHolds, Orderable
  <1>. QED  BY <1>1, <1>5, <1>6, <1>7 DEF Built, lev

LEMMA PlanBuilt ==
    ASSUME Typed, NEW ref \in Nat \ {0}, NEW fee \in Fees, NEW cap,
           PlanHolds(ref, fee, cap)
    PROVE  /\ Built(PlanAt(ref, fee), ref, fee)
           /\ RiskMode => PlanAt(ref, fee).leverage <= cap
  BY RiskPlanBuilt, ManualPlanBuilt DEF PlanHolds, PlanAt

\* The bracket, the signal and the configuration are numbers.
LEMMA ExchangeMaxNat ==
    ASSUME NEW notional \in Nat, NEW max \in ExchangeMax(notional)
    PROVE  max \in Nat
  <1>. DEFINE fits == {i \in DOMAIN Brackets : notional <= Brackets[i].cap}
  <1>1. Brackets \in Seq([cap : Nat, leverage : Nat]) /\ Brackets # <<>>
    BY AccountAssumption
  <1>2. DOMAIN Brackets = 1..Len(Brackets) /\ Len(Brackets) \in Nat /\ Len(Brackets) # 0
    BY <1>1, LenProperties, EmptySeq
  <1>3. \A i \in DOMAIN Brackets : Brackets[i].leverage \in Nat
    <2>1. \A i \in DOMAIN Brackets : Brackets[i] \in [cap : Nat, leverage : Nat]
      BY <1>1, <1>2, ElementOfSeq
    <2>. QED  BY <2>1
  <1>4. CASE fits = {}
    <2>1. Len(Brackets) \in DOMAIN Brackets
      BY <1>2
    <2>. QED  BY <1>3, <1>4, <2>1 DEF ExchangeMax
  <1>5. CASE fits # {}
    <2>. DEFINE first == CHOOSE i \in fits : \A j \in fits : i <= j
    <2>1. \E i \in fits : \A j \in fits : i <= j
      <3>1. fits \in SUBSET Nat
        BY <1>2
      <3>. QED  BY <1>5, <3>1, NatLeast
    <2>2. first \in fits
      BY <2>1
    <2>. QED  BY <1>3, <1>5, <2>2 DEF ExchangeMax
  <1>. QED  BY <1>4, <1>5

-----------------------------------------------------------------------------
(* The entry: what was filled, and what the fallback buys.                 *)

\* A plan that stands is built for its own price, under the caps.
PlanStanding ==
    /\ Built(plan, plan.ref, plan.fee)
    /\ plan.ref > 0 /\ plan.fee \in Fees
    /\ plan.leverage <= plan.max /\ plan.max <= ConfiguredMax

CapInv ==
    /\ plan \in Plan
    /\ lever \in Nat
    /\ phase \notin {"none", "refused"} => PlanStanding
    /\ LeverageWithinCap

\* What the limit order has executed, at its limit or better, and what is
\* known of it: the answer of an earlier moment.
FillInv ==
    /\ phase \in Phases
    /\ fill \in Execution /\ seen \in Execution
    /\ filled \in Nat /\ bought \in [qty : Nat, price : Nat]
    /\ phase \in {"none", "sized", "planned"} => fill = Nothing /\ seen = Nothing
    /\ phase # "entered" => bought.qty = 0
    /\ phase = "after_limit" => filled \in {fill.qty, seen.qty}
    /\ fill.qty <= plan.qty
    /\ fill.qty = 0 => fill = Nothing
    /\ seen.qty <= fill.qty
    /\ seen.qty = fill.qty => seen = fill
    /\ IF Buys(payload) THEN fill.cost <= fill.qty * plan.ref
                        ELSE fill.cost >= fill.qty * plan.ref

EntryInv == CapInv /\ FillInv /\ FallbackWithinTarget

LEMMA EntryInvInit == Init => EntryInv
  <1>. SUFFICES ASSUME Init PROVE EntryInv
    OBVIOUS
  <1>1. plan \in Plan /\ plan.qty = 0 /\ plan.ref = 0
    BY DEF Init, NoPlan, Plan
  <1>2. CapInv
    BY <1>1 DEF Init, CapInv, LeverageWithinCap
  <1>3. FillInv
    BY <1>1 DEF Init, FillInv, Phases, Execution, Nothing
  <1>. QED  BY <1>2, <1>3 DEF Init, EntryInv, FallbackWithinTarget

\* Before there is a plan, the signal may still change.
LEMMA EntryBefore ==
    ASSUME EntryInv, phase = "none", UNCHANGED sizing
    PROVE  EntryInv'
  <1>1. CapInv'
    BY DEF EntryInv, CapInv, LeverageWithinCap, sizing
  <1>2. FillInv'
    <2>1. fill = Nothing /\ plan.ref \in Nat
      BY DEF EntryInv, FillInv, CapInv, Plan
    <2>2. fill.cost = fill.qty * plan.ref
      BY <2>1 DEF Nothing
    <2>. QED  BY <2>2 DEF EntryInv, FillInv, sizing
  <1>. QED  BY <1>1, <1>2 DEF EntryInv, FallbackWithinTarget, sizing

LEMMA StandingFrame ==
    ASSUME PlanStanding, UNCHANGED <<payload, plan>>
    PROVE  PlanStanding'
  BY DEF PlanStanding, Built, RiskMode, TargetRisk, ConfiguredMax, PerUnitLoss, FloorTo,
         Larger, Smaller, Abs

LEMMA EntryStands ==
    ASSUME EntryInv, UNCHANGED <<payload, sizing>>
    PROVE  EntryInv'
  <1>1. CapInv'
    BY StandingFrame
    DEF EntryInv, CapInv, LeverageWithinCap, ConfiguredMax, RiskMode, Smaller, sizing
  <1>2. FillInv'
    BY DEF EntryInv, FillInv, Buys, sizing
  <1>3. FallbackWithinTarget'
    BY DEF EntryInv, FallbackWithinTarget, EntryLoss, RiskMode, EntryOf, AverageIsStale,
           TargetRisk, Buys, sizing
  <1>. QED  BY <1>1, <1>2, <1>3 DEF EntryInv

\* An entry that is turned down keeps its plan, or has none.
LEMMA RefusedKeeps ==
    ASSUME EntryInv, Refuse, phase # "entered", UNCHANGED payload
    PROVE  EntryInv'
  <1>1. CapInv'
    BY DEF EntryInv, CapInv, LeverageWithinCap, Refuse
  <1>2. FillInv'
    <2>1. phase' = "refused" /\ UNCHANGED <<payload, plan, fill, seen, filled, bought>>
      BY DEF Refuse
    <2>2. Buys(payload)' <=> Buys(payload)
      BY DEF Buys
    <2>. QED  BY <2>1, <2>2 DEF EntryInv, FillInv, Phases
  <1>. QED  BY <1>1, <1>2 DEF EntryInv, FallbackWithinTarget, Refuse

LEMMA PreparePlanEntry ==
    ASSUME Typed, EntryInv, PreparePlan
    PROVE  EntryInv'
  <1>1. phase = "none" /\ UNCHANGED payload
    BY DEF PreparePlan, intake
  <1>2. CASE Refuse
    BY <1>1, <1>2, RefusedKeeps DEF PreparePlan, intake
  <1>3. CASE ~Refuse
    <2>1. PICK fee \in Fees :
            /\ EntryPrice > 0
            /\ PlanHolds(EntryPrice, fee, ConfiguredMax)
            /\ \E max \in ExchangeMax(PlanAt(EntryPrice, fee).notional) :
                  /\ PlanAt(EntryPrice, fee).leverage <= Smaller(max, ConfiguredMax)
                  /\ plan' = [PlanAt(EntryPrice, fee) EXCEPT !.max = Smaller(max, ConfiguredMax)]
                  /\ phase' = "sized"
                  /\ UNCHANGED <<fill, seen, filled, bought, lever, guards>>
      BY <1>3 DEF PreparePlan
    <2>. DEFINE ref == EntryPrice
                made == PlanAt(ref, fee)
    <2>2. ref \in Nat \ {0}
      BY <2>1, PlanPrice
    <2>. HIDE DEF ref
    <2>3. Built(made, ref, fee)
      BY <2>1, <2>2, PlanBuilt DEF ref
    <2>. HIDE DEF made
    <2>4. PICK max \in ExchangeMax(made.notional) :
            /\ made.leverage <= Smaller(max, ConfiguredMax)
            /\ plan' = [made EXCEPT !.max = Smaller(max, ConfiguredMax)]
            /\ phase' = "sized"
            /\ UNCHANGED <<fill, seen, filled, bought, lever, guards>>
      BY <2>1 DEF made, ref
    <2>5. max \in Nat /\ ConfiguredMax \in Nat
      BY <2>3, <2>4, Amounts, ExchangeMaxNat DEF Built, Plan
    <2>. DEFINE cap == Smaller(max, ConfiguredMax)
    <2>6. cap \in Nat /\ cap <= ConfiguredMax
      BY <2>5 DEF Smaller
    <2>. HIDE DEF cap
    <2>7. made \in Plan /\ plan' = [made EXCEPT !.max = cap] /\ made.leverage <= cap
      BY <2>3, <2>4 DEF Built, cap
    <2>8. plan' \in Plan /\ \A f \in {"ref", "stop", "qty", "margin", "leverage", "target", "fee"} :
                              plan'[f] = made[f]
      BY <2>6, <2>7 DEF Plan
    <2>9. plan'.max = cap
      BY <2>7 DEF Plan
    <2>10. Built(plan', ref, fee)
      BY <2>3, <2>8 DEF Built
    <2>11. plan'.ref = ref /\ plan'.fee = fee /\ plan'.leverage = made.leverage
      BY <2>3, <2>8 DEF Built
    <2>12. PlanStanding'
      <3>1. Built(plan, plan.ref, plan.fee)'
        BY <1>1, <2>10, <2>11
        DEF Built, RiskMode, TargetRisk, PerUnitLoss, FloorTo, Larger, Abs
      <3>2. ConfiguredMax' = ConfiguredMax
        BY <1>1 DEF ConfiguredMax, RiskMode, Smaller
      <3>. QED  BY <2>1, <2>2, <2>6, <2>7, <2>9, <2>11, <3>1, <3>2 DEF PlanStanding
    <2>13. CapInv'
      BY <2>4, <2>8, <2>12 DEF EntryInv, CapInv, LeverageWithinCap
    <2>14. FillInv'
      <3>1. fill = Nothing /\ fill' = fill /\ bought' = bought /\ seen' = seen /\ seen = Nothing
        BY <1>1, <2>4 DEF EntryInv, FillInv
      <3>2. plan'.ref \in Nat /\ plan'.qty \in Nat
        BY <2>8 DEF Plan
      <3>3. fill'.cost = fill'.qty * plan'.ref /\ fill'.qty <= plan'.qty
        BY <3>1, <3>2 DEF Nothing
      <3>4. /\ filled' \in Nat /\ bought' \in [qty : Nat, price : Nat] /\ bought'.qty = 0
            /\ fill' \in Execution /\ seen' \in Execution
        BY <1>1, <2>4 DEF EntryInv, FillInv
      <3>. QED  BY <2>4, <3>1, <3>3, <3>4 DEF FillInv, Phases, Nothing
    <2>. QED  BY <2>4, <2>13, <2>14 DEF EntryInv, FallbackWithinTarget
  <1>. QED  BY <1>2, <1>3

LEMMA CapKeeps ==
    ASSUME EntryInv, UNCHANGED <<payload, plan>>, phase \notin {"none", "refused"},
           lever' \in Nat, lever' <= plan.max
    PROVE  CapInv'
  <1>1. PlanStanding /\ PlanStanding'
    BY StandingFrame DEF EntryInv, CapInv
  <1>. QED  BY <1>1 DEF EntryInv, CapInv, LeverageWithinCap, PlanStanding

\* A step that only moves the entry on, towards a decision or an order.
LEMMA PhaseMoves ==
    ASSUME EntryInv, UNCHANGED <<payload, plan, fill, filled, bought>>,
           phase' \in Phases \ {"none", "refused", "entered", "after_limit"},
           phase \notin {"none", "refused", "entered"},
           lever' \in Nat, lever' <= plan.max,
           seen' = seen \/ seen' = fill,
           phase' \in {"sized", "planned"} => phase \in {"sized", "planned"}
    PROVE  EntryInv'
  <1>1. CapInv'
    BY CapKeeps
  <1>2. FillInv'
    <2>1. Buys(payload)' <=> Buys(payload)
      BY DEF Buys
    <2>2. fill \in Execution /\ fill.qty \in Nat
      BY DEF EntryInv, FillInv, Execution
    <2>. QED  BY <2>1, <2>2 DEF EntryInv, FillInv
  <1>. QED  BY <1>1, <1>2 DEF EntryInv, FallbackWithinTarget

LEMMA GuardPlanEntry ==
    ASSUME EntryInv, GuardPlan
    PROVE  EntryInv'
  <1>1. UNCHANGED payload /\ phase = "sized"
    BY DEF GuardPlan, intake
  <1>2. CASE Refuse
    BY <1>1, <1>2, RefusedKeeps
  <1>3. CASE phase' = "planned" /\ lever' = plan.leverage
             /\ UNCHANGED <<plan, fill, seen, filled, bought, guards>>
    <2>1. plan.leverage \in Nat /\ plan.leverage <= plan.max
      BY <1>1 DEF EntryInv, CapInv, PlanStanding, Plan
    <2>. QED  BY <1>1, <1>3, <2>1, PhaseMoves DEF Phases
  <1>. QED  BY <1>2, <1>3 DEF GuardPlan

LEMMA PlaceLimitEntry ==
    ASSUME EntryInv, PlaceLimit
    PROVE  EntryInv'
  <1>1. lever \in Nat /\ lever <= plan.max
    BY DEF EntryInv, CapInv, LeverageWithinCap, PlaceLimit
  <1>. QED  BY <1>1, PhaseMoves DEF PlaceLimit, intake, Phases

LEMMA MarketEntryEntry ==
    ASSUME Typed, EntryInv, MarketEntry
    PROVE  EntryInv'
  <1>1. UNCHANGED payload /\ phase = "planned" /\ EntryOf = "market"
    BY DEF MarketEntry, intake
  <1>2. CASE Refuse
    BY <1>1, <1>2, RefusedKeeps
  <1>3. CASE ~Refuse
    <2>1. /\ bought' = [qty |-> plan.qty, price |-> market]
          /\ phase' = "entered" /\ filled' = plan.qty
          /\ UNCHANGED <<plan, fill, seen, lever>>
      BY <1>3 DEF MarketEntry, Enter
    <2>2. plan.qty \in Nat /\ market \in Nat
      BY Amounts DEF EntryInv, CapInv, Plan
    <2>3. CapInv'
      BY <1>1, <2>1, CapKeeps DEF EntryInv, CapInv, LeverageWithinCap
    <2>4. Buys(payload)' <=> Buys(payload)
      BY <1>1 DEF Buys
    <2>5. bought' \in [qty : Nat, price : Nat]
      BY <2>1, <2>2
    <2>6. FillInv'
      BY <1>1, <2>1, <2>2, <2>4, <2>5 DEF EntryInv, FillInv, Phases
    <2>7. EntryOf' # "limit"
      BY <1>1 DEF EntryOf
    <2>. QED  BY <2>3, <2>6, <2>7 DEF EntryInv, FallbackWithinTarget
  <1>. QED  BY <1>2, <1>3

LEMMA FillLimitEntry ==
    ASSUME Typed, EntryInv, FillLimit
    PROVE  EntryInv'
  <1>1. PICK n \in 1..(plan.qty - fill.qty), price \in Prices :
          /\ IF Buys(payload) THEN price <= plan.ref ELSE price >= plan.ref
          /\ fill' = [qty |-> fill.qty + n, cost |-> fill.cost + n * price]
    BY DEF FillLimit
  <1>2. /\ phase \in {"resting", "cancelling"}
        /\ UNCHANGED <<payload, phase, plan, seen, filled, bought, lever>>
    BY DEF FillLimit, intake
  <1>3. /\ plan.qty \in Nat /\ plan.ref \in Nat /\ price \in Nat
        /\ fill.qty \in Nat /\ fill.cost \in Nat
    BY PriceAssumption DEF EntryInv, CapInv, FillInv, Plan, Execution
  <1>4. n \in Nat \ {0} /\ fill.qty + n <= plan.qty
    BY <1>3
  <1>5. n * price \in Nat
    BY <1>3, <1>4
  <1>6. fill' \in Execution /\ fill'.qty = fill.qty + n /\ fill'.cost = fill.cost + n * price
    BY <1>1, <1>3, <1>4, <1>5 DEF Execution
  <1>7. IF Buys(payload) THEN fill'.cost <= fill'.qty * plan.ref
                         ELSE fill'.cost >= fill'.qty * plan.ref
    <2>1. fill'.qty * plan.ref = fill.qty * plan.ref + n * plan.ref
      BY <1>3, <1>4, <1>6
    <2>2. IF Buys(payload) THEN n * price <= n * plan.ref ELSE n * price >= n * plan.ref
      BY <1>1, <1>3, <1>4
    <2>3. IF Buys(payload) THEN fill.cost <= fill.qty * plan.ref
                           ELSE fill.cost >= fill.qty * plan.ref
      BY DEF EntryInv, FillInv
    <2>4. n * plan.ref \in Nat /\ fill.qty * plan.ref \in Nat
      BY <1>3, <1>4
    <2>. QED  BY <1>3, <1>5, <1>6, <2>1, <2>2, <2>3, <2>4
  <1>8. FillInv'
    <2>1. Buys(payload)' <=> Buys(payload)
      BY <1>2 DEF Buys
    <2>2. seen.qty \in Nat /\ seen.qty < fill'.qty /\ fill'.qty # 0
      BY <1>3, <1>4, <1>6 DEF EntryInv, FillInv, Execution
    <2>. QED  BY <1>2, <1>3, <1>4, <1>6, <1>7, <2>1, <2>2 DEF EntryInv, FillInv
  <1>9. CapInv'
    BY <1>2, CapKeeps DEF EntryInv, CapInv, LeverageWithinCap
  <1>. QED  BY <1>2, <1>8, <1>9 DEF EntryInv, FallbackWithinTarget

LEMMA CancelLimitEntry ==
    ASSUME EntryInv, CancelLimit
    PROVE  EntryInv'
  <1>1. /\ phase = "cancelling" /\ phase' = "after_limit"
        /\ filled' \in {fill.qty, seen.qty}
        /\ UNCHANGED <<payload, plan, fill, seen, bought, lever>>
    BY DEF CancelLimit, intake
  <1>2. CapInv'
    BY <1>1, CapKeeps DEF EntryInv, CapInv, LeverageWithinCap
  <1>3. FillInv'
    <2>1. Buys(payload)' <=> Buys(payload)
      BY <1>1 DEF Buys
    <2>2. fill.qty \in Nat /\ seen.qty \in Nat
      BY DEF EntryInv, FillInv, Execution
    <2>. QED  BY <1>1, <2>1, <2>2 DEF EntryInv, FillInv, Phases
  <1>. QED  BY <1>1, <1>2, <1>3 DEF EntryInv, FallbackWithinTarget

-----------------------------------------------------------------------------
(* What an entry loses at the stop.                                        *)

Lost(qty, cost) ==
    LET lost == IF Buys(payload) THEN cost - qty * plan.stop ELSE qty * plan.stop - cost
    IN  Unit * lost + plan.fee * (cost + qty * plan.stop)

\* The losses of two executions add up.
LEMMA LostSum ==
    ASSUME NEW q \in Nat, NEW r \in Nat, NEW c \in Nat, NEW d \in Nat,
           NEW qty, NEW cost, qty = q + r, cost = c + d,
           plan.stop \in Nat, plan.fee \in Nat
    PROVE  Lost(qty, cost) = Lost(q, c) + Lost(r, d)
  <1>. DEFINE s == plan.stop
              f == plan.fee
              qs == q * s
              rs == r * s
  <1>1. s \in Nat /\ f \in Nat /\ (q + r) * s = qs + rs /\ qs \in Nat /\ rs \in Nat
    OBVIOUS
  <1>. HIDE DEF qs, rs
  <1>2. f * ((c + d) + (qs + rs)) = f * (c + qs) + f * (d + rs)
    BY <1>1
  <1>3. Unit * ((c + d) - (qs + rs)) = Unit * (c - qs) + Unit * (d - rs)
    BY <1>1, UnitAssumption
  <1>4. Unit * ((qs + rs) - (c + d)) = Unit * (qs - c) + Unit * (rs - d)
    BY <1>1, UnitAssumption
  <1>5. /\ f * (c + qs) \in Int /\ f * (d + rs) \in Int
        /\ Unit * (c - qs) \in Int /\ Unit * (d - rs) \in Int
        /\ Unit * (qs - c) \in Int /\ Unit * (rs - d) \in Int
    BY <1>1, UnitAssumption
  <1>. QED  BY <1>1, <1>2, <1>3, <1>4, <1>5 DEF Lost, qs, rs

\* The estimate, which counts a gain as a loss, is never below the loss.
LEMMA LostBelowEstimate ==
    ASSUME NEW q \in Nat, NEW c \in Nat, plan.stop \in Nat, plan.fee \in Nat
    PROVE  /\ Lost(q, c) \in Int
           /\ LossAtStop([qty |-> q, cost |-> c], plan.stop, plan.fee) \in Nat
           /\ Lost(q, c) <= LossAtStop([qty |-> q, cost |-> c], plan.stop, plan.fee)
  <1>. DEFINE qs == q * plan.stop
              lost == IF Buys(payload) THEN c - qs ELSE qs - c
              fees == plan.fee * (c + qs)
  <1>1. qs \in Nat /\ fees \in Nat
    OBVIOUS
  <1>2. lost \in Int /\ Abs(c - qs) \in Nat /\ lost <= Abs(c - qs)
    BY <1>1 DEF Abs
  <1>3. /\ Lost(q, c) = Unit * lost + fees
        /\ LossAtStop([qty |-> q, cost |-> c], plan.stop, plan.fee) = Unit * Abs(c - qs) + fees
    BY DEF Lost, LossAtStop
  <1>. DEFINE abs == Abs(c - qs)
  <1>. HIDE DEF lost, fees, abs
  <1>4. Unit * lost \in Int /\ Unit * abs \in Nat /\ Unit * lost <= Unit * abs
    BY <1>2, UnitAssumption DEF abs
  <1>. QED  BY <1>1, <1>3, <1>4 DEF abs

LEMMA LostOfPurchase ==
    ASSUME NEW q \in Nat, NEW price \in Nat, plan.stop \in Nat, plan.fee \in Nat
    PROVE  /\ Lost(q, q * price) \in Int
           /\ Lost(q, q * price) <= q * PerUnitLoss(price, plan.stop, plan.fee)
  <1>1. q * price \in Nat
    OBVIOUS
  <1>2. LossAtStop([qty |-> q, cost |-> q * price], plan.stop, plan.fee)
          = q * PerUnitLoss(price, plan.stop, plan.fee)
    BY LossOfQty
  <1>. QED  BY <1>1, <1>2, LostBelowEstimate

\* A better price than the limit never loses more than the limit.
LEMMA LostBetter ==
    ASSUME NEW q \in Nat, NEW c \in Nat, plan.stop \in Nat, plan.fee \in 0..Unit,
           plan.ref \in Nat,
           IF Buys(payload) THEN c <= q * plan.ref ELSE c >= q * plan.ref
    PROVE  Lost(q, c) <= Lost(q, q * plan.ref)
  <1>. DEFINE qs == q * plan.stop
              d == q * plan.ref
              f == plan.fee
  <1>1. /\ qs \in Nat /\ d \in Nat /\ f \in Nat /\ f <= Unit /\ Unit \in Nat
        /\ IF Buys(payload) THEN c <= d ELSE c >= d
    BY UnitAssumption
  <1>2. Lost(q, c) = Unit * (IF Buys(payload) THEN c - qs ELSE qs - c) + f * (c + qs)
    BY DEF Lost
  <1>3. Lost(q, d) = Unit * (IF Buys(payload) THEN d - qs ELSE qs - d) + f * (d + qs)
    BY DEF Lost
  <1>. HIDE DEF qs, d, f
  <1>4. CASE Buys(payload)
    <2>1. Unit * (c - qs) <= Unit * (d - qs) /\ f * (c + qs) <= f * (d + qs)
      BY <1>1, <1>4
    <2>2. /\ Unit * (c - qs) \in Int /\ Unit * (d - qs) \in Int
          /\ f * (c + qs) \in Int /\ f * (d + qs) \in Int
      BY <1>1
    <2>. QED  BY <1>2, <1>3, <1>4, <2>1, <2>2 DEF d
  <1>5. CASE ~Buys(payload)
    <2>1. /\ Unit * (qs - c) + f * (c + qs) = (Unit + f) * qs - (Unit - f) * c
          /\ Unit * (qs - d) + f * (d + qs) = (Unit + f) * qs - (Unit - f) * d
      BY <1>1
    <2>2. Unit - f \in Nat
      BY <1>1
    <2>3. (Unit - f) * d <= (Unit - f) * c
      BY <1>1, <1>5, <2>2
    <2>4. (Unit - f) * d \in Nat /\ (Unit - f) * c \in Nat /\ (Unit + f) * qs \in Nat
      BY <1>1, <2>2
    <2>. QED  BY <1>2, <1>3, <1>5, <2>1, <2>3, <2>4 DEF d
  <1>. QED  BY <1>4, <1>5

\* What the limit order has executed so far loses no more than the target.
LEMMA FilledWithinTarget ==
    ASSUME Typed, EntryInv, RiskMode, phase \notin {"none", "refused"}
    PROVE  /\ Lost(fill.qty, fill.cost) \in Int
           /\ Lost(fill.qty, fill.cost) <= TargetRisk
  <1>1. /\ plan \in Plan /\ Built(plan, plan.ref, plan.fee) /\ plan.fee \in 0..Unit
    BY AccountAssumption DEF EntryInv, CapInv, PlanStanding
  <1>2. /\ fill.qty \in Nat /\ fill.cost \in Nat /\ fill.qty <= plan.qty
        /\ IF Buys(payload) THEN fill.cost <= fill.qty * plan.ref
                            ELSE fill.cost >= fill.qty * plan.ref
    BY DEF EntryInv, FillInv, Execution
  <1>3. /\ plan.stop \in Nat /\ plan.ref \in Nat /\ plan.fee \in Nat /\ plan.qty \in Nat
        /\ TargetRisk \in Nat
    BY <1>1, Amounts DEF Plan
  <1>. DEFINE per == PerUnitLoss(plan.ref, plan.stop, plan.fee)
  <1>4. per \in Nat /\ plan.qty * per <= TargetRisk
    BY <1>1, <1>3, LossNat DEF Built
  <1>5. Lost(fill.qty, fill.cost) <= Lost(fill.qty, fill.qty * plan.ref)
    BY <1>1, <1>2, <1>3, LostBetter
  <1>6. Lost(fill.qty, fill.qty * plan.ref) <= fill.qty * per
    BY <1>2, <1>3, LostOfPurchase
  <1>7. Lost(fill.qty, fill.cost) \in Int /\ Lost(fill.qty, fill.qty * plan.ref) \in Int
    BY <1>2, <1>3, LostBelowEstimate, LostOfPurchase
  <1>. HIDE DEF per
  <1>8. fill.qty * per <= plan.qty * per /\ fill.qty * per \in Nat /\ plan.qty * per \in Nat
    BY <1>2, <1>3, <1>4
  <1>. QED  BY <1>3, <1>4, <1>5, <1>6, <1>7, <1>8

\* The entry ends with what the limit order has filled.
LEMMA EntersAsFilled ==
    ASSUME Typed, EntryInv, UNCHANGED <<payload, plan, fill, bought, lever>>,
           phase \in {"resting", "after_limit"}, phase' = "entered", filled' \in Nat,
           seen' = seen \/ seen' = fill
    PROVE  EntryInv'
  <1>1. CapInv'
    BY CapKeeps DEF EntryInv, CapInv, LeverageWithinCap
  <1>2. FillInv'
    <2>1. Buys(payload)' <=> Buys(payload)
      BY DEF Buys
    <2>2. fill.qty \in Nat
      BY DEF EntryInv, FillInv, Execution
    <2>. QED  BY <2>1, <2>2 DEF EntryInv, FillInv, Phases
  <1>3. FallbackWithinTarget'
    <2>. SUFFICES ASSUME RiskMode'
                  PROVE  EntryLoss' <= TargetRisk'
      BY DEF FallbackWithinTarget
    <2>1. RiskMode /\ TargetRisk' = TargetRisk
      BY DEF RiskMode, TargetRisk
    <2>2. bought' = bought /\ bought.qty = 0 /\ bought.price \in Nat
      BY DEF EntryInv, FillInv
    <2>3. fill.qty \in Nat /\ fill.cost \in Nat
      BY DEF EntryInv, FillInv, Execution
    <2>4. EntryLoss' = Lost(fill.qty + bought.qty, fill.cost + bought.qty * bought.price)
      BY DEF EntryLoss, Lost, Buys
    <2>5. fill.qty + bought.qty = fill.qty /\ fill.cost + bought.qty * bought.price = fill.cost
      BY <2>2, <2>3
    <2>6. Lost(fill.qty, fill.cost) <= TargetRisk
      BY <2>1, FilledWithinTarget
    <2>. QED  BY <2>1, <2>4, <2>5, <2>6
  <1>. QED  BY <1>1, <1>2, <1>3 DEF EntryInv

LEMMA PollEntry ==
    ASSUME Typed, EntryInv, Poll
    PROVE  EntryInv'
  <1>1. /\ phase = "resting" /\ seen' = fill
        /\ UNCHANGED <<payload, plan, fill, bought, lever>>
    BY DEF Poll, intake
  <1>2. CASE fill.qty = plan.qty
    <2>1. phase' = "entered" /\ filled' = fill.qty /\ fill.qty \in Nat
      BY <1>2 DEF Poll, Enter, EntryInv, FillInv, Execution
    <2>. QED  BY <1>1, <2>1, EntersAsFilled
  <1>3. CASE fill.qty # plan.qty
    <2>1. phase' \in {"resting", "cancelling"} /\ UNCHANGED filled
      BY <1>3 DEF Poll
    <2>2. lever \in Nat /\ lever <= plan.max
      BY <1>1 DEF EntryInv, CapInv, LeverageWithinCap
    <2>. QED  BY <1>1, <2>1, <2>2, PhaseMoves DEF Phases
  <1>. QED  BY <1>2, <1>3

\* The average that a partial fill is recalculated with.
LEMMA AverageKnown ==
    ASSUME EntryInv, phase = "after_limit", filled > 0
    PROVE  /\ AveragePrice \in Execution
           /\ AveragePrice.qty > 0
           /\ ~AverageIsStale /\ filled = fill.qty => AveragePrice = fill
  <1>1. /\ fill.qty \in Nat /\ seen.qty \in Nat /\ fill \in Execution /\ seen \in Execution
        /\ filled \in {fill.qty, seen.qty}
        /\ seen.qty = fill.qty => seen = fill
    BY DEF EntryInv, FillInv, Execution
  <1>. QED  BY <1>1 DEF AveragePrice, AverageIsStale

\* The rest is bought for what is left of the target: with a partial fill
\* for the remaining risk, without one for all of it.
LEMMA FallbackSized ==
    ASSUME Typed, EntryInv, phase = "after_limit", FallbackHolds
    PROVE  /\ FallbackQty \in Nat \ {0}
           /\ FallbackLeverage \in Nat /\ FallbackLeverage <= plan.max
           /\ RiskMode /\ filled > 0 =>
                /\ RemainingRisk \in Nat
                /\ FallbackQty * (AveragePrice.qty * PerUnitLoss(market, plan.stop, plan.fee))
                     <= RemainingRisk
           /\ RiskMode /\ filled = 0 =>
                FallbackQty * PerUnitLoss(market, plan.stop, plan.fee) <= TargetRisk
  <1>1. /\ plan \in Plan /\ Built(plan, plan.ref, plan.fee) /\ plan.fee \in Fees
        /\ plan.leverage <= plan.max
    BY DEF EntryInv, CapInv, PlanStanding
  <1>2. /\ plan.stop \in Nat /\ plan.fee \in Nat /\ plan.max \in Nat /\ plan.target \in Nat
        /\ plan.margin \in Nat /\ plan.leverage \in Nat
    BY <1>1 DEF Plan
  <1>3. market \in Nat \ {0} /\ filled \in Nat
    BY Amounts DEF EntryInv, FillInv
  <1>4. FallbackQty > 0
    BY DEF FallbackHolds, Orderable
  <1>. DEFINE loss == PerUnitLoss(market, plan.stop, plan.fee)
              parts == AveragePrice.qty
  <1>5. loss \in Nat
    BY <1>2, <1>3, LossNat
  <1>6. CASE RiskMode /\ filled > 0
    <2>1. parts \in Nat \ {0} /\ AveragePrice \in Execution
      BY <1>6, AverageKnown DEF Execution
    <2>2. RemainingRisk \in Int
      <3>1. LossAtStop(AveragePrice, plan.stop, plan.fee) \in Int
        <4>1. AveragePrice = [qty |-> AveragePrice.qty, cost |-> AveragePrice.cost]
              /\ AveragePrice.qty \in Nat /\ AveragePrice.cost \in Nat
          BY <2>1 DEF Execution
        <4>. QED  BY <1>2, <4>1, LostBelowEstimate
      <3>. QED  BY <1>2, <1>3, <2>1, <3>1 DEF RemainingRisk, UsedRisk
    <2>3. RemainingRisk > 0 /\ loss > 0 /\ FallbackQty = QtyForRisk(RemainingRisk, parts, loss)
      BY <1>4, <1>6 DEF FallbackQty
    <2>. HIDE DEF loss, parts
    <2>4. FallbackQty \in Nat /\ FallbackQty * (parts * loss) <= RemainingRisk
      BY <1>5, <2>1, <2>2, <2>3, QtyWithinTarget
    <2>5. FallbackLeverage \in Nat /\ FallbackLeverage <= plan.max
      <3>1. plan.margin \in Nat \ {0}
        BY <1>1, <1>2, <1>6 DEF Built
      <3>2. Cent * FallbackQty * market \in Nat
        BY <1>3, <2>4, StepAssumption
      <3>3. CeilDiv(Cent * FallbackQty * market, plan.margin) \in Nat
        BY <3>1, <3>2, CeilingNat
      <3>. QED  BY <1>2, <1>6, <3>3 DEF FallbackLeverage, Larger, Smaller
    <2>. QED  BY <1>4, <1>6, <2>2, <2>3, <2>4, <2>5 DEF loss, parts
  <1>7. CASE ~(RiskMode /\ filled > 0)
    <2>. DEFINE made == PlanAt(market, plan.fee)
    <2>1. PlanHolds(market, plan.fee, plan.max) /\ FallbackQty = Larger(0, made.qty - filled)
      BY <1>4, <1>7 DEF FallbackQty
    <2>2. Built(made, market, plan.fee) /\ (RiskMode => made.leverage <= plan.max)
      BY <1>1, <1>3, <2>1, PlanBuilt
    <2>. HIDE DEF made
    <2>3. made.qty \in Nat /\ made.leverage \in Nat
      BY <2>2 DEF Built, Plan
    <2>4. FallbackQty \in Nat
      BY <1>3, <2>1, <2>3 DEF Larger
    <2>5. FallbackLeverage = made.leverage
      BY <1>7 DEF FallbackLeverage, made
    <2>6. FallbackLeverage <= plan.max
      <3>1. CASE RiskMode
        BY <2>2, <2>5, <3>1
      <3>2. CASE ~RiskMode
        BY <1>1, <2>2, <2>5, <3>2 DEF Built
      <3>. QED  BY <3>1, <3>2
    <2>7. ASSUME RiskMode, filled = 0
          PROVE  FallbackQty * loss <= TargetRisk
      <3>1. FallbackQty = made.qty
        BY <2>1, <2>3, <2>7 DEF Larger
      <3>2. made.stop = plan.stop
        BY <1>1, <2>2, <2>7 DEF Built
      <3>. QED  BY <2>2, <2>7, <3>1, <3>2 DEF Built
    <2>. QED  BY <1>4, <1>7, <2>3, <2>4, <2>5, <2>6, <2>7
  <1>. QED  BY <1>3, <1>6, <1>7

\* The executions and the fallback together lose no more than the target.
LEMMA FallbackLoss ==
    ASSUME Typed, EntryInv, phase = "after_limit", FallbackHolds, RiskMode,
           ~AverageIsStale, filled = fill.qty
    PROVE  Lost(fill.qty + FallbackQty, fill.cost + FallbackQty * market) <= TargetRisk
  <1>. DEFINE q == FallbackQty
              loss == PerUnitLoss(market, plan.stop, plan.fee)
  <1>1. /\ plan \in Plan /\ plan.stop \in Nat /\ plan.fee \in Nat
        /\ plan.target = TargetRisk /\ TargetRisk \in Nat /\ market \in Nat
    BY Amounts DEF EntryInv, CapInv, PlanStanding, Built, Plan
  <1>2. /\ q \in Nat
        /\ filled > 0 => /\ RemainingRisk \in Nat
                         /\ q * (AveragePrice.qty * loss) <= RemainingRisk
        /\ filled = 0 => q * loss <= TargetRisk
    BY FallbackSized
  <1>3. /\ fill.qty \in Nat /\ fill.cost \in Nat /\ fill \in Execution
        /\ fill.qty = 0 => fill = Nothing
    BY DEF EntryInv, FillInv, Execution
  <1>4. loss \in Nat
    BY <1>1, LossNat
  <1>5. q * market \in Nat /\ q * loss \in Nat
    BY <1>1, <1>2, <1>4
  <1>6. Lost(q, q * market) \in Int /\ Lost(q, q * market) <= q * loss
    BY <1>1, <1>2, LostOfPurchase
  <1>7. Lost(fill.qty + q, fill.cost + q * market)
          = Lost(fill.qty, fill.cost) + Lost(q, q * market)
    <2>. DEFINE d == q * market
    <2>1. d \in Nat /\ q \in Nat /\ fill.qty \in Nat /\ fill.cost \in Nat
          /\ plan.stop \in Nat /\ plan.fee \in Nat
      BY <1>1, <1>2, <1>3, <1>5
    <2>. HIDE DEF q, d
    <2>. DEFINE n == fill.qty
                c == fill.cost
                qty == n + q
                cost == c + d
    <2>2. n \in Nat /\ c \in Nat /\ qty = n + q /\ cost = c + d
      BY <2>1
    <2>. HIDE DEF n, c, qty, cost
    <2>3. Lost(qty, cost) = Lost(n, c) + Lost(q, d)
      BY <2>1, <2>2, LostSum
    <2>. QED  BY <2>3 DEF d, n, c, qty, cost
  <1>. DEFINE used == LossAtStop(fill, plan.stop, plan.fee)
  <1>8. /\ Lost(fill.qty, fill.cost) \in Int /\ used \in Nat
        /\ Lost(fill.qty, fill.cost) <= used
    <2>1. fill = [qty |-> fill.qty, cost |-> fill.cost]
      BY <1>3 DEF Execution
    <2>. QED  BY <1>1, <1>3, <2>1, LostBelowEstimate
  <1>9. CASE filled > 0
    <2>1. AveragePrice = fill
      BY <1>9, AverageKnown
    <2>2. RemainingRisk = TargetRisk * fill.qty - fill.qty * used
      BY <1>1, <2>1 DEF RemainingRisk, UsedRisk
    <2>. HIDE DEF q, loss, used
    <2>3. q * (fill.qty * loss) <= TargetRisk * fill.qty - fill.qty * used
      BY <1>2, <1>9, <2>1, <2>2
    <2>4. q * loss + used <= TargetRisk
      <3>. DEFINE n == fill.qty
                  m == q * loss + used
      <3>1. n \in Nat \ {0} /\ m \in Nat
        BY <1>3, <1>5, <1>8, <1>9
      <3>2. n * m = q * (n * loss) + n * used
        BY <1>2, <1>4, <1>8, <3>1
      <3>3. /\ q * (n * loss) \in Nat /\ n * used \in Nat /\ TargetRisk * n \in Nat
            /\ n * m \in Nat /\ TargetRisk * n = n * TargetRisk
        BY <1>1, <1>2, <1>4, <1>8, <3>1
      <3>4. n * m <= n * TargetRisk
        BY <2>3, <3>2, <3>3
      <3>. HIDE DEF n, m
      <3>5. m <= TargetRisk
        <4>. SUFFICES ASSUME m >= TargetRisk + 1 PROVE FALSE
          BY <1>1, <3>1
        <4>1. n * m >= n * (TargetRisk + 1) /\ n * (TargetRisk + 1) = n * TargetRisk + n
          BY <1>1, <3>1
        <4>. QED  BY <1>1, <3>1, <3>3, <3>4, <4>1
      <3>. QED  BY <3>5 DEF m
    <2>. QED  BY <1>1, <1>5, <1>6, <1>7, <1>8, <2>4 DEF q, loss
  <1>10. CASE filled = 0
    <2>1. Lost(fill.qty, fill.cost) = 0
      BY <1>1, <1>3, <1>10, UnitAssumption DEF Lost, Nothing
    <2>. HIDE DEF loss
    <2>. QED  BY <1>1, <1>2, <1>5, <1>6, <1>7, <1>10, <2>1
  <1>. QED  BY <1>3, <1>9, <1>10

LEMMA AfterLimitEntry ==
    ASSUME Typed, EntryInv, AfterLimit
    PROVE  EntryInv'
  <1>1. phase = "after_limit" /\ UNCHANGED <<payload, plan, fill, seen>>
    BY DEF AfterLimit, intake
  <1>2. filled \in Nat /\ bought.qty = 0 /\ lever \in Nat /\ lever <= plan.max
    BY <1>1 DEF EntryInv, FillInv, CapInv, LeverageWithinCap
  <1>3. CASE WithoutFallback
    <2>1. CASE filled > 0
      BY <1>1, <1>2, <1>3, <2>1, EntersAsFilled DEF WithoutFallback, Enter
    <2>2. CASE ~(filled > 0)
      BY <1>1, <1>2, <1>3, <2>2, PhaseMoves DEF WithoutFallback, Phases
    <2>. QED  BY <2>1, <2>2
  <1>4. CASE ~WithoutFallback
    <2>1. /\ FallbackHolds
          /\ bought' = [qty |-> FallbackQty, price |-> market]
          /\ lever' = Larger(plan.leverage, FallbackLeverage)
          /\ phase' = "entered" /\ filled' = filled + FallbackQty
      BY <1>4 DEF AfterLimit, Enter
    <2>2. /\ FallbackQty \in Nat /\ FallbackLeverage \in Nat /\ FallbackLeverage <= plan.max
          /\ market \in Nat
      BY <1>1, <2>1, FallbackSized, Amounts
    <2>3. plan.leverage \in Nat /\ plan.leverage <= plan.max
      BY <1>1 DEF EntryInv, CapInv, PlanStanding, Plan
    <2>4. lever' \in Nat /\ lever' <= plan.max
      BY <2>1, <2>2, <2>3 DEF Larger
    <2>5. CapInv'
      BY <1>1, <2>4, CapKeeps
    <2>6. bought' \in [qty : Nat, price : Nat] /\ filled' \in Nat
      BY <1>2, <2>1, <2>2
    <2>7. FillInv'
      <3>1. Buys(payload)' <=> Buys(payload)
        BY <1>1 DEF Buys
      <3>. QED  BY <1>1, <2>1, <2>6, <3>1 DEF EntryInv, FillInv, Phases
    <2>8. FallbackWithinTarget'
      <3>. SUFFICES ASSUME RiskMode', filled' = fill'.qty + bought'.qty, ~AverageIsStale'
                    PROVE  EntryLoss' <= TargetRisk'
        BY DEF FallbackWithinTarget
      <3>1. RiskMode /\ TargetRisk' = TargetRisk /\ ~AverageIsStale
        BY <1>1 DEF RiskMode, TargetRisk, AverageIsStale
      <3>2. filled = fill.qty
        <4>1. fill.qty \in Nat
          BY DEF EntryInv, FillInv, Execution
        <4>. QED  BY <1>1, <1>2, <2>1, <2>2, <4>1
      <3>3. EntryLoss' = Lost(fill.qty + FallbackQty, fill.cost + FallbackQty * market)
        BY <1>1, <2>1 DEF EntryLoss, Lost, Buys
      <3>. QED  BY <1>1, <2>1, <3>1, <3>2, <3>3, FallbackLoss
    <2>. QED  BY <2>5, <2>7, <2>8 DEF EntryInv
  <1>. QED  BY <1>3, <1>4

LEMMA EntryInvStep == SizingInv /\ EntryInv /\ [Next]_vars => EntryInv'
  <1>. SUFFICES ASSUME SizingInv, EntryInv, [Next]_vars PROVE EntryInv'
    OBVIOUS
  <1>. USE DEF SizingInv
  <1>1. CASE IntakeNext /\ UNCHANGED sizing
    <2>1. phase = "none"
      BY <1>1 DEF PlannedLate, IntakeNext, Webhook, CheckPolicy, TickerUnavailable
    <2>. QED  BY <1>1, <2>1, EntryBefore
  <1>2. CASE (TimePasses \/ MarketMoves) /\ UNCHANGED sizing
    BY <1>2, EntryStands DEF TimePasses, MarketMoves, intake
  <1>3. CASE PreparePlan
    BY <1>3, PreparePlanEntry
  <1>4. CASE PlanUnavailable
    BY <1>4, RefusedKeeps DEF PlanUnavailable, intake
  <1>5. CASE Later
    BY <1>5, GuardPlanEntry, MarketEntryEntry, PlaceLimitEntry, FillLimitEntry, PollEntry,
       CancelLimitEntry, AfterLimitEntry DEF Later
  <1>6. CASE UNCHANGED vars
    BY <1>6, EntryStands DEF vars, intake
  <1>. QED  BY <1>1, <1>2, <1>3, <1>4, <1>5, <1>6 DEF Next, Later

-----------------------------------------------------------------------------
(* Sums over sequences.                                                    *)

\* Induction over the numbers up to n, for a set in place of a predicate.
LEMMA UpTo ==
    ASSUME NEW n \in Nat, NEW S, 0 \in S,
           \A i \in 0..n : i \in S /\ i # n => i + 1 \in S
    PROVE  0..n \subseteq S
  <1>. DEFINE Bad == {i \in 0..n : i \notin S}
  <1>1. ASSUME Bad # {}
        PROVE  FALSE
    <2>1. PICK i \in Bad : \A j \in Bad : i <= j
      <3>1. Bad \in SUBSET Nat
        OBVIOUS
      <3>. HIDE DEF Bad
      <3>. QED  BY <1>1, <3>1, NatLeast
    <2>2. i \in Nat \ {0} /\ i <= n /\ i \notin S
      BY <2>1
    <2>3. i - 1 \in 0..n /\ ~ (i <= i - 1)
      BY <2>2
    <2>4. i - 1 \notin Bad
      <3>. HIDE DEF Bad
      <3>. QED  BY <2>1, <2>3
    <2>5. i - 1 \in S /\ i - 1 # n
      BY <2>2, <2>3, <2>4
    <2>6. (i - 1) + 1 \in S
      BY <2>3, <2>5
    <2>. QED  BY <2>2, <2>6
  <1>. QED  BY <1>1

\* f counts the first numbers of g together.
IsSum(f, g, n) == f = [i \in 0..n |-> IF i = 0 THEN 0 ELSE f[i - 1] + g[i]]

LEMMA SumExists ==
    ASSUME NEW n \in Nat, NEW g
    PROVE  \E f : IsSum(f, g, n)
  <1>. DEFINE S == {m \in Nat : \E f : IsSum(f, g, m)}
  <1>1. 0 \in S
    <2>1. IsSum([i \in 0..0 |-> 0], g, 0)
      BY DEF IsSum
    <2>. QED  BY <2>1
  <1>2. ASSUME NEW m \in 0..n, m \in S
        PROVE  m + 1 \in S
    <2>1. PICK f : IsSum(f, g, m)
      BY <1>2
    <2>. DEFINE h == [i \in 0..(m + 1) |-> IF i = m + 1 THEN f[m] + g[m + 1] ELSE f[i]]
    <2>2. m \in Nat /\ f = [i \in 0..m |-> IF i = 0 THEN 0 ELSE f[i - 1] + g[i]]
      BY <2>1 DEF IsSum
    <2>3. ASSUME NEW i \in 0..(m + 1)
          PROVE  h[i] = IF i = 0 THEN 0 ELSE h[i - 1] + g[i]
      <3>1. CASE i = m + 1
        <4>1. h[i] = f[m] + g[m + 1] /\ h[i - 1] = f[m] /\ i # 0
          BY <2>2, <3>1
        <4>. QED  BY <3>1, <4>1
      <3>2. CASE i # m + 1
        <4>1. i \in 0..m /\ h[i] = f[i]
          BY <2>2, <3>2
        <4>2. f[i] = IF i = 0 THEN 0 ELSE f[i - 1] + g[i]
          BY <2>2, <4>1
        <4>3. i # 0 => h[i - 1] = f[i - 1]
          BY <2>2, <4>1
        <4>. QED  BY <4>1, <4>2, <4>3
      <3>. QED  BY <3>1, <3>2
    <2>4. h = [i \in 0..(m + 1) |-> IF i = 0 THEN 0 ELSE h[i - 1] + g[i]]
      <3>1. h = [i \in 0..(m + 1) |-> h[i]]
        OBVIOUS
      <3>. HIDE DEF h
      <3>. QED  BY <2>3, <3>1
    <2>. HIDE DEF h
    <2>5. IsSum(h, g, m + 1)
      BY <2>4 DEF IsSum
    <2>. QED  BY <2>2, <2>5
  <1>. HIDE DEF S
  <1>3. 0..n \subseteq S
    BY <1>1, <1>2, UpTo
  <1>. QED  BY <1>3 DEF S

LEMMA SumOfIsSum ==
    ASSUME NEW s, Len(s) \in Nat
    PROVE  \E f : IsSum(f, s, Len(s)) /\ SumOf(s) = f[Len(s)]
  <1>. DEFINE F == CHOOSE f : IsSum(f, s, Len(s))
  <1>1. IsSum(F, s, Len(s))
    BY SumExists
  <1>2. SumOf(s) = F[Len(s)]
    BY DEF SumOf, IsSum
  <1>. QED  BY <1>1, <1>2

LEMMA SumSteps ==
    ASSUME NEW n \in Nat, NEW f, NEW g, IsSum(f, g, n)
    PROVE  f[0] = 0 /\ \A i \in 1..n : f[i] = f[i - 1] + g[i]
  <1>1. f = [i \in 0..n |-> IF i = 0 THEN 0 ELSE f[i - 1] + g[i]]
    BY DEF IsSum
  <1>2. \A i \in 0..n : f[i] = IF i = 0 THEN 0 ELSE f[i - 1] + g[i]
    BY <1>1
  <1>. QED  BY <1>2

LEMMA SumNat ==
    ASSUME NEW n \in Nat, NEW f, NEW g, IsSum(f, g, n), \A i \in 1..n : g[i] \in Nat
    PROVE  \A i \in 0..n : f[i] \in Nat
  <1>. DEFINE S == {i \in 0..n : f[i] \in Nat}
  <1>1. f[0] = 0 /\ \A i \in 1..n : f[i] = f[i - 1] + g[i]
    BY SumSteps
  <1>2. 0 \in S
    BY <1>1
  <1>3. ASSUME NEW i \in 0..n, i \in S, i # n
        PROVE  i + 1 \in S
    <2>1. i + 1 \in 1..n /\ (i + 1) - 1 = i
      BY <1>3
    <2>2. f[i + 1] = f[i] + g[i + 1] /\ g[i + 1] \in Nat /\ f[i] \in Nat
      BY <1>1, <1>3, <2>1
    <2>. QED  BY <2>1, <2>2
  <1>. HIDE DEF S
  <1>4. 0..n \subseteq S
    BY <1>2, <1>3, UpTo
  <1>. QED  BY <1>4 DEF S

-----------------------------------------------------------------------------
(* The take profits: allocate_tp_quantities.                               *)

LEMMA QuotientIs ==
    ASSUME NEW n \in Nat, NEW d \in Nat \ {0}, NEW q \in Nat, q * d <= n, n < q * d + d
    PROVE  n \div d = q
  <1>. DEFINE p == n \div d
  <1>1. p \in Nat /\ p * d <= n /\ n < p * d + d
    OBVIOUS
  <1>. HIDE DEF p
  <1>2. ASSUME NEW a \in Nat, NEW b \in Nat, a * d <= n, n < b * d + d
        PROVE  a <= b
    <2>. SUFFICES ASSUME a >= b + 1 PROVE FALSE
      OBVIOUS
    <2>1. a * d >= (b + 1) * d /\ (b + 1) * d = b * d + d
      OBVIOUS
    <2>2. a * d \in Nat /\ b * d \in Nat
      OBVIOUS
    <2>. QED  BY <1>2, <2>1, <2>2
  <1>3. p <= q /\ q <= p
    BY <1>1, <1>2
  <1>4. p = q
    BY <1>1, <1>3
  <1>. QED  BY <1>4 DEF p

\* Taking a whole number of steps away commutes with rounding.
LEMMA FloorOfRest ==
    ASSUME NEW total \in Nat, NEW k \in Nat, k * Step <= total
    PROVE  /\ FloorTo(total - k * Step, Step) = FloorTo(total, Step) - k * Step
           /\ FloorTo(total - k * Step, Step) \in Nat
           /\ \E m \in Nat : FloorTo(total, Step) = m * Step
  <1>. DEFINE q == total \div Step
              ks == k * Step
              qs == q * Step
  <1>1. Step \in Nat \ {0}
    BY StepAssumption
  <1>2. q \in Nat /\ ks \in Nat /\ qs \in Nat /\ qs <= total /\ total < qs + Step
    BY <1>1
  <1>3. k <= q
    <2>. SUFFICES ASSUME k >= q + 1 PROVE FALSE
      BY <1>2
    <2>. HIDE DEF q
    <2>1. k * Step >= (q + 1) * Step /\ (q + 1) * Step = q * Step + Step
      BY <1>1, <1>2
    <2>. QED  BY <1>1, <1>2, <2>1
  <1>. HIDE DEF q
  <1>4. (q - k) * Step = qs - ks /\ q - k \in Nat
    BY <1>1, <1>2, <1>3
  <1>5. (total - ks) \div Step = q - k
    <2>1. total - ks \in Nat /\ (q - k) * Step <= total - ks
          /\ total - ks < (q - k) * Step + Step
      BY <1>1, <1>2, <1>4
    <2>. QED  BY <1>1, <1>4, <2>1, QuotientIs
  <1>6. FloorTo(total - ks, Step) = qs - ks /\ qs - ks \in Nat
    <2>1. (q - k) * Step \in Nat
      BY <1>1, <1>4
    <2>. QED  BY <1>4, <1>5, <2>1 DEF FloorTo
  <1>7. FloorTo(total, Step) = qs
    BY DEF FloorTo, q
  <1>. QED  BY <1>2, <1>6, <1>7

Share(total, i) == FloorTo((total * payload.tps[i].pct) \div Unit, Step)
Levels == Len(payload.tps)

\* f counts what the first levels have taken of the total.
IsUsed(f, total) ==
    f = [i \in 0..Levels |->
           IF i = 0 THEN 0
           ELSE f[i - 1] + IF i = Levels /\ ShareSum(payload) = Unit
                           THEN RestOf(total, f[i - 1]) ELSE Share(total, i)]

LEMMA UsedExists ==
    ASSUME NEW total, Levels \in Nat
    PROVE  \E f : IsUsed(f, total)
  <1>. DEFINE n == Levels
              g == [i \in 1..n |-> Share(total, i)]
  <1>1. PICK f : IsSum(f, g, n)
    BY SumExists
  <1>2. f = [i \in 0..n |-> IF i = 0 THEN 0 ELSE f[i - 1] + g[i]]
    BY <1>1 DEF IsSum
  <1>. DEFINE whole == ShareSum(payload) = Unit
              h == [i \in 0..n |-> IF i # 0 /\ i = n /\ whole
                                   THEN f[i - 1] + RestOf(total, f[i - 1]) ELSE f[i]]
  <1>3. ASSUME NEW i \in 0..n
        PROVE  h[i] = IF i = 0 THEN 0
                      ELSE h[i - 1] + IF i = n /\ whole THEN RestOf(total, h[i - 1])
                                      ELSE Share(total, i)
    <2>1. n \in Nat
      OBVIOUS
    <2>2. f[i] = IF i = 0 THEN 0 ELSE f[i - 1] + g[i]
      BY <1>2
    <2>3. CASE i = 0
      BY <2>2, <2>3
    <2>4. CASE i # 0
      <3>1. i \in 1..n /\ i - 1 \in 0..n /\ i - 1 # n
        BY <2>1, <2>4
      <3>2. h[i - 1] = f[i - 1] /\ g[i] = Share(total, i)
        BY <3>1
      <3>. HIDE DEF whole, g, n
      <3>. QED  BY <2>2, <2>4, <3>1, <3>2
    <2>. QED  BY <2>3, <2>4
  <1>4. h = [i \in 0..n |-> h[i]]
    OBVIOUS
  <1>. HIDE DEF h
  <1>5. IsUsed(h, total)
    BY <1>3, <1>4 DEF IsUsed
  <1>. QED  BY <1>5

\* The quantities are the differences of what is used.
LEMMA AllocationIs ==
    ASSUME NEW total, Levels \in Nat
    PROVE  \E f : /\ IsUsed(f, total)
                  /\ Allocation(total) = [i \in 1..Levels |-> f[i] - f[i - 1]]
  <1>. DEFINE F == CHOOSE f : IsUsed(f, total)
  <1>1. IsUsed(F, total)
    BY UsedExists
  <1>2. Allocation(total) = [i \in 1..Levels |-> F[i] - F[i - 1]]
    BY DEF Allocation, IsUsed, Levels, Share
  <1>. QED  BY <1>1, <1>2

\* A level takes whole steps, and no more than its share.
LEMMA ShareBounds ==
    ASSUME NEW total \in Nat, NEW i, payload.tps[i].pct \in Nat
    PROVE  /\ Share(total, i) \in Nat
           /\ \E k \in Nat : Share(total, i) = k * Step
           /\ Share(total, i) * Unit <= total * payload.tps[i].pct
  <1>. DEFINE n == total * payload.tps[i].pct
              raw == n \div Unit
              k == raw \div Step
  <1>1. n \in Nat
    OBVIOUS
  <1>. HIDE DEF n
  <1>2. raw \in Nat /\ Unit * raw <= n
    BY <1>1, WholeOf
  <1>. HIDE DEF raw
  <1>3. k \in Nat /\ Share(total, i) = k * Step
    BY <1>2, StepAssumption DEF Share, FloorTo, raw, n
  <1>4. Share(total, i) \in Nat /\ Share(total, i) <= raw
    BY <1>2, FloorBelow, StepAssumption DEF Share, raw, n
  <1>5. Share(total, i) * Unit <= n
    <2>. DEFINE s == Share(total, i)
    <2>1. s \in Nat /\ s <= raw
      BY <1>4
    <2>. HIDE DEF s
    <2>2. s * Unit <= Unit * raw /\ s * Unit \in Nat /\ Unit * raw \in Nat
      BY <1>2, <2>1, UnitAssumption
    <2>. QED  BY <1>1, <1>2, <2>2 DEF s
  <1>. QED  BY <1>3, <1>4, <1>5 DEF n

\* What the levels before the last take together: whole steps, and no more
\* than their shares of the total.
LEMMA UsedBounds ==
    ASSUME payload \in Payload, NEW total \in Nat, NEW f, IsUsed(f, total),
           NEW sum, IsSum(sum, [i \in DOMAIN payload.tps |-> payload.tps[i].pct], Levels),
           NEW m \in 0..Levels, m # Levels \/ ShareSum(payload) # Unit
    PROVE  /\ f[m] \in Nat
           /\ \E k \in Nat : f[m] = k * Step
           /\ f[m] * Unit <= total * sum[m]
  <1>. DEFINE n == Levels
              pcts == [i \in DOMAIN payload.tps |-> payload.tps[i].pct]
              Fine(i) == /\ f[i] \in Nat
                         /\ \E k \in Nat : f[i] = k * Step
                         /\ f[i] * Unit <= total * sum[i]
              S == {i \in 0..m : Fine(i)}
  <1>1. payload.tps \in Seq(Level) /\ n \in Nat /\ DOMAIN payload.tps = 1..n
    <2>1. payload.tps \in Seq(Level)
      BY DEF Payload
    <2>. QED  BY <2>1, LenProperties DEF Levels
  <1>2. \A i \in 1..n : payload.tps[i].pct \in Nat /\ pcts[i] = payload.tps[i].pct
    <2>1. \A i \in 1..n : payload.tps[i] \in Level
      BY <1>1
    <2>. QED  BY <1>1, <2>1 DEF Level
  <1>3. sum[0] = 0 /\ \A i \in 1..n : sum[i] = sum[i - 1] + pcts[i]
    <2>1. IsSum(sum, pcts, n)
      OBVIOUS
    <2>. HIDE DEF pcts, n
    <2>. QED  BY <1>1, <2>1, SumSteps
  <1>. HIDE DEF pcts
  <1>4. \A i \in 0..n : sum[i] \in Nat
    BY <1>1, <1>2, SumNat DEF pcts
  <1>5. f[0] = 0 /\ \A i \in 1..m : f[i] = f[i - 1] + Share(total, i)
    <2>1. f = [i \in 0..n |->
                 IF i = 0 THEN 0
                 ELSE f[i - 1] + IF i = n /\ ShareSum(payload) = Unit
                                 THEN RestOf(total, f[i - 1]) ELSE Share(total, i)]
      BY DEF IsUsed
    <2>2. \A i \in 0..n : f[i] = IF i = 0 THEN 0
                 ELSE f[i - 1] + IF i = n /\ ShareSum(payload) = Unit
                                 THEN RestOf(total, f[i - 1]) ELSE Share(total, i)
      BY <2>1
    <2>3. f[0] = 0
      BY <1>1, <2>2
    <2>4. ASSUME NEW i \in 1..m
          PROVE  f[i] = f[i - 1] + Share(total, i)
      <3>1. i \in 0..n /\ i # 0 /\ ~ (i = n /\ ShareSum(payload) = Unit)
        BY <1>1
      <3>. QED  BY <2>2, <3>1
    <2>. QED  BY <2>3, <2>4
  <1>6. 0 \in S
    <2>1. 0 = 0 * Step /\ 0 * Unit <= total * 0 /\ 0 \in 0..m
      BY <1>1, StepAssumption, UnitAssumption
    <2>. QED  BY <1>3, <1>5, <2>1
  <1>7. ASSUME NEW i \in 0..m, i \in S, i # m
        PROVE  i + 1 \in S
    <2>1. i + 1 \in 1..m /\ i + 1 \in 1..n /\ (i + 1) - 1 = i /\ i \in 0..n
      BY <1>1, <1>7
    <2>. DEFINE s == Share(total, i + 1)
                p == payload.tps[i + 1].pct
    <2>2. p \in Nat
      BY <1>2, <2>1
    <2>3. s \in Nat /\ (\E k \in Nat : s = k * Step) /\ s * Unit <= total * p
      BY <2>2, ShareBounds
    <2>4. f[i + 1] = f[i] + s /\ sum[i + 1] = sum[i] + p
      BY <1>2, <1>3, <1>5, <2>1
    <2>5. f[i] \in Nat /\ (\E k \in Nat : f[i] = k * Step) /\ f[i] * Unit <= total * sum[i]
      BY <1>7
    <2>. HIDE DEF s, p
    <2>6. \E k \in Nat : f[i + 1] = k * Step
      <3>1. PICK k \in Nat : s = k * Step
        BY <2>3
      <3>2. PICK l \in Nat : f[i] = l * Step
        BY <2>5
      <3>3. f[i + 1] = (l + k) * Step
        BY <2>4, <3>1, <3>2, StepAssumption
      <3>. QED  BY <3>3
    <2>7. f[i + 1] * Unit <= total * sum[i + 1]
      <3>. DEFINE a == f[i]
                  b == sum[i]
      <3>1. a \in Nat /\ b \in Nat /\ a * Unit <= total * b
        BY <1>4, <2>1, <2>5
      <3>. HIDE DEF a, b
      <3>2. (a + s) * Unit = a * Unit + s * Unit /\ total * (b + p) = total * b + total * p
        BY <2>2, <2>3, <3>1, UnitAssumption
      <3>3. /\ a * Unit \in Nat /\ s * Unit \in Nat
            /\ total * b \in Nat /\ total * p \in Nat
        BY <2>2, <2>3, <3>1, UnitAssumption
      <3>4. (a + s) * Unit <= total * (b + p)
        BY <2>3, <3>1, <3>2, <3>3
      <3>. QED  BY <2>4, <3>4 DEF a, b
    <2>. QED  BY <2>1, <2>3, <2>4, <2>5, <2>6, <2>7
  <1>. HIDE DEF S
  <1>8. 0..m \subseteq S
    <2>1. m \in Nat
      BY <1>1
    <2>. QED  BY <1>6, <1>7, <2>1, UpTo
  <1>9. m \in S
    BY <1>1, <1>8
  <1>. QED  BY <1>9 DEF S

\* What is used grows back from the quantities.
LEMMA UsedIsSum ==
    ASSUME NEW n \in Nat, NEW f, f[0] = 0, \A i \in 0..n : f[i] \in Nat,
           NEW g, \A i \in 1..n : g[i] = f[i] - f[i - 1],
           NEW sum, IsSum(sum, g, n)
    PROVE  sum[n] = f[n]
  <1>. DEFINE S == {i \in 0..n : sum[i] = f[i]}
  <1>1. sum[0] = 0 /\ \A i \in 1..n : sum[i] = sum[i - 1] + g[i]
    BY SumSteps
  <1>2. 0 \in S
    BY <1>1
  <1>3. ASSUME NEW i \in 0..n, i \in S, i # n
        PROVE  i + 1 \in S
    <2>1. i + 1 \in 1..n /\ (i + 1) - 1 = i
      BY <1>3
    <2>2. f[i] \in Nat /\ f[i + 1] \in Nat /\ sum[i] = f[i]
      BY <1>3, <2>1
    <2>3. sum[i + 1] = sum[i] + g[i + 1] /\ g[i + 1] = f[i + 1] - f[i]
      BY <1>1, <2>1
    <2>. QED  BY <2>1, <2>2, <2>3
  <1>. HIDE DEF S
  <1>4. 0..n \subseteq S
    BY <1>2, <1>3, UpTo
  <1>5. n \in S
    BY <1>4
  <1>. QED  BY <1>5 DEF S

LEMMA TimesUnit ==
    ASSUME NEW used \in Nat, NEW total \in Nat, NEW share \in Nat, share <= Unit,
           used * Unit <= total * share
    PROVE  used <= total
  <1>1. Unit \in Nat \ {0}
    BY UnitAssumption
  <1>2. total * share <= total * Unit /\ total * share \in Nat
    BY <1>1
  <1>. SUFFICES ASSUME used >= total + 1 PROVE FALSE
    OBVIOUS
  <1>3. used * Unit >= (total + 1) * Unit /\ (total + 1) * Unit = total * Unit + Unit
    BY <1>1
  <1>4. used * Unit \in Nat /\ total * Unit \in Nat
    BY <1>1
  <1>. QED  BY <1>1, <1>2, <1>3, <1>4

\* The quantities are numbers, close no more than the total, and all of it
\* that can be ordered when the shares make a whole.
LEMMA AllocationFits ==
    ASSUME payload \in Payload, NEW total \in Nat, ShareSum(payload) <= Unit
    PROVE  /\ Allocation(total) \in Seq(Nat)
           /\ SumOf(Allocation(total)) <= total
           /\ ShareSum(payload) = Unit => SumOf(Allocation(total)) = FloorTo(total, Step)
  <1>. DEFINE n == Levels
              pcts == [i \in DOMAIN payload.tps |-> payload.tps[i].pct]
              whole == ShareSum(payload) = Unit
  <1>1. payload.tps \in Seq(Level) /\ n \in Nat /\ DOMAIN payload.tps = 1..n
    <2>1. payload.tps \in Seq(Level)
      BY DEF Payload
    <2>. QED  BY <2>1, LenProperties DEF Levels
  <1>2. \A i \in 1..n : payload.tps[i].pct \in Nat
    <2>1. \A i \in 1..n : payload.tps[i] \in Level
      BY <1>1
    <2>. QED  BY <2>1 DEF Level
  <1>3. Len(pcts) = n
    <2>1. pcts = [i \in 1..n |-> payload.tps[i].pct]
      BY <1>1
    <2>2. pcts \in Seq(Nat)
      <3>1. pcts \in [1..n -> Nat]
        BY <1>2, <2>1
      <3>. QED  BY <1>1, <3>1, SeqDef
    <2>3. DOMAIN pcts = 1..n
      BY <2>1
    <2>. HIDE DEF pcts
    <2>. QED  BY <1>1, <2>2, <2>3, LenProperties
  <1>4. PICK sum : IsSum(sum, pcts, n) /\ ShareSum(payload) = sum[n]
    BY <1>1, <1>3, SumOfIsSum DEF ShareSum
  <1>5. PICK f : /\ IsUsed(f, total)
                 /\ Allocation(total) = [i \in 1..n |-> f[i] - f[i - 1]]
    BY <1>1, AllocationIs
  <1>6. \A i \in 0..n : sum[i] \in Nat
    <2>1. \A i \in 1..n : pcts[i] \in Nat
      BY <1>1, <1>2
    <2>. QED  BY <1>1, <1>4, <2>1, SumNat
  <1>7. \A i \in 0..n : f[i] = IF i = 0 THEN 0
              ELSE f[i - 1] + IF i = n /\ whole THEN RestOf(total, f[i - 1]) ELSE Share(total, i)
    <2>1. f = [i \in 0..n |->
                 IF i = 0 THEN 0
                 ELSE f[i - 1] + IF i = n /\ whole THEN RestOf(total, f[i - 1])
                                 ELSE Share(total, i)]
      BY <1>5 DEF IsUsed
    <2>. HIDE DEF n, whole
    <2>. QED  BY <2>1
  <1>8. ASSUME NEW m \in 0..n, m # n \/ ~whole
        PROVE  /\ f[m] \in Nat /\ (\E k \in Nat : f[m] = k * Step)
               /\ f[m] * Unit <= total * sum[m]
    BY <1>4, <1>5, <1>8, UsedBounds
  <1>9. \A i \in 1..n : pcts[i] \in Nat
    BY <1>1, <1>2
  <1>. HIDE DEF pcts
  <1>10. f[n] \in Nat /\ f[n] <= total /\ (n # 0 => f[n] - f[n - 1] \in Nat)
        /\ (whole => f[n] = FloorTo(total, Step))
    <2>1. CASE ~whole
      <3>1. f[n] \in Nat /\ f[n] <= total
        <4>. DEFINE used == f[n]
                    share == sum[n]
        <4>1. n \in 0..n
          BY <1>1
        <4>2. used \in Nat /\ used * Unit <= total * share
          BY <1>8, <2>1, <4>1
        <4>3. share \in Nat /\ share <= Unit
          BY <1>4, <1>6, <4>1
        <4>. HIDE DEF used, share
        <4>4. used <= total
          BY <4>2, <4>3, TimesUnit
        <4>. QED  BY <4>2, <4>4 DEF used
      <3>2. ASSUME n # 0
            PROVE  f[n] - f[n - 1] \in Nat
        <4>1. n \in 1..n /\ n \in 0..n /\ n - 1 \in 0..n
          BY <1>1, <3>2
        <4>2. f[n] = f[n - 1] + Share(total, n)
          BY <1>7, <2>1, <3>2, <4>1
        <4>3. Share(total, n) \in Nat /\ f[n - 1] \in Nat
          BY <1>2, <1>8, <2>1, <4>1, ShareBounds
        <4>. QED  BY <4>2, <4>3
      <3>. QED  BY <2>1, <3>1, <3>2
    <2>2. CASE whole
      <3>1. n # 0
        <4>1. n = 0 => sum[n] = 0
          BY <1>1, <1>4, SumSteps
        <4>. QED  BY <1>4, <2>2, <4>1, UnitAssumption
      <3>. DEFINE b == f[n - 1]
      <3>2. n \in 1..n /\ n \in 0..n /\ n - 1 \in 0..n /\ n - 1 # n
        BY <1>1, <3>1
      <3>3. b \in Nat /\ (\E k \in Nat : b = k * Step) /\ b * Unit <= total * sum[n - 1]
        BY <1>8, <3>2
      <3>4. sum[n - 1] <= Unit /\ sum[n - 1] \in Nat
        <4>1. sum[n] = sum[n - 1] + pcts[n]
          BY <1>1, <1>4, <3>2, SumSteps
        <4>2. pcts[n] \in Nat /\ sum[n - 1] \in Nat
          BY <1>6, <1>9, <3>2
        <4>3. sum[n] = Unit
          BY <1>4, <2>2
        <4>. HIDE DEF n
        <4>. QED  BY <4>1, <4>2, <4>3
      <3>5. b <= total
        BY <3>3, <3>4, TimesUnit
      <3>6. f[n] = b + FloorTo(total - b, Step)
        BY <1>7, <2>2, <3>1, <3>2 DEF RestOf
      <3>. HIDE DEF b
      <3>7. PICK k \in Nat : b = k * Step
        BY <3>3
      <3>8. /\ FloorTo(total - b, Step) = FloorTo(total, Step) - b
            /\ FloorTo(total - b, Step) \in Nat
        BY <3>5, <3>7, FloorOfRest
      <3>9. FloorTo(total, Step) \in Nat /\ FloorTo(total, Step) <= total
        BY FloorBelow, FloorNat, StepAssumption
      <3>. QED  BY <3>1, <3>3, <3>6, <3>8, <3>9 DEF b
    <2>. QED  BY <2>1, <2>2
  <1>11. \A i \in 0..n : f[i] \in Nat
    BY <1>8, <1>10
  <1>12. \A i \in 1..n : f[i] - f[i - 1] \in Nat
    <2>. SUFFICES ASSUME NEW i \in 1..n, i # n PROVE f[i] - f[i - 1] \in Nat
      BY <1>10
    <2>1. i \in 0..n /\ i - 1 \in 0..n /\ i # 0
      BY <1>1
    <2>2. f[i] = f[i - 1] + Share(total, i)
      BY <1>7, <2>1
    <2>3. Share(total, i) \in Nat /\ f[i - 1] \in Nat
      BY <1>2, <1>11, <2>1, ShareBounds
    <2>. QED  BY <2>2, <2>3
  <1>. DEFINE g == Allocation(total)
  <1>13. g \in [1..n -> Nat]
    BY <1>5, <1>12
  <1>14. g \in Seq(Nat)
    BY <1>1, <1>13, SeqDef
  <1>15. Len(g) = n
    <2>1. DOMAIN g = 1..n
      BY <1>13
    <2>. HIDE DEF g
    <2>. QED  BY <1>1, <1>14, <2>1, LenProperties
  <1>16. PICK all : IsSum(all, g, n) /\ SumOf(g) = all[n]
    <2>. HIDE DEF g
    <2>. QED  BY <1>1, <1>15, SumOfIsSum
  <1>17. all[n] = f[n]
    <2>1. f[0] = 0
      BY <1>1, <1>7
    <2>2. \A i \in 1..n : g[i] = f[i] - f[i - 1]
      BY <1>5
    <2>. HIDE DEF g, n
    <2>. QED  BY <1>1, <1>11, <1>16, <2>1, <2>2, UsedIsSum
  <1>. QED  BY <1>10, <1>14, <1>16, <1>17

-----------------------------------------------------------------------------
(* Types, and the take profits of an entry.                                *)

WholeInv == stage \in {"queued", "admitted"} => ShareSum(payload) <= Unit
GuardsInv == guards = IF phase = "entered" THEN Allocation(filled) ELSE <<>>
TakeInv == IntakeTypeOK /\ WholeInv /\ GuardsInv

LEMMA TakeInvInit == Init => TakeInv
  <1>. SUFFICES ASSUME Init PROVE TakeInv
    OBVIOUS
  <1>1. payload \in Payload
    BY PayloadAssumption DEF Init, IntakeInit
  <1>2. IntakeTypeOK
    BY <1>1, UnitAssumption DEF Init, IntakeInit, IntakeTypeOK, Stages, Reasons
  <1>. QED  BY <1>2 DEF Init, IntakeInit, TakeInv, WholeInv, GuardsInv

LEMMA TakeStands ==
    ASSUME TakeInv, UNCHANGED <<payload, stage, reason, settings, phase, filled, guards>>,
           now' \in 0..MaxNow, market' \in Prices
    PROVE  TakeInv'
  <1>1. IntakeTypeOK'
    BY DEF TakeInv, IntakeTypeOK
  <1>2. WholeInv'
    BY DEF TakeInv, WholeInv, ShareSum, SumOf
  <1>3. GuardsInv'
    <2>1. Allocation(filled)' = Allocation(filled)
      BY DEF Allocation, ShareSum, SumOf, RestOf, FloorTo
    <2>. QED  BY <2>1 DEF TakeInv, GuardsInv
  <1>. QED  BY <1>1, <1>2, <1>3 DEF TakeInv

LEMMA TakeBefore ==
    ASSUME SizingInv, TakeInv, IntakeNext, UNCHANGED sizing
    PROVE  TakeInv'
  <1>1. phase = "none" /\ UNCHANGED environment
    BY DEF SizingInv, PlannedLate, IntakeNext, Webhook, CheckPolicy, TickerUnavailable
  <1>2. GuardsInv'
    BY <1>1 DEF TakeInv, GuardsInv, sizing
  <1>3. payload \in Payload /\ settings \in Settings
    BY DEF SizingInv, Typed
  <1>. DEFINE q == Normalized(payload)
  <1>4. q \in Payload /\ WithPolicy(q) \in Payload /\ q.side = payload.side
    BY <1>3, NormalizedPayload, PolicyKeeps DEF Alike
  <1>5. payload' \in Payload
    BY <1>3, <1>4 DEF IntakeNext, Webhook, CheckPolicy, TickerUnavailable
  <1>6. PayloadReason(payload) \in Reasons /\ PolicyReason(payload) \in Reasons
    BY DEF PayloadReason, PolicyReason, Reasons, Accepted
  <1>7. stage' \in Stages /\ reason' \in Reasons
    BY <1>6
    DEF TakeInv, IntakeTypeOK, IntakeNext, Webhook, CheckPolicy, TickerUnavailable, Reject,
        Stages, Reasons
  <1>8. IntakeTypeOK'
    BY <1>1, <1>5, <1>7 DEF TakeInv, IntakeTypeOK, environment
  <1>9. WholeInv'
    <2>. SUFFICES ASSUME stage' \in {"queued", "admitted"}
                  PROVE  ShareSum(payload') <= Unit
      BY DEF WholeInv, ShareSum
    <2>1. CASE Webhook
      <3>1. SchemaValid(payload')
        BY <2>1 DEF Webhook, Reject
      <3>. QED  BY <3>1 DEF SchemaValid
    <2>2. CASE CheckPolicy
      <3>1. stage = "queued" /\ (payload' = payload \/ (payload' = q /\ Sandboxed(payload)))
        BY <2>2 DEF CheckPolicy
      <3>2. ShareSum(payload) <= Unit /\ (IsTv(payload) => Settled(payload))
        BY <3>1 DEF SizingInv, QueuedWhole
      <3>3. Sandboxed(payload) => ShareSum(q) = ShareSum(payload)
        BY <1>4, <3>2, GuardsAlike DEF Sandboxed, Settled
      <3>. HIDE DEF q
      <3>. QED  BY <3>1, <3>2, <3>3
    <2>3. CASE TickerUnavailable
      BY <2>3 DEF TickerUnavailable, Reject
    <2>. QED  BY <2>1, <2>2, <2>3 DEF IntakeNext
  <1>. QED  BY <1>2, <1>8, <1>9 DEF TakeInv

\* The guards are written when the entry ends, from what it has filled.
LEMMA TakeLater ==
    ASSUME SizingInv, TakeInv, Later \/ PreparePlan \/ PlanUnavailable
    PROVE  TakeInv'
  <1>1. UNCHANGED <<intake, environment>>
    BY LaterKeeps DEF PreparePlan, PlanUnavailable
  <1>2. IntakeTypeOK'
    BY <1>1 DEF TakeInv, IntakeTypeOK, intake, environment
  <1>3. WholeInv'
    BY <1>1 DEF TakeInv, WholeInv, ShareSum, SumOf, intake
  <1>4. \/ phase' = "entered" /\ guards' = Allocation(filled')
        \/ /\ phase # "entered" /\ phase' # "entered" /\ guards' = guards
    BY DEF Later, PreparePlan, PlanUnavailable, GuardPlan, MarketEntry, PlaceLimit, FillLimit,
           Poll, CancelLimit, AfterLimit, WithoutFallback, Enter, Refuse
  <1>5. GuardsInv'
    <2>1. Allocation(filled)' = Allocation(filled')
      BY <1>1 DEF Allocation, ShareSum, SumOf, RestOf, FloorTo, intake
    <2>. QED  BY <1>4, <2>1 DEF TakeInv, GuardsInv
  <1>. QED  BY <1>2, <1>3, <1>5 DEF TakeInv

LEMMA TakeInvStep == SizingInv /\ TakeInv /\ [Next]_vars => TakeInv'
  <1>. SUFFICES ASSUME SizingInv, TakeInv, [Next]_vars PROVE TakeInv'
    OBVIOUS
  <1>1. CASE IntakeNext /\ UNCHANGED sizing
    BY <1>1, TakeBefore
  <1>2. CASE (TimePasses \/ MarketMoves) /\ UNCHANGED sizing
    <2>1. now \in 0..MaxNow /\ market \in Prices /\ MaxNow \in Nat
      BY UnitAssumption DEF TakeInv, IntakeTypeOK
    <2>2. now' \in 0..MaxNow /\ market' \in Prices
      BY <1>2, <2>1 DEF TimePasses, MarketMoves
    <2>. QED  BY <1>2, <2>2, TakeStands DEF TimePasses, MarketMoves, intake, sizing
  <1>3. CASE PreparePlan \/ PlanUnavailable \/ Later
    BY <1>3, TakeLater
  <1>4. CASE UNCHANGED vars
    BY <1>4, TakeStands DEF TakeInv, IntakeTypeOK, vars, intake, environment, sizing
  <1>. QED  BY <1>1, <1>2, <1>3, <1>4 DEF Next, Later

\* An entered signal is an admitted one, its shares within the whole.
LEMMA EnteredFits ==
    ASSUME SizingInv, EntryInv, TakeInv, phase = "entered"
    PROVE  /\ guards \in Seq(Nat)
           /\ SumOf(guards) <= filled
           /\ ShareSum(payload) = Unit => SumOf(guards) = FloorTo(filled, Step)
  <1>1. payload \in Payload /\ filled \in Nat /\ ShareSum(payload) <= Unit
    BY DEF SizingInv, Typed, PlannedLate, EntryInv, FillInv, TakeInv, WholeInv
  <1>2. guards = Allocation(filled)
    BY DEF TakeInv, GuardsInv
  <1>. QED  BY <1>1, <1>2, AllocationFits

-----------------------------------------------------------------------------
(* The theorems.                                                           *)

LEMMA SizingAlways == Spec => []SizingInv
  <1>. QED  BY SizingInvInit, SizingInvStep, PTL DEF Spec

\* Whatever the signal, the fee rate and the step, a plan that is filled at
\* the price it was sized for and stopped loses at most its target.
THEOREM PlansWithinTarget == Spec => []PlanWithinTarget
  <1>1. SizingInv => PlanWithinTarget
    BY DEF SizingInv
  <1>. QED  BY <1>1, SizingAlways, PTL

\* What is admitted as a TradingView signal has its guards on their sides,
\* beyond the minimum distance, and no more than whole.
THEOREM GuardsAdmitted == Spec => []AdmittedGuards
  <1>1. SizingInv => AdmittedGuards
    BY DEF SizingInv
  <1>. QED  BY <1>1, SizingAlways, PTL

\* Whatever the signals, the prices and the configuration: no signal with a
\* close is turned down for the distance of its guards, because moved guards
\* stand at the minimum and the buffer, and the buffer exceeds the tolerance.
THEOREM FarEnough == Spec => []NormalizedIsFarEnough
  <1>1. FarInv => NormalizedIsFarEnough
    BY DEF FarInv
  <1>. QED  BY <1>1, FarInvInit, FarInvStep, SizingAlways, PTL DEF Spec

\* The leverage set at the exchange stays within what signal, configuration
\* and bracket allow, that of a fallback at any later price included.
THEOREM LeverageCapped == Spec => []LeverageWithinCap
  <1>1. EntryInv => LeverageWithinCap
    BY DEF EntryInv, CapInv
  <1>. QED  BY <1>1, EntryInvInit, EntryInvStep, SizingAlways, PTL DEF Spec

\* The executions of a limit order, at any prices on the side of its limit,
\* and the fallback at any price of the market lose no more than the target
\* together, when what is known of the executions is complete.
THEOREM FallbackRisk == Spec => []FallbackWithinTarget
  <1>1. EntryInv => FallbackWithinTarget
    BY DEF EntryInv
  <1>. QED  BY <1>1, EntryInvInit, EntryInvStep, SizingAlways, PTL DEF Spec

\* The plan, the executions and the quantities of the guards are numbers,
\* whatever is signalled, configured and answered.
THEOREM TypeCorrect == Spec => []TypeOK
  <1>1. SizingInv /\ EntryInv /\ TakeInv => TypeOK
    <2>. SUFFICES ASSUME SizingInv, EntryInv, TakeInv PROVE TypeOK
      OBVIOUS
    <2>1. guards \in Seq(Nat)
      <3>1. phase # "entered" => guards = <<>>
        BY DEF TakeInv, GuardsInv
      <3>2. <<>> \in Seq(Nat)
        BY EmptySeq
      <3>. QED  BY <3>1, <3>2, EnteredFits
    <2>. QED  BY <2>1 DEF TypeOK, TakeInv, EntryInv, CapInv, FillInv
  <1>. QED  BY <1>1, EntryInvInit, EntryInvStep, TakeInvInit, TakeInvStep, SizingAlways, PTL
            DEF Spec

\* Take profits never close more than was filled, whichever way the quantity
\* came about, and close all of it that can be ordered when they are whole.
THEOREM TakeProfitsFit == Spec => []TakeProfitsFitPosition
  <1>1. SizingInv /\ EntryInv /\ TakeInv => TakeProfitsFitPosition
    <2>. SUFFICES ASSUME SizingInv, EntryInv, TakeInv, phase = "entered"
                  PROVE  /\ \A i \in DOMAIN guards : guards[i] >= 0
                         /\ GuardedQty <= filled
                         /\ ShareSum(payload) = Unit => GuardedQty = FloorTo(filled, Step)
      BY DEF TakeProfitsFitPosition
    <2>1. guards \in Seq(Nat)
      BY EnteredFits
    <2>2. \A i \in DOMAIN guards : guards[i] \in Nat
      BY <2>1
    <2>. QED  BY <2>2, EnteredFits DEF GuardedQty
  <1>. QED  BY <1>1, EntryInvInit, EntryInvStep, TakeInvInit, TakeInvStep, SizingAlways, PTL
            DEF Spec

\* However long a signal has waited, it is fresh when it is admitted.
THEOREM FreshAdmitted == Spec => AdmittedFresh
  <1>1. SizingInv /\ [Next]_vars
        => [stage = "queued" /\ stage' = "admitted" /\ Sandboxed(payload)
            /\ settings.expiry /\ payload.sent # NoTime
            => now - payload.sent \in -settings.ahead..settings.max_age]_stage
    <2>. SUFFICES ASSUME SizingInv, [Next]_vars, stage = "queued", stage' = "admitted",
                         Sandboxed(payload), settings.expiry, payload.sent # NoTime
                  PROVE  now - payload.sent \in -settings.ahead..settings.max_age
      OBVIOUS
    <2>1. CheckPolicy
      BY LaterKeeps
      DEF Next, IntakeNext, Later, Webhook, TickerUnavailable, TimePasses, MarketMoves,
          PreparePlan, PlanUnavailable, Reject, vars, intake
    <2>2. PayloadReason(payload) = Accepted
      BY <2>1 DEF CheckPolicy, Reject, PolicyReason, Accepted
    <2>3. ~Expired(payload) /\ ~TimestampInvalid(payload)
      BY <2>2 DEF PayloadReason, Accepted
    <2>4. /\ now \in Nat /\ payload.sent \in Int
          /\ settings.ahead \in Nat /\ settings.max_age \in Nat
      BY SettingAssumption, PayloadNumbers DEF SizingInv, Typed, Numbers, Setting
    <2>. QED  BY <2>3, <2>4 DEF Expired, TimestampInvalid, Age
  <1>. QED  BY <1>1, SizingAlways, PTL DEF Spec, AdmittedFresh

\* The second normalisation changes no price, for any settings: a guard is
\* moved to a place that depends on the close alone.
THEOREM QueuedPricesFinal == Spec => QueuedPricesAreFinal
  <1>1. SizingInv /\ [Next]_vars
        => [stage = "queued"
            => payload'.sl = payload.sl /\ payload'.tps = payload.tps]_<<stage, payload>>
    <2>. SUFFICES ASSUME SizingInv, [Next]_vars, stage = "queued"
                  PROVE  payload'.sl = payload.sl /\ payload'.tps = payload.tps
      OBVIOUS
    <2>1. CASE UNCHANGED payload
      BY <2>1
    <2>2. CASE CheckPolicy /\ payload' # payload
      <3>1. Sandboxed(payload) /\ payload' = Normalized(payload)
        BY <2>2 DEF CheckPolicy
      <3>2. Settled(payload)
        BY <3>1 DEF SizingInv, QueuedWhole, Sandboxed
      <3>. QED  BY <3>1, <3>2 DEF Settled, SameGuards
    <2>3. CheckPolicy \/ UNCHANGED payload
      BY LaterKeeps
      DEF Next, IntakeNext, Later, Webhook, TickerUnavailable, TimePasses, MarketMoves,
          PreparePlan, PlanUnavailable, vars, intake
    <2>. QED  BY <2>1, <2>2, <2>3
  <1>. QED  BY <1>1, SizingAlways, PTL DEF Spec, QueuedPricesAreFinal

=============================================================================
