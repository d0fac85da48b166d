------------------------ MODULE TradeExecutionProofs ------------------------
(***************************************************************************)
(* Proofs about TradeExecution: its types, and that the entry of an        *)
(* execution never exceeds its plan, for any number of executions and      *)
(* workers, any quantities and any number of failing calls.                *)
(***************************************************************************)
EXTENDS TradeExecution, FiniteSetTheorems, TLAPS

\* Every level that was placed has been tried, so placed is bounded by the
\* number of levels as tried is.
LevelsCounted == \A t \in Tasks : prot[t].placed <= prot[t].tried

TypeInv == TypeOK /\ LevelsCounted

BeforeEntry == {"new", "read_position", "cancel_regular", "cancel_algo",
                "close", "leverage", "entry"}

AroundLimit == {"wait", "cancel_limit", "check_limit", "after_limit", "fallback"}
Late == Labels \ (BeforeEntry \union AroundLimit)

\* What an execution knows of its entry, by where it is.  Its limit order,
\* which is for the planned quantity, may fill between any two of its calls;
\* only from the cancellation on is filled_qty exact, and that is when the
\* fallback computes what is left of the plan it has made again.
EntryPhase(t) ==
    /\ bought[t] + limit[t] <= PlanAllows(t)
    /\ pc[t] \in BeforeEntry => bought[t] = 0 /\ limit[t] = 0 /\ filled[t] = 0
    /\ pc[t] \in AroundLimit =>
          sig[t].entry = "limit" /\ bought[t] + limit[t] <= PlanQty
    /\ pc[t] = "fallback" => sig[t].fallback
    /\ pc[t] \in {"wait", "cancel_limit", "check_limit"} => filled[t] <= bought[t]
    /\ pc[t] \in {"check_limit", "after_limit", "fallback"} => limit[t] = 0
    /\ pc[t] \in {"after_limit", "fallback"} => filled[t] = bought[t]

EntryInv == \A t \in Tasks \ blind : EntryPhase(t)

-----------------------------------------------------------------------------
(* Types.                                                                  *)

LEMMA SignTimes == ASSUME NEW p \in Int, NEW n \in Nat
                   PROVE  p - Sign(p) * n \in Int
<1>1. Sign(p) \in Int
  BY DEF Sign
<1>2. QED
  BY <1>1

LEMMA SignalFields ==
    ASSUME TypeOK, NEW t \in Tasks
    PROVE  /\ sig[t].side \in Sides
           /\ sig[t].tps \in 0..PlanQty
  BY SignalAssumption DEF TypeOK, Signal

LEMMA ReduceOnlyType ==
    ASSUME TypeOK, NEW t \in Tasks, ReduceOnly(t)
    PROVE  /\ position' \in Int
           /\ thin' \subseteq Tasks
           /\ UNCHANGED <<limit, algo, bought>>
<1>1. position \in Int /\ seen[t] \in Int /\ thin \subseteq Tasks
  BY DEF TypeOK
<1>2. PICK n \in 0..Least(Abs(seen[t]), Abs(position)) :
          /\ Fills(t, n, Least(Abs(seen[t]), Abs(position)))
          /\ position' = position - Sign(position) * n
  BY DEF ReduceOnly
<1>3. n \in Nat
  BY <1>1 DEF Least, Abs
<1>4. position' \in Int
  BY <1>1, <1>2, <1>3, SignTimes
<1>5. thin' \subseteq Tasks
  BY <1>1, <1>2 DEF Fills
<1>6. QED
  BY <1>4, <1>5 DEF ReduceOnly

LEMMA InitType == Init => TypeInv
  BY QtyAssumption, BoundAssumption
  DEF Init, InitWith, TypeInv, TypeOK, LevelsCounted, Labels, Ended, NoProtection, Protection

\* The first half of an execution: the existing position and the entry.
LEMMA EntryType ==
    ASSUME TypeInv, NEW t \in Tasks,
           \/ Begin(t) \/ ReadPosition(t) \/ CancelRegular(t) \/ CancelAlgo(t)
           \/ ClosePosition(t) \/ ChangeLeverage(t) \/ MarketEntry(t)
           \/ LimitEntry(t) \/ WaitForLimitFill(t) \/ CancelLimit(t)
           \/ CheckLimit(t) \/ AfterLimit(t) \/ MarketFallback(t)
    PROVE  TypeInv'
  <1>. USE DEF TypeInv, TypeOK, LevelsCounted
  <1>1. \A label \in Labels : Goto(t, label) => pc' \in [Tasks -> Labels]
    BY DEF Goto
  <1>2. Fails => faults' \in 0..MaxFaults
    BY BoundAssumption DEF Fails
  <1>3. sig[t].side \in Int
    BY SignalFields DEF Sides
  <1>4. \A n, q \in Nat : Fills(t, n, q) => thin' \subseteq Tasks
    BY DEF Fills
  <1>5. \A n \in Nat : Buy(t, n) => position' \in Int /\ bought' \in [Tasks -> Nat]
    <2>1. sig[t].side = 1 \/ sig[t].side = -1
      BY SignalFields DEF Sides
    <2>. QED  BY <2>1 DEF Buy
  <1>6. PlanQty \in Nat /\ ManualQty \in Nat
    BY QtyAssumption
  <1>. USE DEF exchange, local, bounds, Labels, Ended
  <1>7. CASE Begin(t)
    BY <1>1, <1>7 DEF Begin
  <1>8. CASE ReadPosition(t)
    BY <1>1, <1>2, <1>8 DEF ReadPosition
  <1>9. CASE CancelRegular(t)
    BY <1>1, <1>2, <1>6, <1>9 DEF CancelRegular
  <1>10. CASE CancelAlgo(t)
    BY <1>1, <1>2, <1>10 DEF CancelAlgo
  <1>11. CASE ClosePosition(t)
    BY <1>1, <1>2, <1>11, ReduceOnlyType DEF ClosePosition, FailsUnless
  <1>12. CASE ChangeLeverage(t)
    BY <1>1, <1>2, <1>12 DEF ChangeLeverage
  <1>13. CASE MarketEntry(t)
    <2>1. \A n \in 0..PlanQty : Reported(n, PlanQty) \in Nat
      BY <1>6 DEF Reported
    <2>. QED  BY <1>1, <1>2, <1>4, <1>5, <1>6, <1>13, <2>1 DEF MarketEntry, SetFilled
  <1>14. CASE LimitEntry(t)
    BY <1>1, <1>2, <1>6, <1>14 DEF LimitEntry
  <1>15. CASE WaitForLimitFill(t)
    BY <1>1, <1>2, <1>15 DEF WaitForLimitFill, FailsUnless, SetFilled
  <1>16. CASE CancelLimit(t)
    BY <1>1, <1>2, <1>6, <1>16 DEF CancelLimit, FailsUnless, SetFilled, Most
  <1>17. CASE CheckLimit(t)
    BY <1>1, <1>2, <1>17 DEF CheckLimit, SetFilled, Most
  <1>18. CASE AfterLimit(t)
    BY <1>1, <1>18 DEF AfterLimit, EntryOutcome
  <1>19. CASE MarketFallback(t)
    <2>1. FallbackQty(t) \in Int
      BY <1>6 DEF FallbackQty, RecalculatedTotal
    <2>2. ASSUME NEW quantity \in 1..FallbackQty(t), NEW n \in 0..FallbackQty(t)
          PROVE  quantity \in Nat /\ n \in Nat /\ Reported(n, quantity) \in Nat
      BY <2>1 DEF Reported
    <2>. QED
      BY <1>1, <1>2, <1>4, <1>5, <1>19, <2>2 DEF MarketFallback, SetFilled, EntryOutcome
  <1>. QED
    BY <1>7, <1>8, <1>9, <1>10, <1>11, <1>12, <1>13, <1>14, <1>15, <1>16,
       <1>17, <1>18, <1>19

\* The four ways in which a placement changes the summary.
LEMMA Updates ==
    ASSUME NEW p \in Protection, p.placed <= p.tried,
           NEW q,
           \/ q = [p EXCEPT !.stop = TRUE]
           \/ q = [p EXCEPT !.failed = TRUE]
           \/ q = [p EXCEPT !.tries = @ + 1] /\ p.tries < 2
           \/ /\ p.tried < PlanQty
              /\ \/ q = [p EXCEPT !.tried = @ + 1, !.placed = @ + 1]
                 \/ q = [p EXCEPT !.tried = @ + 1, !.failed = TRUE]
    PROVE  q \in Protection /\ q.placed <= q.tried
  <1>1. PlanQty \in Nat
    BY QtyAssumption
  <1>2. /\ p.tries \in 0..3 /\ p.stop \in BOOLEAN /\ p.failed \in BOOLEAN
        /\ p.tried \in 0..PlanQty /\ p.placed \in 0..PlanQty
        /\ p = [tries |-> p.tries, stop |-> p.stop, tried |-> p.tried,
                placed |-> p.placed, failed |-> p.failed]
    BY DEF Protection
  <1>3. CASE q = [p EXCEPT !.stop = TRUE]
    BY <1>2, <1>3 DEF Protection
  <1>4. CASE q = [p EXCEPT !.failed = TRUE]
    BY <1>2, <1>4 DEF Protection
  <1>5. CASE q = [p EXCEPT !.tries = @ + 1] /\ p.tries < 2
    <2>1. p.tries + 1 \in 0..3
      BY <1>2, <1>5
    <2>. QED  BY <1>2, <1>5, <2>1 DEF Protection
  <1>6. CASE /\ p.tried < PlanQty
             /\ q = [p EXCEPT !.tried = @ + 1, !.placed = @ + 1]
    <2>1. p.tried + 1 \in 0..PlanQty /\ p.placed + 1 \in 0..PlanQty
      BY <1>1, <1>2, <1>6
    <2>2. q = [tries |-> p.tries, stop |-> p.stop, tried |-> p.tried + 1,
               placed |-> p.placed + 1, failed |-> p.failed]
      BY <1>2, <1>6
    <2>3. q \in Protection
      BY <1>2, <2>1, <2>2 DEF Protection
    <2>4. q.placed = p.placed + 1 /\ q.tried = p.tried + 1
      BY <2>2
    <2>. QED  BY <1>1, <1>2, <2>3, <2>4
  <1>7. CASE /\ p.tried < PlanQty
             /\ q = [p EXCEPT !.tried = @ + 1, !.failed = TRUE]
    <2>1. p.tried + 1 \in 0..PlanQty
      BY <1>1, <1>2, <1>7
    <2>2. q = [tries |-> p.tries, stop |-> p.stop, tried |-> p.tried + 1,
               placed |-> p.placed, failed |-> TRUE]
      BY <1>2, <1>7
    <2>3. q \in Protection
      BY <1>2, <2>1, <2>2 DEF Protection
    <2>4. q.placed = p.placed /\ q.tried = p.tried + 1
      BY <2>2
    <2>. QED  BY <1>1, <1>2, <2>3, <2>4
  <1>. QED  BY <1>3, <1>4, <1>5, <1>6, <1>7

\* The second half: protection and emergency close.
LEMMA ProtectionType ==
    ASSUME TypeInv, NEW t \in Tasks,
           \/ RecordOpen(t) \/ ConfirmPosition(t) \/ SubmitStop(t)
           \/ StopRetry(t) \/ SubmitTakeProfit(t) \/ TakeProfitsDone(t)
           \/ Judge(t) \/ EmergencyRead(t) \/ EmergencyCloseOrder(t)
    PROVE  TypeInv'
  <1>. USE DEF TypeInv, TypeOK, LevelsCounted
  <1>1. \A label \in Labels : Goto(t, label) => pc' \in [Tasks -> Labels]
    BY DEF Goto
  <1>2. Fails => faults' \in 0..MaxFaults
    BY BoundAssumption DEF Fails
  <1>3. sig[t].side \in Sides /\ sig[t].tps \in 0..PlanQty /\ PlanQty \in Nat
    BY SignalFields, QtyAssumption
  <1>4. \A kind \in {"stop", "tp"}, n \in 0..PlanQty :
           Place(t, kind, n) => algo' \subseteq Algo
    BY <1>3 DEF Place, Algo
  <1>5. ASSUME NEW p \in Protection, p.placed <= p.tried, Placed(t, p)
        PROVE  prot' \in [Tasks -> Protection] /\ LevelsCounted'
    BY <1>5 DEF Placed
  <1>6. /\ prot[t] \in Protection
        /\ prot[t].placed <= prot[t].tried
        /\ prot[t].tries \in 0..3
        /\ prot[t].tried \in 0..PlanQty
        /\ prot[t].placed \in 0..PlanQty
    BY DEF Protection
  <1>. USE DEF exchange, local, bounds, Labels, Ended
  <1>7. CASE RecordOpen(t)
    BY <1>1, <1>2, <1>7 DEF RecordOpen
  <1>8. CASE ConfirmPosition(t)
    BY <1>1, <1>2, <1>8 DEF ConfirmPosition
  <1>9. CASE SubmitStop(t)
    <2>2. 0 \in 0..PlanQty
      BY <1>3
    <2>3. prot' \in [Tasks -> Protection] /\ LevelsCounted'
      BY <1>5, <1>6, <1>9, Updates DEF SubmitStop
    <2>4. algo' \subseteq Algo /\ pc' \in [Tasks -> Labels] /\ faults' \in 0..MaxFaults
      BY <1>1, <1>2, <1>4, <1>9, <2>2 DEF SubmitStop
    <2>. QED  BY <1>9, <2>3, <2>4 DEF SubmitStop
  <1>10. CASE StopRetry(t)
    <2>1. prot' \in [Tasks -> Protection] /\ LevelsCounted'
      BY <1>5, <1>6, <1>10, Updates DEF StopRetry
    <2>. QED  BY <1>1, <1>2, <1>10, <2>1 DEF StopRetry
  <1>11. CASE SubmitTakeProfit(t)
    <2>1. prot[t].tried < PlanQty
      <3>1. TpCount(t) <= sig[t].tps
        BY <1>3 DEF TpCount, Least
      <3>. QED  BY <1>3, <1>6, <1>11, <3>1 DEF SubmitTakeProfit, TpCount, Least
    <2>3. prot' \in [Tasks -> Protection] /\ LevelsCounted'
      BY <1>5, <1>6, <1>11, <2>1, Updates DEF SubmitTakeProfit
    <2>4. algo' \subseteq Algo /\ pc' \in [Tasks -> Labels] /\ faults' \in 0..MaxFaults
      BY <1>1, <1>2, <1>4, <1>6, <1>11 DEF SubmitTakeProfit
    <2>. QED  BY <1>11, <2>3, <2>4 DEF SubmitTakeProfit
  <1>12. CASE TakeProfitsDone(t)
    BY <1>1, <1>12 DEF TakeProfitsDone
  <1>13. CASE Judge(t)
    BY <1>1, <1>13 DEF Judge
  <1>14. CASE EmergencyRead(t)
    BY <1>1, <1>2, <1>14 DEF EmergencyRead
  <1>15. CASE EmergencyCloseOrder(t)
    BY <1>1, <1>2, <1>15, ReduceOnlyType DEF EmergencyCloseOrder, FailsUnless
  <1>. QED
    BY <1>7, <1>8, <1>9, <1>10, <1>11, <1>12, <1>13, <1>14, <1>15

LEMMA MarketType ==
    ASSUME TypeInv, Market
    PROVE  TypeInv'
  <1>. USE DEF TypeInv, TypeOK, LevelsCounted, local, bounds
  <1>1. ASSUME NEW t \in Tasks, FillLimit(t)
        PROVE  TypeInv'
    <2>1. sig[t].side = 1 \/ sig[t].side = -1
      BY SignalFields DEF Sides
    <2>. QED  BY <1>1, <2>1, QtyAssumption DEF FillLimit, Buy
  <1>2. ASSUME NEW order \in algo, Trigger(order)
        PROVE  TypeInv'
    BY <1>2 DEF Trigger, Sign
  <1>. QED  BY <1>1, <1>2 DEF Market

LEMMA NextType == TypeInv /\ [Next]_vars => TypeInv'
  <1>. SUFFICES ASSUME TypeInv, [Next]_vars
                PROVE  TypeInv'
    OBVIOUS
  <1>1. CASE UNCHANGED vars
    BY <1>1 DEF TypeInv, TypeOK, LevelsCounted, vars, exchange, local, bounds
  <1>2. ASSUME NEW t \in Tasks, TaskStep(t)
        PROVE  TypeInv'
    BY <1>2, EntryType, ProtectionType DEF TaskStep
  <1>. QED  BY <1>1, <1>2, MarketType DEF Next

\* Every reachable state has the types; above all the limit orders and the
\* levels that were tried stay within the plan.
THEOREM TypeCorrect == Spec => []TypeOK
  <1>1. TypeInv => TypeOK
    BY DEF TypeInv
  <1>. QED  BY InitType, NextType, <1>1, PTL DEF Spec

-----------------------------------------------------------------------------
(* The entry stays within its plan.                                        *)

\* The plan allows the limit order, and the fallback what it comes to then.
LEMMA Allowance ==
    ASSUME TypeOK, NEW t \in Tasks
    PROVE  /\ PlanAllows(t) \in Nat
           /\ PlanQty <= PlanAllows(t)
           /\ sig[t].entry = "limit" /\ sig[t].fallback
              => RecalculatedTotal(t) <= PlanAllows(t)
           /\ UNCHANGED sig => PlanAllows(t)' = PlanAllows(t)
  BY QtyAssumption DEF PlanAllows, RecalculatedTotal, Most

\* A step that moves an execution before its entry, or past it, and leaves
\* the orders and filled_qty alone.
LEMMA Moves ==
    ASSUME TypeInv, EntryInv, NEW t \in Tasks, NEW label \in Labels,
           Goto(t, label),
           UNCHANGED <<limit, bought, filled, blind, sig>>,
           label \in Late \/ {pc[t], label} \subseteq BeforeEntry
    PROVE  EntryInv'
  <1>1. \A u \in Tasks : PlanAllows(u)' = PlanAllows(u)
    BY Allowance DEF TypeInv
  <1>. QED
    BY <1>1 DEF TypeInv, TypeOK, EntryInv, EntryPhase, Goto, Late, BeforeEntry, AroundLimit

\* A step of t that changes nothing of the other executions.
LEMMA Own ==
    ASSUME TypeInv, EntryInv, NEW t \in Tasks, NEW label \in Labels,
           Goto(t, label),
           blind \subseteq blind',
           UNCHANGED sig,
           \A u \in Tasks \ {t} : /\ limit'[u] = limit[u]
                                  /\ bought'[u] = bought[u]
                                  /\ filled'[u] = filled[u],
           t \notin blind' => EntryPhase(t)'
    PROVE  EntryInv'
  <1>1. \A u \in Tasks : PlanAllows(u)' = PlanAllows(u)
    BY Allowance DEF TypeInv
  <1>. QED  BY <1>1 DEF TypeInv, TypeOK, EntryInv, EntryPhase, Goto

LEMMA FirstHalf ==
    ASSUME TypeInv, EntryInv, NEW t \in Tasks,
           \/ Begin(t) \/ ReadPosition(t) \/ CancelRegular(t) \/ CancelAlgo(t)
           \/ ClosePosition(t) \/ ChangeLeverage(t) \/ MarketEntry(t)
           \/ LimitEntry(t)
    PROVE  EntryInv'
  <1>. USE DEF exchange, local, bounds, Labels, Ended, Late, BeforeEntry, AroundLimit
  <1>1. PlanQty \in Nat
    BY QtyAssumption
  <1>0. \A u \in Tasks : /\ PlanAllows(u) \in Nat
                         /\ PlanQty <= PlanAllows(u)
                         /\ UNCHANGED sig => PlanAllows(u)' = PlanAllows(u)
    BY Allowance DEF TypeInv
  <1>2. CASE Begin(t)
    BY <1>2, Moves DEF Begin
  <1>3. CASE ReadPosition(t)
    BY <1>3, Moves DEF ReadPosition
  <1>4. CASE CancelRegular(t)
    BY <1>0, <1>1, <1>4 DEF CancelRegular, TypeInv, TypeOK, EntryInv, EntryPhase, Goto
  <1>5. CASE CancelAlgo(t)
    BY <1>5, Moves DEF CancelAlgo
  <1>6. CASE ClosePosition(t)
    BY <1>6, Moves DEF ClosePosition, ReduceOnly
  <1>7. CASE ChangeLeverage(t)
    BY <1>7, Moves DEF ChangeLeverage
  <1>8. CASE MarketEntry(t)
    <2>1. PICK n \in 0..PlanQty, label \in Labels :
             /\ Goto(t, label)
             /\ label \in {"record", "raised"}
             /\ bought' = [bought EXCEPT ![t] = @ + n]
             /\ filled' = [filled EXCEPT ![t] = filled'[t]]
             /\ UNCHANGED <<limit, blind, sig>>
      BY <1>1, <1>8 DEF MarketEntry, Buy, SetFilled, TypeInv, TypeOK
    <2>2. t \notin blind => bought[t] = 0 /\ limit[t] = 0
      BY <1>8 DEF MarketEntry, EntryInv, EntryPhase
    <2>3. t \notin blind' => EntryPhase(t)'
      BY <1>0, <1>1, <2>1, <2>2 DEF EntryPhase, Goto, TypeInv, TypeOK
    <2>. QED  BY <2>1, <2>3, Own DEF TypeInv, TypeOK
  <1>9. CASE LimitEntry(t)
    <2>1. PICK label \in Labels :
             /\ Goto(t, label)
             /\ \/ label = "wait" /\ limit' = [limit EXCEPT ![t] = PlanQty]
                \/ /\ label = "raised"
                   /\ limit' \in {limit, [limit EXCEPT ![t] = PlanQty]}
             /\ UNCHANGED <<bought, filled, blind, sig>>
      BY <1>9 DEF LimitEntry
    <2>2. /\ t \notin blind => bought[t] = 0 /\ limit[t] = 0 /\ filled[t] = 0
          /\ sig[t].entry = "limit"
      BY <1>9 DEF LimitEntry, EntryInv, EntryPhase
    <2>3. t \notin blind' => EntryPhase(t)'
      BY <1>0, <1>1, <2>1, <2>2 DEF EntryPhase, Goto, TypeInv, TypeOK
    <2>. QED  BY <2>1, <2>3, Own DEF TypeInv, TypeOK
  <1>. QED  BY <1>2, <1>3, <1>4, <1>5, <1>6, <1>7, <1>8, <1>9

\* From the resting limit order to the end of the entry.
LEMMA LimitHalf ==
    ASSUME TypeInv, EntryInv, NEW t \in Tasks,
           \/ WaitForLimitFill(t) \/ CancelLimit(t) \/ CheckLimit(t)
           \/ AfterLimit(t) \/ MarketFallback(t)
    PROVE  EntryInv'
  <1>. USE DEF exchange, local, bounds, Labels, Ended, Late, BeforeEntry,
               AroundLimit, TypeInv, TypeOK
  <1>1. /\ PlanQty \in Nat /\ limit[t] \in 0..PlanQty
        /\ bought[t] \in Nat /\ filled[t] \in Nat
        /\ PlanAllows(t) \in Nat
        /\ RecalculatedTotal(t) \in Nat
    BY QtyAssumption, Allowance DEF RecalculatedTotal
  <1>0. UNCHANGED sig /\ PlanAllows(t)' = PlanAllows(t)
    <2>1. UNCHANGED sig
      BY DEF WaitForLimitFill, CancelLimit, CheckLimit, AfterLimit, MarketFallback
    <2>. QED  BY <2>1, Allowance
  <1>2. t \notin blind => EntryPhase(t)
    BY DEF EntryInv
  <1>3. CASE WaitForLimitFill(t)
    <2>1. PICK n \in 0..bought[t] :
             /\ SetFilled(t, n)
             /\ Goto(t, IF n = PlanQty THEN "record" ELSE "cancel_limit")
      BY <1>3 DEF WaitForLimitFill
    <2>2. /\ filled' = [filled EXCEPT ![t] = n]
          /\ pc'[t] \in {"record", "cancel_limit"}
          /\ UNCHANGED <<limit, bought, blind>>
      BY <1>3, <2>1 DEF WaitForLimitFill, SetFilled, Goto
    <2>3. t \notin blind' => EntryPhase(t)'
      BY <1>0, <1>1, <1>2, <1>3, <2>1, <2>2 DEF EntryPhase, WaitForLimitFill
    <2>. QED  BY <1>0, <2>1, <2>2, <2>3, Own
  <1>4. CASE CancelLimit(t)
    <2>1. pc[t] = "cancel_limit" /\ UNCHANGED bought
      BY <1>4 DEF CancelLimit
    <2>2. CASE /\ limit' = [limit EXCEPT ![t] = 0]
               /\ filled' = [filled EXCEPT ![t] = Most(filled[t], bought[t])]
               /\ Goto(t, "after_limit")
               /\ UNCHANGED blind
      <3>1. t \notin blind' => EntryPhase(t)'
        BY <1>0, <1>1, <1>2, <2>1, <2>2 DEF EntryPhase, Goto, Most
      <3>. QED  BY <1>0, <2>1, <2>2, <3>1, Own
    <2>3. CASE /\ limit' = [limit EXCEPT ![t] = 0]
               /\ Goto(t, "check_limit")
               /\ UNCHANGED <<filled, blind>>
      <3>1. t \notin blind' => EntryPhase(t)'
        BY <1>0, <1>1, <1>2, <2>1, <2>3 DEF EntryPhase, Goto
      <3>. QED  BY <1>0, <2>1, <2>3, <3>1, Own
    <2>4. CASE /\ blind' = IF limit[t] > 0 THEN blind \union {t} ELSE blind
               /\ Goto(t, "check_limit")
               /\ UNCHANGED <<limit, filled>>
      <3>1. t \notin blind' => EntryPhase(t)'
        BY <1>0, <1>1, <1>2, <2>1, <2>4 DEF EntryPhase, Goto
      <3>. QED  BY <1>0, <2>1, <2>4, <3>1, Own
    <2>. QED  BY <1>4, <2>2, <2>3, <2>4 DEF CancelLimit, SetFilled
  <1>5. CASE CheckLimit(t)
    <2>1. /\ pc[t] = "check_limit"
          /\ Goto(t, "after_limit")
          /\ UNCHANGED <<limit, bought>>
          /\ \/ /\ filled' = [filled EXCEPT ![t] = Most(filled[t], bought[t])]
                /\ UNCHANGED blind
             \/ blind' = blind \union {t} /\ UNCHANGED filled
      BY <1>5 DEF CheckLimit, SetFilled
    <2>2. t \notin blind' => EntryPhase(t)'
      BY <1>0, <1>1, <1>2, <2>1 DEF EntryPhase, Goto, Most
    <2>. QED  BY <1>0, <2>1, <2>2, Own
  <1>6. CASE AfterLimit(t)
    <2>1. PICK label \in {"fallback", "record", "entry_not_filled"} :
             Goto(t, label) /\ (label = "fallback" => sig[t].fallback)
      BY <1>6 DEF AfterLimit, EntryOutcome
    <2>2. t \notin blind' => EntryPhase(t)'
      BY <1>0, <1>1, <1>2, <1>6, <2>1 DEF AfterLimit, EntryPhase, Goto
    <2>. QED  BY <1>0, <1>6, <2>1, <2>2, Own DEF AfterLimit
  <1>7. CASE MarketFallback(t)
    <2>1. pc[t] = "fallback" /\ UNCHANGED <<limit, blind>>
      BY <1>7 DEF MarketFallback
    <2>2. CASE /\ \E label \in Late : Goto(t, label)
               /\ UNCHANGED <<bought, filled>>
      BY <1>0, <2>1, <2>2, Moves
    <2>3. CASE \E quantity \in 1..FallbackQty(t), n \in 0..FallbackQty(t),
                  label \in {"record", "raised"} :
                  /\ Fills(t, n, quantity)
                  /\ Buy(t, n)
                  /\ Goto(t, label)
                  /\ \A u \in Tasks \ {t} : filled'[u] = filled[u]
      <3>1. PICK quantity \in 1..FallbackQty(t), n \in 0..FallbackQty(t),
                 label \in {"record", "raised"} :
                    /\ bought' = [bought EXCEPT ![t] = @ + n]
                    /\ Goto(t, label)
                    /\ \A u \in Tasks \ {t} : filled'[u] = filled[u]
        BY <2>3 DEF Buy
      <3>2. n \in Nat /\ n <= RecalculatedTotal(t) - filled[t]
        BY <1>1 DEF FallbackQty
      <3>3. t \notin blind => bought[t] + n <= PlanAllows(t) /\ limit[t] = 0
        BY <1>1, <1>2, <2>1, <3>2, Allowance DEF EntryPhase
      <3>4. t \notin blind' => EntryPhase(t)'
        BY <1>0, <1>1, <2>1, <3>1, <3>2, <3>3 DEF EntryPhase, Goto
      <3>. QED  BY <1>0, <2>1, <3>1, <3>4, Own
    <2>. QED
      BY <1>7, <2>2, <2>3 DEF MarketFallback, EntryOutcome, SetFilled
  <1>. QED  BY <1>3, <1>4, <1>5, <1>6, <1>7

LEMMA SecondHalf ==
    ASSUME TypeInv, EntryInv, NEW t \in Tasks,
           \/ RecordOpen(t) \/ ConfirmPosition(t) \/ SubmitStop(t)
           \/ StopRetry(t) \/ SubmitTakeProfit(t) \/ TakeProfitsDone(t)
           \/ Judge(t) \/ EmergencyRead(t) \/ EmergencyCloseOrder(t)
    PROVE  EntryInv'
  <1>1. UNCHANGED <<limit, bought, filled, blind, sig>>
    BY DEF RecordOpen, ConfirmPosition, SubmitStop, StopRetry, SubmitTakeProfit,
           TakeProfitsDone, Judge, EmergencyRead, EmergencyCloseOrder,
           ReduceOnly, exchange, local, bounds
  <1>2. (\E label \in Late : Goto(t, label)) \/ UNCHANGED pc
    BY DEF RecordOpen, ConfirmPosition, SubmitStop, StopRetry, SubmitTakeProfit,
           TakeProfitsDone, Judge, EmergencyRead, EmergencyCloseOrder,
           Late, Labels, Ended, BeforeEntry, AroundLimit
  <1>3. CASE UNCHANGED pc
    BY <1>1, <1>3 DEF EntryInv, EntryPhase, PlanAllows
  <1>4. CASE \E label \in Late : Goto(t, label)
    BY <1>1, <1>4, Moves DEF Late
  <1>. QED  BY <1>2, <1>3, <1>4

\* A limit order fills: what was open is bought.
LEMMA MarketMoves ==
    ASSUME TypeInv, EntryInv, Market
    PROVE  EntryInv'
  <1>1. ASSUME NEW t \in Tasks, FillLimit(t)
        PROVE  EntryInv'
    BY <1>1, QtyAssumption
    DEF FillLimit, Buy, TypeInv, TypeOK, EntryInv, EntryPhase, local, bounds,
        BeforeEntry, AroundLimit, PlanAllows, Most
  <1>2. ASSUME NEW order \in algo, Trigger(order)
        PROVE  EntryInv'
    BY <1>2 DEF Trigger, EntryInv, EntryPhase, local, bounds, PlanAllows
  <1>. QED  BY <1>1, <1>2 DEF Market

LEMMA InitEntry == Init => EntryInv
  BY QtyAssumption
  DEF Init, InitWith, EntryInv, EntryPhase, BeforeEntry, AroundLimit, PlanAllows, Most

LEMMA NextEntry == TypeInv /\ EntryInv /\ [Next]_vars => EntryInv'
  <1>. SUFFICES ASSUME TypeInv, EntryInv, [Next]_vars
                PROVE  EntryInv'
    OBVIOUS
  <1>1. CASE UNCHANGED vars
    BY <1>1 DEF EntryInv, EntryPhase, PlanAllows, vars, exchange, local, bounds
  <1>2. ASSUME NEW t \in Tasks, TaskStep(t)
        PROVE  EntryInv'
    BY <1>2, FirstHalf, LimitHalf, SecondHalf DEF TaskStep
  <1>. QED  BY <1>1, <1>2, MarketMoves DEF Next

LEMMA EntryInvBounds == EntryInv => EntryWithinPlan
  BY DEF EntryInv, EntryPhase, EntryWithinPlan

\* No execution buys more than its plan, the one made at the latest price
\* where the mode is manual, with its limit order, that order's
\* partial fills and the fallback taken together, except one whose limit
\* order outlived its cancellation.
THEOREM EntryBounded == Spec => []EntryWithinPlan
  BY InitType, NextType, InitEntry, NextEntry, EntryInvBounds, PTL DEF Spec

-----------------------------------------------------------------------------
(* What a step leaves alone.                                               *)

\* A step of t is its own: it moves no other execution, and of what they
\* have on the exchange it can only cancel the limit orders.
LEMMA TaskFrame ==
    ASSUME TypeInv, NEW t \in Tasks, TaskStep(t)
    PROVE  /\ pc[t] \notin Ended
           /\ pc[t] = "new" => Begin(t)
           /\ \A u \in Tasks \ {t} : /\ pc'[u] = pc[u]
                                     /\ prot'[u] = prot[u]
                                     /\ limit'[u] = limit[u] \/ limit'[u] = 0
           /\ UNCHANGED sig
           /\ blind \subseteq blind'
           /\ thin \subseteq thin'
  <1>. USE DEF TypeInv, TypeOK, exchange, local, bounds, Goto, Ended
  <1>1. CASE Begin(t) \/ ReadPosition(t) \/ CancelRegular(t) \/ CancelAlgo(t)
             \/ ChangeLeverage(t) \/ LimitEntry(t) \/ WaitForLimitFill(t)
             \/ CancelLimit(t) \/ CheckLimit(t) \/ AfterLimit(t)
    BY <1>1 DEF Begin, ReadPosition, CancelRegular, CancelAlgo, ChangeLeverage,
       LimitEntry, WaitForLimitFill, CancelLimit, CheckLimit, AfterLimit
  <1>2. CASE ClosePosition(t) \/ MarketEntry(t) \/ MarketFallback(t)
             \/ EmergencyCloseOrder(t)
    BY <1>2 DEF ClosePosition, MarketEntry, MarketFallback, EmergencyCloseOrder,
       ReduceOnly, Fills
  <1>3. CASE RecordOpen(t) \/ ConfirmPosition(t) \/ SubmitStop(t) \/ StopRetry(t)
             \/ SubmitTakeProfit(t) \/ TakeProfitsDone(t) \/ Judge(t)
             \/ EmergencyRead(t)
    BY <1>3 DEF RecordOpen, ConfirmPosition, SubmitStop, StopRetry,
       SubmitTakeProfit, TakeProfitsDone, Judge, EmergencyRead, Placed
  <1>. QED  BY <1>1, <1>2, <1>3 DEF TaskStep

LEMMA MarketFrame ==
    ASSUME Market
    PROVE  UNCHANGED <<pc, local, bounds>>
  BY DEF Market, FillLimit, Trigger

\* What may outlive an execution is never forgotten.
LEMMA StraysStay ==
    ASSUME TypeInv, [Next]_vars
    PROVE  Strays \subseteq Strays'
  <1>1. ASSUME NEW t \in Tasks, TaskStep(t)
        PROVE  Strays \subseteq Strays'
    BY <1>1, TaskFrame DEF Strays, Ended
  <1>2. CASE Market \/ UNCHANGED vars
    BY <1>2, MarketFrame DEF Strays, local, bounds, vars
  <1>. QED  BY <1>1, <1>2 DEF Next

\* A limit order is open only while its execution waits for it, or is a
\* stray.
StrayInv ==
    \A t \in Tasks : limit[t] # 0 => t \in Strays \/ pc[t] \in {"wait", "cancel_limit"}

LEMMA StrayStep ==
    ASSUME TypeInv, EntryInv, StrayInv, [Next]_vars
    PROVE  StrayInv'
  <1>. USE DEF TypeInv, TypeOK
  <1>0. Strays \subseteq Strays'
    BY StraysStay
  <1>1. ASSUME NEW t \in Tasks, TaskStep(t)
        PROVE  StrayInv'
    <2>1. ASSUME NEW u \in Tasks, u # t, limit'[u] # 0
          PROVE  u \in Strays' \/ pc'[u] \in {"wait", "cancel_limit"}
      BY <1>0, <1>1, <2>1, TaskFrame DEF StrayInv
    <2>2. ASSUME limit'[t] # 0
          PROVE  t \in Strays' \/ pc'[t] \in {"wait", "cancel_limit"}
      <3>1. CASE LimitEntry(t)
        BY <3>1 DEF LimitEntry, Goto, Strays, local
      <3>2. CASE WaitForLimitFill(t)
        <4>1. limit[t] \in Nat /\ bought[t] \in Nat /\ PlanQty \in Nat
          BY QtyAssumption
        <4>2. t \notin blind => bought[t] + limit[t] <= PlanQty
          BY <3>2 DEF EntryInv, EntryPhase, WaitForLimitFill, AroundLimit
        <4>3. limit'[t] = limit[t] /\ blind' = blind
          BY <3>2 DEF WaitForLimitFill, exchange
        <4>. QED
          BY <2>2, <3>2, <4>1, <4>2, <4>3 DEF WaitForLimitFill, Goto, Strays
      <3>3. CASE CancelLimit(t)
        <4>1. limit[t] \in Nat
          BY QtyAssumption
        <4>. QED
          BY <2>2, <3>3, <4>1 DEF CancelLimit, FailsUnless, Strays
      <3>. SUFFICES ASSUME ~LimitEntry(t), ~WaitForLimitFill(t), ~CancelLimit(t)
                    PROVE  t \in Strays'
        BY <3>1, <3>2, <3>3
      <3>4. limit[t] # 0 /\ pc[t] \notin {"wait", "cancel_limit"}
        BY <1>1, <2>2 DEF TaskStep, Begin, ReadPosition, CancelRegular, CancelAlgo,
           ClosePosition, ChangeLeverage, MarketEntry, CheckLimit, AfterLimit,
           MarketFallback, RecordOpen, ConfirmPosition, SubmitStop, StopRetry,
           SubmitTakeProfit, TakeProfitsDone, Judge, EmergencyRead,
           EmergencyCloseOrder, ReduceOnly, exchange
      <3>. QED  BY <1>0, <3>4 DEF StrayInv
    <2>. QED  BY <2>1, <2>2 DEF StrayInv
  <1>2. ASSUME NEW t \in Tasks, FillLimit(t)
        PROVE  StrayInv'
    <2>1. limit[t] # 0 /\ \A u \in Tasks : u # t => limit'[u] = limit[u]
      BY <1>2 DEF FillLimit
    <2>2. UNCHANGED pc
      BY <1>2 DEF FillLimit
    <2>. QED  BY <1>0, <2>1, <2>2 DEF StrayInv
  <1>3. CASE UNCHANGED <<limit, pc>>
    BY <1>0, <1>3 DEF StrayInv
  <1>4. ASSUME NEW order \in algo, Trigger(order)
        PROVE  UNCHANGED <<limit, pc>>
    BY <1>4 DEF Trigger
  <1>. QED  BY <1>1, <1>2, <1>3, <1>4 DEF Next, Market, vars, exchange

-----------------------------------------------------------------------------
(* One worker.                                                             *)

OneAtATime == \A t, u \in Busy : t = u

LEMMA BusyStep ==
    ASSUME Workers = 1, TypeInv, OneAtATime, [Next]_vars
    PROVE  /\ OneAtATime'
           /\ \A t \in Tasks : TaskStep(t) =>
                 \A u \in Tasks \ {t} : pc[u] \in {"new"} \union Ended
  <1>1. ASSUME NEW t \in Tasks, TaskStep(t)
        PROVE  \A u \in Tasks \ {t} : u \notin Busy
    <2>1. CASE t \in Busy
      BY <2>1 DEF OneAtATime
    <2>2. CASE t \notin Busy
      <3>1. Cardinality(Busy) < 1
        BY <1>1, <2>2, TaskFrame DEF Busy, Begin
      <3>2. ASSUME NEW u \in Busy
            PROVE  FALSE
        <4>1. Busy = {u}
          BY DEF OneAtATime
        <4>2. Cardinality(Busy) = 1
          BY <4>1, FS_Singleton, Zenon
        <4>. QED  BY <3>1, <4>2
      <3>. QED  BY <3>2
    <2>. QED  BY <2>1, <2>2
  <1>2. ASSUME NEW t \in Tasks, TaskStep(t)
        PROVE  OneAtATime'
    BY <1>1, <1>2, TaskFrame DEF OneAtATime, Busy
  <1>3. ASSUME UNCHANGED pc
        PROVE  OneAtATime'
    BY <1>3 DEF OneAtATime, Busy
  <1>4. Market => UNCHANGED pc
    BY MarketFrame
  <1>. QED  BY <1>1, <1>2, <1>3, <1>4 DEF Next, vars, Busy

\* The one execution that runs, and its own limit order, are all that can
\* make the position larger.
SerialInv == TypeInv /\ EntryInv /\ StrayInv /\ OneAtATime

LEMMA SerialStep ==
    ASSUME Workers = 1, SerialInv, [Next]_vars
    PROVE  SerialInv'
  BY NextType, NextEntry, StrayStep, BusyStep DEF SerialInv

LEMMA SerialInit == Init => SerialInv
  <1>1. Init => StrayInv /\ OneAtATime
    BY DEF Init, InitWith, StrayInv, OneAtATime, Busy
  <1>. QED  BY <1>1, InitType, InitEntry DEF SerialInv

\* p lies between zero and q.
Within(p, q) == p \in 0..q \/ p \in q..0

LEMMA WithinChain ==
    ASSUME NEW p \in Int, NEW q \in Int, NEW r \in Int, Within(p, q), Within(q, r)
    PROVE  Within(p, r)
  BY DEF Within

LEMMA WithinSame ==
    ASSUME NEW p \in Int
    PROVE  Within(p, p)
  BY DEF Within

\* A position that has shrunk is gone or on its side still, and no larger.
LEMMA WithinSide ==
    ASSUME NEW p \in Int, NEW q \in Int, Within(p, q)
    PROVE  /\ p = 0 \/ Sign(p) = Sign(q)
           /\ Abs(p) <= Abs(q)
           /\ q = 0 => p = 0
  BY DEF Within, Sign, Abs

LEMMA ReduceWithin ==
    ASSUME NEW p \in Int, NEW h \in Int, NEW n \in 0..Least(Abs(h), Abs(p)),
           NEW q, q = p - Sign(p) * n
    PROVE  /\ q \in Int
           /\ Within(q, p)
           /\ n = Abs(p) => q = 0
  <1>1. CASE p > 0
    BY <1>1 DEF Least, Abs, Sign, Within
  <1>2. CASE p < 0
    BY <1>2 DEF Least, Abs, Sign, Within
  <1>3. CASE p = 0
    BY <1>3 DEF Least, Abs, Sign, Within
  <1>. QED  BY <1>1, <1>2, <1>3

\* A reduce-only order only shrinks the position; sent for an amount that
\* still covers it and filled whole, it leaves nothing.
LEMMA ReduceOnlyShrinks ==
    ASSUME TypeInv, NEW t \in Tasks, ReduceOnly(t)
    PROVE  /\ Within(position', position)
           /\ Within(position, seen[t]) /\ t \notin thin' => position' = 0
  <1>1. position \in Int /\ seen[t] \in Int
    BY DEF TypeInv, TypeOK
  <1>2. PICK n \in 0..Least(Abs(seen[t]), Abs(position)) :
          /\ Fills(t, n, Least(Abs(seen[t]), Abs(position)))
          /\ position' = position - Sign(position) * n
    BY DEF ReduceOnly
  <1>3. /\ Within(position', position)
        /\ n = Abs(position) => position' = 0
    BY <1>1, <1>2, ReduceWithin
  <1>4. ASSUME Within(position, seen[t]), t \notin thin'
        PROVE  position' = 0
    <2>1. n = Least(Abs(seen[t]), Abs(position))
      BY <1>2, <1>4 DEF Fills
    <2>2. Least(Abs(seen[t]), Abs(position)) = Abs(position)
      BY <1>1, <1>4 DEF Within, Least, Abs
    <2>. QED  BY <1>3, <2>1, <2>2
  <1>. QED  BY <1>3, <1>4

LEMMA TriggerShrinks ==
    ASSUME TypeInv, NEW order \in algo, Trigger(order)
    PROVE  Within(position', position)
  <1>1. position \in Int
    BY DEF TypeInv, TypeOK
  <1>2. position' = 0 \/ position' = position - Sign(position)
    BY DEF Trigger
  <1>. QED  BY <1>1, <1>2 DEF Within, Sign

\* Only three kinds of step make the position larger.
LEMMA Growth ==
    ASSUME TypeInv, NEW t \in Tasks, TaskStep(t), ~MarketEntry(t), ~MarketFallback(t)
    PROVE  Within(position', position) /\ UNCHANGED bought
  <1>1. position \in Int
    BY DEF TypeInv, TypeOK
  <1>2. CASE UNCHANGED <<position, bought>>
    BY <1>1, <1>2, WithinSame
  <1>3. UNCHANGED <<position, bought>> \/ ReduceOnly(t)
    BY DEF TaskStep, Begin, ReadPosition, CancelRegular, CancelAlgo, ClosePosition,
       ChangeLeverage, LimitEntry, WaitForLimitFill, CancelLimit, CheckLimit,
       AfterLimit, RecordOpen, ConfirmPosition, SubmitStop, StopRetry,
       SubmitTakeProfit, TakeProfitsDone, Judge, EmergencyRead,
       EmergencyCloseOrder, exchange
  <1>. QED  BY <1>2, <1>3, ReduceOnlyShrinks DEF ReduceOnly

\* Without strays a limit order fills only while its execution waits.
LEMMA FillsWaiting ==
    ASSUME StrayInv, NEW t \in Tasks, FillLimit(t), Strays = {}
    PROVE  pc[t] \in {"wait", "cancel_limit"}
  BY DEF StrayInv, FillLimit

-----------------------------------------------------------------------------
(* The amount that was read.                                               *)

\* Where an execution means to close what it has read.
Emptying == {"cancel_regular", "cancel_algo", "close", "emergency_close"}

\* Without strays what it has read still covers the position.
SeenInv ==
    Strays = {} => \A t \in Tasks : pc[t] \in Emptying => Within(position, seen[t])

LEMMA SeenStep ==
    ASSUME Workers = 1, SerialInv, SeenInv, [Next]_vars
    PROVE  SeenInv'
  <1>. USE DEF SerialInv
  <1>0. /\ position \in Int /\ position' \in Int
        /\ seen \in [Tasks -> Int] /\ seen' \in [Tasks -> Int]
        /\ pc \in [Tasks -> Labels]
    BY NextType DEF TypeInv, TypeOK
  <1>. SUFFICES ASSUME Strays' = {}, NEW u \in Tasks, pc'[u] \in Emptying
                PROVE  Within(position', seen'[u])
    BY DEF SeenInv
  <1>1. Strays = {}
    BY StraysStay
  <1>2. pc[u] \in Emptying => Within(position, seen[u])
    BY <1>1 DEF SeenInv
  <1>3. ASSUME pc[u] \in Emptying, UNCHANGED seen, Within(position', position)
        PROVE  Within(position', seen'[u])
    BY <1>0, <1>2, <1>3, WithinChain
  <1>4. ASSUME NEW t \in Tasks, TaskStep(t)
        PROVE  Within(position', seen'[u])
    <2>1. u = t
      BY <1>4, BusyStep, TaskFrame DEF Emptying, Ended
    <2>2. CASE ReadPosition(t) \/ EmergencyRead(t)
      BY <1>0, <2>1, <2>2, WithinSame
      DEF ReadPosition, EmergencyRead, Emptying, Goto, exchange
    <2>3. CASE CancelRegular(t) \/ CancelAlgo(t)
      BY <1>0, <1>3, <2>1, <2>3, WithinSame DEF CancelRegular, CancelAlgo, Emptying, local
    <2>4. ReadPosition(t) \/ EmergencyRead(t) \/ CancelRegular(t) \/ CancelAlgo(t)
      <3>1. CASE Begin(t) \/ ClosePosition(t) \/ ChangeLeverage(t) \/ MarketEntry(t)
                 \/ LimitEntry(t) \/ WaitForLimitFill(t) \/ CancelLimit(t)
                 \/ CheckLimit(t) \/ AfterLimit(t) \/ MarketFallback(t)
        BY <1>0, <2>1, <3>1 DEF Emptying, Goto, Begin, ClosePosition, ChangeLeverage,
           MarketEntry, LimitEntry, WaitForLimitFill, CancelLimit, CheckLimit,
           AfterLimit, MarketFallback, EntryOutcome
      <3>2. CASE RecordOpen(t) \/ ConfirmPosition(t) \/ SubmitStop(t) \/ StopRetry(t)
                 \/ SubmitTakeProfit(t) \/ TakeProfitsDone(t) \/ Judge(t)
                 \/ EmergencyCloseOrder(t)
        BY <1>0, <2>1, <3>2 DEF Emptying, Goto, RecordOpen, ConfirmPosition,
           SubmitStop, StopRetry, SubmitTakeProfit, TakeProfitsDone, Judge,
           EmergencyCloseOrder
      <3>. QED  BY <1>4, <3>1, <3>2 DEF TaskStep
    <2>. QED  BY <2>2, <2>3, <2>4
  <1>5. ASSUME NEW t \in Tasks, FillLimit(t)
        PROVE  FALSE
    <2>1. pc[t] \in {"wait", "cancel_limit"}
      BY <1>1, <1>5, FillsWaiting
    <2>2. UNCHANGED pc
      BY <1>5 DEF FillLimit
    <2>3. t \in Busy /\ u \in Busy /\ t # u
      BY <2>1, <2>2 DEF Busy, Ended, Emptying
    <2>. QED  BY <2>3 DEF OneAtATime
  <1>6. ASSUME NEW order \in algo, Trigger(order)
        PROVE  Within(position', seen'[u])
    BY <1>3, <1>6, TriggerShrinks DEF Trigger, local
  <1>7. CASE UNCHANGED vars
    BY <1>0, <1>3, <1>7, WithinSame DEF vars, exchange, local
  <1>. QED  BY <1>4, <1>5, <1>6, <1>7 DEF Next, Market

LEMMA SeenInit == Init => SeenInv
  BY DEF Init, InitWith, SeenInv, Emptying

\* With one worker, an emergency close that was answered has left nothing of
\* the position: unless a limit order is astray, nothing enlarges it between
\* the read of the amount and the order, and the part that was there before
\* this execution is closed with it.
\* (trader.py, _handle_emergency_close_on_protection_fail)
THEOREM EmergencyFlat ==
    ASSUME Workers = 1
    PROVE  Spec => EmergencyLeavesFlat
  <1>1. SerialInv /\ SeenInv /\ [Next]_vars => SerialInv' /\ SeenInv'
    BY SerialStep, SeenStep
  <1>2. SerialInv /\ SeenInv /\ [Next]_vars =>
           [\A t \in Tasks :
              /\ pc[t] \in {"emergency_read", "emergency_close"}
              /\ pc'[t] = "protection_failed"
              /\ Strays = {}
              /\ t \notin thin'
              => position' = 0]_vars
    <2>. SUFFICES ASSUME SerialInv, SeenInv, Next, NEW t \in Tasks,
                         pc[t] \in {"emergency_read", "emergency_close"},
                         pc'[t] = "protection_failed",
                         Strays = {},
                         t \notin thin'
                  PROVE  position' = 0
      OBVIOUS
    <2>. USE DEF SerialInv
    <2>1. pc \in [Tasks -> Labels]
      BY DEF TypeInv, TypeOK
    <2>2. TaskStep(t)
      BY TaskFrame, MarketFrame DEF Next
    <2>3. CASE EmergencyRead(t)
      BY <2>1, <2>3 DEF EmergencyRead, Goto, exchange
    <2>4. CASE EmergencyCloseOrder(t)
      <3>1. Within(position, seen[t])
        BY <2>4 DEF EmergencyCloseOrder, SeenInv, Emptying
      <3>2. ReduceOnly(t)
        BY <2>1, <2>4 DEF EmergencyCloseOrder, Goto
      <3>. QED  BY <3>1, <3>2, ReduceOnlyShrinks
    <2>5. EmergencyRead(t) \/ EmergencyCloseOrder(t)
      BY <2>2 DEF TaskStep, Begin, ReadPosition, CancelRegular, CancelAlgo,
         ClosePosition, ChangeLeverage, MarketEntry, LimitEntry,
         WaitForLimitFill, CancelLimit, CheckLimit, AfterLimit, MarketFallback,
         RecordOpen, ConfirmPosition, SubmitStop, StopRetry, SubmitTakeProfit,
         TakeProfitsDone, Judge
    <2>. QED  BY <2>3, <2>4, <2>5
  <1>. QED
    BY SerialInit, SeenInit, <1>1, <1>2, PTL DEF Spec, EmergencyLeavesFlat

-----------------------------------------------------------------------------
(* A new entry and the old position.                                       *)

OneSided(t) == position = 0 \/ Sign(position) = sig[t].side

\* Before its entry an execution that does not add has no position; from
\* then on the position is what its own entry has bought, or less.
StackPhase(t) ==
    /\ pc[t] \in {"leverage", "entry"} => position = 0
    /\ pc[t] \in AroundLimit => OneSided(t) /\ Abs(position) <= bought[t]

Tidy ==
    /\ \A t \in Tasks : sig[t].policy # "add"
    /\ Strays = {}
    /\ thin = {}

\* What is open was bought by one execution.
SinglyHeld ==
    \/ position = 0
    \/ \E t \in Tasks : Sign(position) = sig[t].side /\ Abs(position) <= bought[t]

StackInv == Tidy => SinglyHeld /\ \A t \in Tasks : StackPhase(t)

LEMMA TidyBefore ==
    ASSUME TypeInv, [Next]_vars, Tidy'
    PROVE  Tidy /\ UNCHANGED sig
  <1>1. Strays = {}
    BY StraysStay DEF Tidy
  <1>2. UNCHANGED sig /\ thin \subseteq thin'
    <2>1. ASSUME NEW t \in Tasks, TaskStep(t)
          PROVE  UNCHANGED sig /\ thin \subseteq thin'
      BY <2>1, TaskFrame
    <2>. QED  BY <2>1, MarketFrame DEF Next, vars, local, bounds
  <1>. QED  BY <1>1, <1>2 DEF Tidy

\* A step of t disturbs no phase but its own: nothing else is running.
LEMMA StackOwn ==
    ASSUME Workers = 1, SerialInv, [Next]_vars, NEW t \in Tasks, TaskStep(t),
           SinglyHeld', StackPhase(t)'
    PROVE  StackInv'
  <1>1. ASSUME NEW u \in Tasks \ {t}
        PROVE  StackPhase(u)'
    <2>1. pc'[u] \in {"new"} \union Ended
      BY BusyStep, TaskFrame DEF SerialInv
    <2>. QED  BY <2>1 DEF StackPhase, AroundLimit, Ended
  <1>. QED  BY <1>1 DEF StackInv

LEMMA Bought ==
    ASSUME NEW p \in Int, NEW n \in Nat, NEW side \in Sides,
           p = 0 \/ Sign(p) = side,
           NEW q, q = p + side * n
    PROVE  /\ q = 0 \/ Sign(q) = side
           /\ Abs(q) = Abs(p) + n
  <1>1. CASE side = 1
    BY <1>1 DEF Sign, Abs
  <1>2. CASE side = -1
    BY <1>2 DEF Sign, Abs
  <1>. QED  BY <1>1, <1>2 DEF Sides

LEMMA HeldShrinks ==
    ASSUME position \in Int, position' \in Int, bought \in [Tasks -> Nat],
           SinglyHeld, Within(position', position), UNCHANGED <<sig, bought>>
    PROVE  SinglyHeld'
  <1>1. /\ position' = 0 \/ Sign(position') = Sign(position)
        /\ Abs(position') <= Abs(position)
        /\ position = 0 => position' = 0
    BY WithinSide
  <1>2. Abs(position) \in Int /\ Abs(position') \in Int
    BY DEF Abs
  <1>3. \A t \in Tasks : bought[t] \in Int /\ bought'[t] = bought[t]
    OBVIOUS
  <1>. QED  BY <1>1, <1>2, <1>3 DEF SinglyHeld

LEMMA StackStep ==
    ASSUME Workers = 1, SerialInv, SeenInv, StackInv, [Next]_vars
    PROVE  StackInv'
  <1>. USE DEF SerialInv
  <1>0. /\ position \in Int /\ position' \in Int
        /\ pc \in [Tasks -> Labels]
        /\ bought \in [Tasks -> Nat] /\ bought' \in [Tasks -> Nat]
        /\ filled \in [Tasks -> Nat]
        /\ limit \in [Tasks -> 0..PlanQty]
        /\ seen \in [Tasks -> Int]
        /\ PlanQty \in Nat
    BY NextType, QtyAssumption DEF TypeInv, TypeOK
  <1>. SUFFICES ASSUME Tidy'
                PROVE  StackInv'
    BY DEF StackInv
  <1>1. Tidy /\ UNCHANGED sig
    BY TidyBefore
  <1>2. Strays = {} /\ Strays' = {} /\ thin' = {}
    BY <1>1 DEF Tidy
  <1>3. SinglyHeld /\ \A t \in Tasks : StackPhase(t)
    BY <1>1 DEF StackInv
  <1>4. \A t \in Tasks : sig[t].policy # "add" /\ sig[t].side \in Sides
    BY <1>1, SignalFields DEF Tidy, TypeInv
  <1>5. ASSUME Within(position', position), UNCHANGED bought
        PROVE  SinglyHeld'
    BY <1>0, <1>1, <1>3, <1>5, HeldShrinks
  <1>6. ASSUME NEW t \in Tasks, TaskStep(t), SinglyHeld',
               pc'[t] \notin {"leverage", "entry"} \union AroundLimit
        PROVE  StackInv'
    <2>1. StackPhase(t)'
      BY <1>6 DEF StackPhase
    <2>. QED  BY <1>6, <2>1, StackOwn
  <1>7. ASSUME NEW t \in Tasks, NEW n \in Nat, Buy(t, n),
               OneSided(t), Abs(position) <= bought[t]
        PROVE  OneSided(t)' /\ Abs(position') <= bought'[t] /\ SinglyHeld'
    <2>1. position' = 0 \/ Sign(position') = sig[t].side
      BY <1>0, <1>4, <1>7, Bought DEF Buy, OneSided
    <2>2. Abs(position') = Abs(position) + n
      BY <1>0, <1>4, <1>7, Bought DEF Buy, OneSided
    <2>3. bought'[t] = bought[t] + n /\ bought[t] \in Int /\ Abs(position) \in Int
      BY <1>0, <1>7 DEF Buy, Abs
    <2>4. Abs(position') <= bought'[t]
      BY <1>7, <2>2, <2>3
    <2>. QED  BY <1>1, <2>1, <2>4 DEF SinglyHeld, OneSided
  <1>8. ASSUME NEW t \in Tasks, TaskStep(t)
        PROVE  StackInv'
    <2>1. CASE ReadPosition(t)
      <3>1. pc'[t] = "leverage" => position' = 0
        BY <1>0, <1>4, <2>1 DEF ReadPosition, Goto, MustClose, exchange
      <3>2. pc'[t] \notin {"entry"} \union AroundLimit
        BY <1>0, <2>1 DEF ReadPosition, Goto, AroundLimit
      <3>3. SinglyHeld'
        BY <1>0, <1>5, <2>1, WithinSame DEF ReadPosition, exchange
      <3>. QED  BY <1>8, <3>1, <3>2, <3>3, StackOwn DEF StackPhase
    <2>2. CASE CancelAlgo(t)
      <3>1. Within(position, seen[t])
        BY <1>2, <2>2 DEF CancelAlgo, SeenInv, Emptying
      <3>2. pc'[t] = "leverage" => position' = 0
        BY <1>0, <1>4, <2>2, <3>1, WithinSide DEF CancelAlgo, Goto, MustClose
      <3>3. pc'[t] \notin {"entry"} \union AroundLimit
        BY <1>0, <2>2 DEF CancelAlgo, Goto, AroundLimit
      <3>4. SinglyHeld'
        BY <1>0, <1>5, <2>2, WithinSame DEF CancelAlgo
      <3>. QED  BY <1>8, <3>2, <3>3, <3>4, StackOwn DEF StackPhase
    <2>3. CASE ClosePosition(t)
      <3>1. Within(position, seen[t])
        BY <1>2, <2>3 DEF ClosePosition, SeenInv, Emptying
      <3>2. pc'[t] = "leverage" => position' = 0
        BY <1>0, <1>2, <2>3, <3>1, ReduceOnlyShrinks DEF ClosePosition, Goto
      <3>3. pc'[t] \notin {"entry"} \union AroundLimit
        BY <1>0, <2>3 DEF ClosePosition, Goto, AroundLimit
      <3>4. SinglyHeld'
        BY <1>5, <1>8, <2>3, Growth DEF ClosePosition, MarketEntry, MarketFallback
      <3>. QED  BY <1>8, <3>2, <3>3, <3>4, StackOwn DEF StackPhase
    <2>4. CASE ChangeLeverage(t)
      <3>1. position' = 0 /\ pc'[t] \notin AroundLimit
        BY <1>0, <1>3, <2>4 DEF ChangeLeverage, StackPhase, Goto, AroundLimit, exchange
      <3>. QED  BY <1>8, <3>1, StackOwn DEF StackPhase, SinglyHeld
    <2>5. CASE MarketEntry(t)
      <3>1. position = 0 /\ pc'[t] \notin {"leverage", "entry"} \union AroundLimit
        BY <1>0, <1>3, <2>5 DEF MarketEntry, StackPhase, Goto, AroundLimit
      <3>2. CASE UNCHANGED position
        BY <1>6, <1>8, <3>1, <3>2 DEF SinglyHeld
      <3>3. ASSUME NEW n \in 0..PlanQty, Buy(t, n)
            PROVE  StackInv'
        <4>1. OneSided(t) /\ Abs(position) <= bought[t] /\ n \in Nat
          BY <1>0, <3>1 DEF OneSided, Abs
        <4>. QED  BY <1>6, <1>7, <1>8, <3>1, <3>3, <4>1
      <3>. QED  BY <2>5, <3>2, <3>3 DEF MarketEntry
    <2>6. CASE LimitEntry(t)
      <3>1. position' = 0 /\ UNCHANGED bought
        BY <1>3, <2>6 DEF LimitEntry, StackPhase
      <3>2. pc'[t] \notin {"leverage", "entry"}
        BY <1>0, <2>6 DEF LimitEntry, Goto
      <3>. QED
        BY <1>0, <1>8, <3>1, <3>2, StackOwn DEF StackPhase, OneSided, SinglyHeld, Abs
    <2>7. CASE WaitForLimitFill(t) \/ CancelLimit(t) \/ CheckLimit(t) \/ AfterLimit(t)
      <3>1. pc[t] \in AroundLimit /\ UNCHANGED <<position, bought>>
        BY <2>7 DEF WaitForLimitFill, CancelLimit, CheckLimit, AfterLimit,
           AroundLimit, exchange, local
      <3>2. pc'[t] \notin {"leverage", "entry"}
        BY <1>0, <2>7 DEF WaitForLimitFill, CancelLimit, CheckLimit, AfterLimit,
           Goto, EntryOutcome
      <3>3. SinglyHeld' /\ StackPhase(t)'
        BY <1>1, <1>3, <3>1, <3>2 DEF StackPhase, OneSided, SinglyHeld
      <3>. QED  BY <1>8, <3>3, StackOwn
    <2>8. CASE MarketFallback(t)
      <3>1. /\ pc'[t] \notin {"leverage", "entry"} \union AroundLimit
            /\ OneSided(t)
            /\ Abs(position) <= bought[t]
        BY <1>0, <1>3, <2>8 DEF MarketFallback, StackPhase, Goto, AroundLimit,
           EntryOutcome
      <3>2. CASE UNCHANGED <<position, bought>>
        BY <1>0, <1>5, <1>6, <1>8, <3>1, <3>2, WithinSame
      <3>3. ASSUME NEW n \in 0..FallbackQty(t), Buy(t, n)
            PROVE  StackInv'
        <4>1. n \in Nat
          BY <1>0, QtyAssumption DEF FallbackQty, RecalculatedTotal
        <4>. QED  BY <1>6, <1>7, <1>8, <3>1, <3>3, <4>1
      <3>. QED  BY <2>8, <3>2, <3>3 DEF MarketFallback
    <2>9. CASE Begin(t) \/ CancelRegular(t)
      <3>1. SinglyHeld'
        BY <1>0, <1>5, <2>9, WithinSame DEF Begin, CancelRegular, exchange
      <3>2. pc'[t] \in {"read_position", "cancel_algo"}
        BY <1>0, <2>9 DEF Begin, CancelRegular, Goto
      <3>. QED  BY <1>6, <1>8, <3>1, <3>2 DEF AroundLimit
    <2>10. CASE RecordOpen(t) \/ ConfirmPosition(t) \/ SubmitStop(t) \/ StopRetry(t)
                \/ SubmitTakeProfit(t) \/ TakeProfitsDone(t) \/ Judge(t)
                \/ EmergencyRead(t) \/ EmergencyCloseOrder(t)
      <3>1. pc'[t] \notin {"leverage", "entry"} \union AroundLimit
        BY <1>0, <2>10 DEF AroundLimit, RecordOpen, ConfirmPosition, SubmitStop,
           StopRetry, SubmitTakeProfit, TakeProfitsDone, Judge, EmergencyRead,
           EmergencyCloseOrder, Goto
      <3>2. ~MarketEntry(t) /\ ~MarketFallback(t)
        BY <2>10 DEF RecordOpen, ConfirmPosition, SubmitStop, StopRetry,
           SubmitTakeProfit, TakeProfitsDone, Judge, EmergencyRead,
           EmergencyCloseOrder, MarketEntry, MarketFallback
      <3>3. SinglyHeld'
        BY <1>5, <1>8, <3>2, Growth
      <3>. QED  BY <1>6, <1>8, <3>1, <3>3
    <2>. QED
      BY <1>8, <2>1, <2>2, <2>3, <2>4, <2>5, <2>6, <2>7, <2>8, <2>9, <2>10
      DEF TaskStep
  <1>9. ASSUME NEW t \in Tasks, FillLimit(t)
        PROVE  StackInv'
    <2>1. pc[t] \in {"wait", "cancel_limit"} /\ UNCHANGED pc
      BY <1>2, <1>9, FillsWaiting DEF FillLimit
    <2>2. OneSided(t) /\ Abs(position) <= bought[t] /\ Buy(t, 1)
      BY <1>3, <1>9, <2>1 DEF StackPhase, AroundLimit, FillLimit
    <2>3. OneSided(t)' /\ Abs(position') <= bought'[t] /\ SinglyHeld'
      BY <1>7, <2>2
    <2>4. ASSUME NEW u \in Tasks
          PROVE  StackPhase(u)'
      <3>1. CASE u = t
        BY <2>1, <2>3, <3>1 DEF StackPhase
      <3>2. CASE u # t
        <4>1. u \notin Busy
          BY <2>1, <3>2 DEF OneAtATime, Busy, Ended
        <4>. QED  BY <2>1, <4>1 DEF StackPhase, Busy, AroundLimit, Ended
      <3>. QED  BY <3>1, <3>2
    <2>. QED  BY <2>3, <2>4 DEF StackInv
  <1>10. ASSUME NEW order \in algo, Trigger(order)
        PROVE  StackInv'
    <2>1. Within(position', position) /\ UNCHANGED <<pc, bought>>
      BY <1>10, TriggerShrinks DEF Trigger
    <2>2. /\ position' = 0 \/ Sign(position') = Sign(position)
          /\ Abs(position') <= Abs(position)
          /\ position = 0 => position' = 0
      BY <1>0, <2>1, WithinSide
    <2>3. Abs(position) \in Int /\ Abs(position') \in Int
      BY <1>0 DEF Abs
    <2>4. ASSUME NEW u \in Tasks
          PROVE  StackPhase(u)'
      <3>1. StackPhase(u) /\ bought[u] \in Int
        BY <1>0, <1>3
      <3>2. OneSided(u) => OneSided(u)'
        BY <1>1, <2>2 DEF OneSided
      <3>3. Abs(position) <= bought[u] => Abs(position') <= bought[u]
        BY <2>2, <2>3, <3>1
      <3>. QED  BY <2>1, <2>2, <3>1, <3>2, <3>3 DEF StackPhase
    <2>. QED  BY <1>5, <2>1, <2>4 DEF StackInv
  <1>11. CASE UNCHANGED vars
    BY <1>11 DEF StackInv, StackPhase, SinglyHeld, OneSided, Tidy, Strays, vars,
       exchange, local, bounds
  <1>. QED  BY <1>8, <1>9, <1>10, <1>11 DEF Next, Market

LEMMA StackInit == Init => StackInv
  BY DEF Init, InitWith, StackInv, StackPhase, SinglyHeld, AroundLimit

\* With one worker, full fills and no limit order astray, and signals that do
\* not add, what is open was bought by one execution: the old position is gone
\* when the new entry is sent, for any mix of entries, policies, failing
\* calls and triggers.
\* (trader.py, _handle_existing_position and _submit_entry_order)
THEOREM NoStacking ==
    ASSUME Workers = 1
    PROVE  Spec => []PositionsDoNotStack
  <1>1. SerialInv /\ SeenInv /\ StackInv /\ [Next]_vars
        => SerialInv' /\ SeenInv' /\ StackInv'
    BY SerialStep, SeenStep, StackStep
  <1>2. StackInv => PositionsDoNotStack
    BY DEF StackInv, SinglyHeld, Tidy, PositionsDoNotStack
  <1>. QED
    BY SerialInit, SeenInit, StackInit, <1>1, <1>2, PTL DEF Spec

-----------------------------------------------------------------------------
(* A position and its stop.                                                *)

\* What OrderlyEndsAreCovered asks of an execution that has ended holds of it
\* on its way there.
InOrder ==
    \A t \in Tasks :
        /\ pc[t] \notin {"raised", "protection_failed"}
        /\ sig[t].stop
        /\ t \notin blind \union thin
        /\ ~(sig[t].policy = "add" /\ sig[t].cancel)

Protecting == {"tp", "judge", "emergency_read", "emergency_close"}

\* The stop of an old position guards it until the execution either closes
\* that position or has bought something itself; from the confirmation of its
\* entry on the position is on its side, where its own stop will guard it.
CoverPhase(t) ==
    /\ pc[t] \in {"cancel_regular", "cancel_algo", "close"} => sig[t].policy # "add"
    /\ pc[t] \in {"read_position", "leverage", "entry"} => Covered
    /\ pc[t] \in AroundLimit /\ bought[t] = 0 => Covered
    /\ pc[t] \in {"stop", "stop_retry", "tp", "judge"} => OneSided(t)
    /\ pc[t] \in {"tp", "judge"} /\ prot[t].stop => Covered
    /\ pc[t] \notin Protecting \union Ended => ~prot[t].stop

CoverInv ==
    InOrder => /\ Busy = {} => Covered
               /\ \A t \in Tasks : CoverPhase(t)

LEMMA InOrderBefore ==
    ASSUME TypeInv, [Next]_vars, InOrder'
    PROVE  InOrder
  <1>1. ASSUME NEW t \in Tasks, TaskStep(t)
        PROVE  InOrder
    BY <1>1, TaskFrame DEF InOrder, Ended
  <1>2. CASE Market \/ UNCHANGED vars
    BY <1>2, MarketFrame DEF InOrder, vars, local, bounds
  <1>. QED  BY <1>1, <1>2 DEF Next

LEMMA InOrderNoStrays ==
    ASSUME TypeInv, InOrder
    PROVE  Strays = {}
  BY DEF InOrder, Strays, TypeInv, TypeOK

\* A step of t disturbs no phase but its own.
LEMMA CoverOwn ==
    ASSUME Workers = 1, SerialInv, CoverInv, InOrder, [Next]_vars,
           NEW t \in Tasks, TaskStep(t),
           CoverPhase(t)',
           pc'[t] \in Ended => Covered'
    PROVE  CoverInv'
  <1>1. ASSUME NEW u \in Tasks \ {t}
        PROVE  CoverPhase(u)'
    <2>1. pc[u] \in {"new"} \union Ended /\ pc'[u] = pc[u] /\ prot'[u] = prot[u]
      BY BusyStep, TaskFrame DEF SerialInv
    <2>2. CoverPhase(u)
      BY DEF CoverInv
    <2>. QED  BY <2>1, <2>2 DEF CoverPhase, AroundLimit, Ended, Protecting
  <1>2. pc'[t] # "new"
    BY DEF SerialInv, TypeInv, TypeOK, TaskStep, Begin, ReadPosition, CancelRegular,
       CancelAlgo, ClosePosition, ChangeLeverage, MarketEntry, LimitEntry,
       WaitForLimitFill, CancelLimit, CheckLimit, AfterLimit, MarketFallback,
       RecordOpen, ConfirmPosition, SubmitStop, StopRetry, SubmitTakeProfit,
       TakeProfitsDone, Judge, EmergencyRead, EmergencyCloseOrder,
       EntryOutcome, Goto
  <1>3. Busy' = {} => pc'[t] \in Ended
    BY <1>2 DEF Busy
  <1>. QED  BY <1>1, <1>3 DEF CoverInv

\* A trigger leaves a stop that is still needed.
LEMMA TriggerCovers ==
    ASSUME TypeInv, NEW order \in algo, Trigger(order), Covered
    PROVE  Covered'
  <1>1. position \in Int /\ position' \in Int
    BY NextType DEF TypeInv, TypeOK, Next, Market
  <1>2. CASE position' = 0
    BY <1>2 DEF Covered
  <1>3. CASE position' # 0
    <2>1. Sign(position') = Sign(position) /\ position # 0
      BY <1>1, <1>3, TriggerShrinks, WithinSide
    <2>2. PICK stop \in algo : stop.kind = "stop" /\ stop.guards = Sign(position)
      BY <2>1 DEF Covered
    <2>3. stop \in algo'
      BY <1>3, <2>2 DEF Trigger
    <2>. QED  BY <2>1, <2>2, <2>3 DEF Covered
  <1>. QED  BY <1>2, <1>3

LEMMA CoverFirst ==
    ASSUME Workers = 1, SerialInv, SeenInv, CoverInv, [Next]_vars, InOrder, InOrder',
           NEW t \in Tasks, TaskStep(t),
           \/ Begin(t) \/ ReadPosition(t) \/ CancelRegular(t) \/ CancelAlgo(t)
           \/ ClosePosition(t) \/ ChangeLeverage(t) \/ MarketEntry(t)
           \/ LimitEntry(t)
    PROVE  CoverInv'
  <1>. USE DEF SerialInv, AroundLimit, Protecting, Ended
  <1>0. /\ position \in Int /\ position' \in Int
        /\ pc \in [Tasks -> Labels]
        /\ seen \in [Tasks -> Int]
    BY NextType DEF TypeInv, TypeOK
  <1>1. /\ Strays = {}
        /\ CoverPhase(t)
        /\ Busy = {} => Covered
        /\ sig[t].cancel => sig[t].policy # "add"
        /\ pc'[t] \notin {"raised", "protection_failed"}
        /\ t \notin thin'
    BY InOrderNoStrays DEF CoverInv, InOrder
  <1>2. CASE Begin(t)
    <2>1. Busy = {}
      BY <1>0, <1>2, BusyStep DEF Begin, Busy
    <2>. QED
      BY <1>0, <1>1, <1>2, <2>1, CoverOwn
      DEF Begin, CoverPhase, Covered, Goto, exchange, local
  <1>3. CASE ReadPosition(t)
    <2>1. Covered /\ ~prot[t].stop /\ UNCHANGED <<position, algo, prot, sig>>
      BY <1>1, <1>3 DEF ReadPosition, CoverPhase, exchange
    <2>2. pc'[t] \in {"skipped", "cancel_regular", "close", "leverage"}
      BY <1>0, <1>1, <1>3 DEF ReadPosition, Goto
    <2>3. pc'[t] \in {"cancel_regular", "close"} => sig[t].policy # "add"
      BY <1>0, <1>1, <1>3 DEF ReadPosition, Goto, MustClose
    <2>. QED
      BY <1>1, <1>3, <2>1, <2>2, <2>3, CoverOwn DEF CoverPhase, Covered
  <1>4. CASE CancelRegular(t)
    BY <1>0, <1>1, <1>4, CoverOwn DEF CancelRegular, CoverPhase, Goto, local
  <1>5. CASE CancelAlgo(t)
    <2>1. Within(position, seen[t]) /\ sig[t].policy # "add" /\ ~prot[t].stop
      BY <1>1, <1>5 DEF CancelAlgo, SeenInv, Emptying, CoverPhase
    <2>2. pc'[t] = "leverage" => position' = 0
      BY <1>0, <1>5, <2>1, WithinSide DEF CancelAlgo, Goto, MustClose
    <2>3. pc'[t] \in {"close", "leverage"} /\ UNCHANGED <<sig, prot>>
      BY <1>0, <1>5 DEF CancelAlgo, Goto, local
    <2>. QED  BY <2>1, <2>2, <2>3, CoverOwn DEF CoverPhase, Covered
  <1>6. CASE ClosePosition(t)
    <2>1. Within(position, seen[t]) /\ ~prot[t].stop
      BY <1>1, <1>6 DEF ClosePosition, SeenInv, Emptying, CoverPhase
    <2>2. ReduceOnly(t) /\ pc'[t] = "leverage" /\ UNCHANGED prot
      BY <1>0, <1>1, <1>6 DEF ClosePosition, Goto, local
    <2>3. position' = 0
      BY <1>1, <2>1, <2>2, ReduceOnlyShrinks
    <2>. QED  BY <2>1, <2>2, <2>3, CoverOwn DEF CoverPhase, Covered
  <1>7. CASE ChangeLeverage(t)
    <2>1. pc'[t] = "entry" /\ Covered /\ ~prot[t].stop
      BY <1>0, <1>1, <1>7 DEF ChangeLeverage, Goto, CoverPhase
    <2>. QED
      BY <1>7, <2>1, CoverOwn DEF ChangeLeverage, CoverPhase, Covered, exchange, local
  <1>8. CASE MarketEntry(t)
    <2>1. pc'[t] = "record" /\ ~prot[t].stop /\ UNCHANGED prot
      BY <1>0, <1>1, <1>8 DEF MarketEntry, Goto, CoverPhase
    <2>. QED  BY <2>1, CoverOwn DEF CoverPhase
  <1>9. CASE LimitEntry(t)
    <2>1. pc'[t] = "wait" /\ Covered /\ ~prot[t].stop
      BY <1>0, <1>1, <1>9 DEF LimitEntry, Goto, CoverPhase
    <2>. QED
      BY <1>9, <2>1, CoverOwn DEF LimitEntry, CoverPhase, Covered, local
  <1>. QED  BY <1>2, <1>3, <1>4, <1>5, <1>6, <1>7, <1>8, <1>9

LEMMA CoverLimit ==
    ASSUME Workers = 1, SerialInv, SeenInv, CoverInv, [Next]_vars, InOrder, InOrder',
           NEW t \in Tasks, TaskStep(t),
           \/ WaitForLimitFill(t) \/ CancelLimit(t) \/ CheckLimit(t)
           \/ AfterLimit(t) \/ MarketFallback(t)
    PROVE  CoverInv'
  <1>. USE DEF SerialInv, AroundLimit, Protecting, Ended
  <1>0. /\ pc \in [Tasks -> Labels]
        /\ bought \in [Tasks -> Nat] /\ filled \in [Tasks -> Nat]
    BY DEF TypeInv, TypeOK
  <1>1. /\ CoverPhase(t)
        /\ EntryPhase(t)
        /\ pc'[t] \notin {"raised", "protection_failed"}
    BY DEF CoverInv, InOrder, EntryInv
  <1>2. pc[t] \in AroundLimit /\ UNCHANGED prot /\ ~prot[t].stop
    BY <1>1 DEF WaitForLimitFill, CancelLimit, CheckLimit, AfterLimit,
       MarketFallback, local, CoverPhase
  <1>3. pc'[t] \in {"record", "entry_not_filled"} \union AroundLimit
    BY <1>0, <1>1 DEF WaitForLimitFill, CancelLimit, CheckLimit, AfterLimit,
       MarketFallback, Goto, EntryOutcome
  <1>4. CASE pc'[t] = "record"
    BY <1>2, <1>4, CoverOwn DEF CoverPhase
  <1>5. CASE pc'[t] \in AroundLimit
    <2>1. UNCHANGED <<position, algo, bought>>
      BY <1>0, <1>5 DEF WaitForLimitFill, CancelLimit, CheckLimit, AfterLimit,
         MarketFallback, Goto, EntryOutcome, exchange
    <2>2. bought[t] = 0 => Covered
      BY <1>1, <1>2 DEF CoverPhase
    <2>. QED  BY <1>2, <1>5, <2>1, <2>2, CoverOwn DEF CoverPhase, Covered
  <1>6. CASE pc'[t] = "entry_not_filled"
    <2>1. /\ pc[t] \in {"after_limit", "fallback"}
          /\ ~(filled[t] > 0)
          /\ UNCHANGED <<position, algo>>
      BY <1>0, <1>6 DEF WaitForLimitFill, CancelLimit, CheckLimit, AfterLimit,
         MarketFallback, Goto, EntryOutcome, exchange
    <2>2. bought[t] = 0
      BY <1>0, <1>1, <2>1 DEF EntryPhase
    <2>3. Covered
      BY <1>1, <1>2, <2>2 DEF CoverPhase
    <2>. QED  BY <1>6, <2>1, <2>3, CoverOwn DEF CoverPhase, Covered
  <1>. QED  BY <1>3, <1>4, <1>5, <1>6

LEMMA CoverSecond ==
    ASSUME Workers = 1, SerialInv, SeenInv, CoverInv, [Next]_vars, InOrder, InOrder',
           NEW t \in Tasks, TaskStep(t),
           \/ RecordOpen(t) \/ ConfirmPosition(t) \/ SubmitStop(t)
           \/ StopRetry(t) \/ SubmitTakeProfit(t) \/ TakeProfitsDone(t)
           \/ Judge(t) \/ EmergencyRead(t) \/ EmergencyCloseOrder(t)
    PROVE  CoverInv'
  <1>. USE DEF SerialInv, AroundLimit, Protecting, Ended
  <1>0. /\ pc \in [Tasks -> Labels]
        /\ prot \in [Tasks -> Protection]
        /\ sig[t].stop \in BOOLEAN
    BY DEF TypeInv, TypeOK, InOrder
  <1>1. /\ CoverPhase(t)
        /\ pc'[t] \notin {"raised", "protection_failed"}
        /\ sig[t].stop
    BY DEF CoverInv, InOrder
  <1>2. UNCHANGED sig
    BY TaskFrame
  <1>3. CASE RecordOpen(t) \/ EmergencyRead(t) \/ EmergencyCloseOrder(t)
    <2>1. pc'[t] \in {"confirm", "emergency_close"} /\ UNCHANGED prot
      BY <1>0, <1>1, <1>3 DEF RecordOpen, EmergencyRead, EmergencyCloseOrder, Goto, local
    <2>2. pc'[t] = "confirm" => ~prot[t].stop
      BY <1>0, <1>1, <1>3 DEF RecordOpen, EmergencyRead, EmergencyCloseOrder, Goto,
         CoverPhase
    <2>. QED  BY <2>1, <2>2, CoverOwn DEF CoverPhase
  <1>4. CASE ConfirmPosition(t)
    <2>1. /\ pc'[t] = "stop" /\ ~prot[t].stop
          /\ OneSided(t)
          /\ UNCHANGED <<position, algo, prot>>
      BY <1>0, <1>1, <1>4 DEF ConfirmPosition, Goto, CoverPhase, MeetsExpectation,
         OneSided, exchange, local
    <2>. QED  BY <1>2, <2>1, CoverOwn DEF CoverPhase, OneSided
  <1>5. CASE SubmitStop(t)
    <2>1. /\ pc[t] = "stop" /\ pc'[t] \in {"tp", "stop_retry"}
          /\ OneSided(t) /\ ~prot[t].stop
          /\ UNCHANGED position
      BY <1>0, <1>1, <1>5 DEF SubmitStop, Goto, CoverPhase
    <2>2. OneSided(t)'
      BY <1>2, <2>1 DEF OneSided
    <2>3. CASE Place(t, "stop", 0) /\ pc'[t] = "tp"
      <3>1. [kind |-> "stop", by |-> t, guards |-> sig[t].side, n |-> 0] \in algo'
        BY <2>3 DEF Place
      <3>2. position' = 0 \/ Sign(position') = sig[t].side
        BY <2>1 DEF OneSided
      <3>3. Covered'
        BY <3>1, <3>2 DEF Covered
      <3>. QED  BY <2>2, <2>3, <3>3, CoverOwn DEF CoverPhase
    <2>4. CASE ~(Place(t, "stop", 0) /\ pc'[t] = "tp")
      <3>1. \/ Placed(t, [prot[t] EXCEPT !.tries = @ + 1])
            \/ Placed(t, [prot[t] EXCEPT !.failed = TRUE])
        BY <1>0, <1>1, <1>5, <2>4 DEF SubmitStop, Goto
      <3>2. prot'[t].stop = prot[t].stop
        BY <1>0, <3>1 DEF Placed, Protection
      <3>. QED  BY <2>1, <2>2, <3>2, CoverOwn DEF CoverPhase
    <2>. QED  BY <2>3, <2>4
  <1>6. CASE StopRetry(t)
    <2>1. /\ pc'[t] = "stop" /\ ~prot[t].stop
          /\ OneSided(t)
          /\ UNCHANGED <<position, prot>>
      BY <1>0, <1>1, <1>6 DEF StopRetry, Goto, CoverPhase, exchange
    <2>. QED  BY <1>2, <2>1, CoverOwn DEF CoverPhase, OneSided
  <1>7. CASE SubmitTakeProfit(t)
    <2>1. /\ pc'[t] = "tp"
          /\ OneSided(t)
          /\ prot[t].stop => Covered
          /\ UNCHANGED position
          /\ algo \subseteq algo'
      BY <1>0, <1>1, <1>7 DEF SubmitTakeProfit, Goto, CoverPhase, Place
    <2>2. prot'[t].stop = prot[t].stop
      BY <1>0, <1>7 DEF SubmitTakeProfit, Placed, Protection
    <2>. QED  BY <1>2, <2>1, <2>2, CoverOwn DEF CoverPhase, OneSided, Covered
  <1>8. CASE TakeProfitsDone(t)
    <2>1. /\ pc'[t] = "judge"
          /\ OneSided(t)
          /\ prot[t].stop => Covered
          /\ UNCHANGED <<position, algo, prot>>
      BY <1>0, <1>1, <1>8 DEF TakeProfitsDone, Goto, CoverPhase, exchange, local
    <2>. QED  BY <1>2, <2>1, CoverOwn DEF CoverPhase, OneSided, Covered
  <1>9. CASE Judge(t)
    <2>1. /\ pc'[t] \in {"protected", "emergency_read"}
          /\ pc'[t] = "protected" => prot[t].stop
          /\ prot[t].stop => Covered
          /\ UNCHANGED <<position, algo>>
      BY <1>0, <1>1, <1>9 DEF Judge, Goto, CoverPhase, ProtectionIncomplete, exchange
    <2>. QED  BY <2>1, CoverOwn DEF CoverPhase, Covered
  <1>. QED  BY <1>3, <1>4, <1>5, <1>6, <1>7, <1>8, <1>9

LEMMA CoverMarket ==
    ASSUME SerialInv, CoverInv, InOrder, Market
    PROVE  CoverInv'
  <1>. USE DEF SerialInv
  <1>0. /\ position \in Int /\ position' \in Int
        /\ bought \in [Tasks -> Nat]
    BY NextType DEF TypeInv, TypeOK, Next
  <1>1. Strays = {} /\ \A t \in Tasks : CoverPhase(t)
    BY InOrderNoStrays DEF CoverInv
  <1>2. UNCHANGED <<pc, sig, prot>> /\ Busy' = Busy
    BY MarketFrame DEF local, Busy
  <1>3. ASSUME NEW t \in Tasks, FillLimit(t)
        PROVE  CoverInv'
    <2>0. bought'[t] = bought[t] + 1
      BY <1>0, <1>3 DEF FillLimit, Buy
    <2>1. pc[t] \in {"wait", "cancel_limit"} /\ bought'[t] # 0
      BY <1>0, <1>1, <1>3, <2>0, FillsWaiting
    <2>2. CoverPhase(t)'
      BY <1>1, <1>2, <2>1 DEF CoverPhase
    <2>3. ASSUME NEW u \in Tasks \ {t}
          PROVE  CoverPhase(u)'
      <3>1. u \notin Busy
        BY <2>1 DEF OneAtATime, Busy, Ended
      <3>2. pc[u] \in {"new"} \union Ended
        BY <3>1 DEF Busy
      <3>. QED  BY <1>1, <1>2, <3>2 DEF CoverPhase, AroundLimit, Ended, Protecting
    <2>4. Busy' # {}
      BY <1>2, <2>1 DEF Busy, Ended
    <2>. QED  BY <2>2, <2>3, <2>4 DEF CoverInv
  <1>4. ASSUME NEW order \in algo, Trigger(order)
        PROVE  CoverInv'
    <2>1. Covered => Covered'
      BY <1>4, TriggerCovers
    <2>2. UNCHANGED bought
      BY <1>4 DEF Trigger
    <2>3. Within(position', position)
      BY <1>4, TriggerShrinks
    <2>4. position' = 0 \/ (Sign(position') = Sign(position) /\ position # 0)
      BY <1>0, <2>3, WithinSide
    <2>5. ASSUME NEW u \in Tasks
          PROVE  CoverPhase(u)'
      <3>1. OneSided(u) => OneSided(u)'
        BY <1>2, <2>4 DEF OneSided
      <3>. QED  BY <1>1, <1>2, <2>1, <2>2, <3>1 DEF CoverPhase
    <2>6. Busy' = {} => Covered'
      BY <1>2, <2>1 DEF CoverInv
    <2>. QED  BY <2>5, <2>6 DEF CoverInv
  <1>. QED  BY <1>3, <1>4 DEF Market

LEMMA CoverStep ==
    ASSUME Workers = 1, SerialInv, SeenInv, CoverInv, [Next]_vars
    PROVE  CoverInv'
  <1>. SUFFICES ASSUME InOrder'
                PROVE  CoverInv'
    BY DEF CoverInv
  <1>1. InOrder
    BY InOrderBefore DEF SerialInv
  <1>2. ASSUME NEW t \in Tasks, TaskStep(t)
        PROVE  CoverInv'
    BY <1>1, <1>2, CoverFirst, CoverLimit, CoverSecond DEF TaskStep
  <1>3. CASE UNCHANGED vars
    BY <1>3 DEF CoverInv, CoverPhase, InOrder, OneSided, Covered, Busy, vars,
       exchange, local, bounds
  <1>. QED  BY <1>1, <1>2, <1>3, CoverMarket DEF Next

LEMMA CoverInit == Init => CoverInv
  BY DEF Init, InitWith, CoverInv, CoverPhase, Covered, AroundLimit, Protecting,
         Ended, NoProtection

\* With one worker, a position that is open while every execution has ended
\* in order has a stop on its side: an old stop stays until its position is
\* closed, a new one is there before the execution calls itself protected,
\* and none is lost on the way, for any signals, fills, triggers and failing
\* calls.
\* (trader.py, execute)
THEOREM OrderlyCovered ==
    ASSUME Workers = 1
    PROVE  Spec => []OrderlyEndsAreCovered
  <1>1. SerialInv /\ SeenInv /\ CoverInv /\ [Next]_vars
        => SerialInv' /\ SeenInv' /\ CoverInv'
    BY SerialStep, SeenStep, CoverStep
  <1>2. CoverInv => OrderlyEndsAreCovered
    <2>. SUFFICES ASSUME CoverInv, \A t \in Tasks : Orderly(t)
                  PROVE  Covered
      BY DEF OrderlyEndsAreCovered
    <2>1. InOrder
      BY DEF InOrder, Orderly
    <2>2. Busy = {}
      BY DEF Busy, Orderly, Ended
    <2>. QED  BY <2>1, <2>2 DEF CoverInv
  <1>. QED
    BY SerialInit, SeenInit, CoverInit, <1>1, <1>2, PTL DEF Spec

=============================================================================
