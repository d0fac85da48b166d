-------------------------- MODULE OperationsProofs --------------------------
(***************************************************************************)
(* Proofs about Operations, for any number of executions, requests and     *)
(* inspections: what holds of the executions alone still holds beside the  *)
(* operator's requests, a maintenance close only reduces, and an audit     *)
(* reports every position that has no stop for all of it.                  *)
(***************************************************************************)
EXTENDS Operations, TradeExecutionProofs

\* What the properties need of the types.
OperationsTypes ==
    /\ TypeInv
    /\ held \in Int
    /\ view.amount \in Int
    /\ view \in View
    /\ backdrop \in [by : Inspections, seen : Backdrop]
    /\ apc \in {"idle", "position", "regular", "algo", "judge"}

\* No stop on the side of the amount.
Bare(amount, orders) ==
    \A order \in orders : ~(order.kind = "stop" /\ order.guards = Sign(amount))

\* What an audit knows of a position that is exposed so far.
AuditInv ==
    exposed /\ apc # "idle" =>
       /\ position # 0
       /\ Bare(position, algo)
       /\ apc # "position" /\ "position" \notin view.unread
          => Sign(view.amount) = Sign(position) /\ view.amount # 0
       /\ apc = "judge" => Bare(position, view.algo)
       /\ apc # "judge" => view.algo = {}
       /\ backdrop.by = "audit" \/ apc # "regular"

-----------------------------------------------------------------------------
(* Types.                                                                  *)

LEMMA Reduced ==
    ASSUME NEW p \in Int, NEW h \in Int, NEW n \in 0..Least(Abs(h), Abs(p)),
           NEW q, q = p - Sign(p) * n
    PROVE  q \in Int /\ (q = p \/ q \in 0..p \/ q \in p..0)
  <1>1. CASE p > 0
    BY <1>1 DEF Least, Abs, Sign
  <1>2. CASE p < 0
    BY <1>2 DEF Least, Abs, Sign
  <1>3. CASE p = 0
    BY <1>3 DEF Least, Abs, Sign
  <1>. QED  BY <1>1, <1>2, <1>3

\* A request changes nothing of the executions but the orders and the
\* position they see, and counts its failing calls with theirs.
LEMMA MaintenanceKeeps ==
    ASSUME OperationsTypes, Maintenance
    PROVE  /\ UNCHANGED <<bought, pc, local, blind, thin, inspection>>
           /\ limit' \in {limit, [t \in Tasks |-> 0]}
           /\ algo' \subseteq algo
           /\ faults' \in 0..MaxFaults
           /\ position' \in Int
           /\ held' \in Int
  <1>. USE DEF OperationsTypes, TypeInv, TypeOK, vars, exchange, local, bounds,
               inspection
  <1>0. MaxFaults \in Nat /\ faults \in 0..MaxFaults
    BY BoundAssumption
  <1>1. ASSUME NEW request \in Requests, AskFor(request)
        PROVE  UNCHANGED <<vars, held, inspection>>
    BY <1>1 DEF AskFor
  <1>2. CASE ReadHeldPosition
    BY <1>0, <1>2 DEF ReadHeldPosition, Fails
  <1>3. CASE CancelRegularHalf
    BY <1>0, <1>3 DEF CancelRegularHalf, Fails
  <1>4. CASE CancelAlgoHalf
    BY <1>0, <1>4 DEF CancelAlgoHalf, Fails
  <1>5. CASE CloseHeld
    <2>1. faults' \in 0..MaxFaults
      BY <1>0, <1>5 DEF CloseHeld, Fails, FailsUnless
    <2>2. position' \in Int
      BY <1>5, Reduced DEF CloseHeld
    <2>. QED  BY <1>5, <2>1, <2>2 DEF CloseHeld
  <1>6. CASE SettleClose
    BY <1>0, <1>6 DEF SettleClose, Fails
  <1>7. CASE LastLook
    BY <1>0, <1>7 DEF LastLook, Fails
  <1>8. CASE \E request \in Requests : AskFor(request)
    BY <1>0, <1>1, <1>8
  <1>. QED  BY <1>2, <1>3, <1>4, <1>5, <1>6, <1>7, <1>8 DEF Maintenance

LEMMA MaintenanceTypes ==
    ASSUME OperationsTypes, Maintenance
    PROVE  OperationsTypes'
  <1>1. [t \in Tasks |-> 0] \in [Tasks -> 0..PlanQty]
    BY QtyAssumption
  <1>2. TypeInv'
    BY <1>1, MaintenanceKeeps DEF OperationsTypes, TypeInv, TypeOK, LevelsCounted, local
  <1>. QED  BY <1>2, MaintenanceKeeps DEF OperationsTypes, inspection

LEMMA ReadingKeeps ==
    ASSUME OperationsTypes, Reading
    PROVE  /\ UNCHANGED <<exchange, pc, local, blind, thin, maintenance>>
           /\ faults' \in 0..MaxFaults
           /\ view' \in View
           /\ view'.amount \in Int
           /\ backdrop' \in [by : Inspections, seen : Backdrop]
           /\ apc' \in {"idle", "position", "regular", "algo", "judge"}
  <1>. USE DEF OperationsTypes, TypeInv, TypeOK, vars, exchange, bounds
  <1>0. MaxFaults \in Nat /\ faults \in 0..MaxFaults
    BY BoundAssumption
  <1>1. CASE ReadPositionView
    BY <1>0, <1>1 DEF ReadPositionView, Unread, Fails, View
  <1>2. CASE ReadRegularView
    <2>1. OrdersOpen \in BOOLEAN
      BY DEF OrdersOpen
    <2>. QED  BY <1>0, <1>2, <2>1 DEF ReadRegularView, Unread, Fails, View
  <1>3. CASE ReadAlgoView
    BY <1>0, <1>3 DEF ReadAlgoView, Unread, Fails, View
  <1>4. CASE Judgement
    BY <1>0, <1>4 DEF Judgement, NothingRead, View, NoBackdrop, Inspections, Backdrop,
                      ReportLevels
  <1>. QED  BY <1>1, <1>2, <1>3, <1>4 DEF Reading

LEMMA ReadingTypes ==
    ASSUME OperationsTypes, Reading
    PROVE  OperationsTypes'
  <1>1. TypeInv'
    BY ReadingKeeps DEF OperationsTypes, TypeInv, TypeOK, LevelsCounted, exchange, local
  <1>. QED  BY <1>1, ReadingKeeps DEF OperationsTypes, maintenance

LEMMA OperationsTypesStep ==
    OperationsTypes /\ [OperationsNext]_operations => OperationsTypes'
  <1>. SUFFICES ASSUME OperationsTypes, [OperationsNext]_operations
                PROVE  OperationsTypes'
    OBVIOUS
  <1>1. ASSUME UNCHANGED <<maintenance, inspection>>, [Next]_vars
        PROVE  OperationsTypes'
    BY <1>1, NextType DEF OperationsTypes, maintenance, inspection
  <1>2. ASSUME NEW kind \in Inspections, NEW found \in Backdrops,
               StartInspection(kind, found)
        PROVE  OperationsTypes'
    <2>1. [by |-> kind, seen |-> found]
          \in [by : Inspections, seen : Backdrop]
      BY OperationsAssumption
    <2>2. TypeInv'
      BY <1>2, NextType DEF StartInspection, OperationsTypes
    <2>. QED  BY <1>2, <2>1, <2>2
              DEF StartInspection, OperationsTypes, NothingRead, View, maintenance
  <1>3. CASE UNCHANGED operations
    BY <1>1, <1>3 DEF operations
  <1>. QED
    BY <1>1, <1>2, <1>3, MaintenanceTypes, ReadingTypes DEF OperationsNext

LEMMA OperationsTypesInit == OperationsInit => OperationsTypes
  <1>. SUFFICES ASSUME OperationsInit
                PROVE  OperationsTypes
    OBVIOUS
  <1>1. PICK orders \in Leftovers : InitWith(orders)
    BY DEF OperationsInit
  <1>2. TypeInv
    BY <1>1, QtyAssumption, BoundAssumption, OperationsAssumption
    DEF InitWith, TypeInv, TypeOK, LevelsCounted, Labels, Ended, NoProtection, Protection
  <1>. QED
    BY <1>2 DEF OperationsInit, OperationsTypes, NothingRead, View, NoBackdrop,
                Inspections, Backdrop, ReportLevels

\* The rest of the types: the statuses of a request, its counts and the
\* reports.
RestTypes ==
    /\ mpc \in {"idle"} \union Serving \union Answered
    /\ job \in Request
    /\ failed \subseteq {"regular", "algo"}
    /\ advised \in BOOLEAN
    /\ requests \in 0..MaxRequests
    /\ report \in Report
    /\ alone \in BOOLEAN
    /\ exposed \in BOOLEAN
    /\ undisturbed \in BOOLEAN
    /\ inspections \in 0..MaxInspections

LEMMA RestTypesStep ==
    ASSUME OperationsTypes, RestTypes, [OperationsNext]_operations
    PROVE  RestTypes'
  <1>. USE DEF RestTypes, Serving, Answered
  <1>2. CASE UNCHANGED operations
    BY <1>2 DEF operations, maintenance, inspection, history
  <1>. SUFFICES ASSUME OperationsNext
                PROVE  RestTypes'
    BY <1>2
  <1>0. alone' \in BOOLEAN /\ exposed' \in BOOLEAN /\ undisturbed' \in BOOLEAN
    BY DEF OperationsNext, History
  <1>1. ASSUME UNCHANGED <<maintenance, report, inspections>>
        PROVE  RestTypes'
    BY <1>0, <1>1 DEF maintenance
  <1>3. ASSUME NEW request \in Requests, AskFor(request)
        PROVE  RestTypes'
    <2>1. report.residual \in BOOLEAN
      BY DEF Report
    <2>2. requests' \in 0..MaxRequests /\ request \in Request
      BY <1>3, OperationsAssumption DEF AskFor
    <2>. QED  BY <1>0, <1>3, <2>1, <2>2 DEF AskFor, inspection
  <1>4. ASSUME Maintenance, ~\E request \in Requests : AskFor(request)
        PROVE  RestTypes'
    <2>1. UNCHANGED <<job, advised, requests, report, inspections>>
      BY <1>4, MaintenanceKeeps DEF inspection, Maintenance, ReadHeldPosition,
         CancelRegularHalf, CancelAlgoHalf, CloseHeld, SettleClose, LastLook
    <2>2. failed' \subseteq {"regular", "algo"}
      BY <1>4 DEF Maintenance, ReadHeldPosition, CancelRegularHalf, CancelAlgoHalf,
         CloseHeld, SettleClose, LastLook, NoteError
    <2>3. mpc' \in {"idle"} \union Serving \union Answered
      BY <1>4 DEF Maintenance, ReadHeldPosition, CancelRegularHalf, CancelAlgoHalf,
         CloseHeld, SettleClose, LastLook, AfterCancelling
    <2>. QED  BY <1>0, <2>1, <2>2, <2>3
  <1>5. ASSUME NEW kind \in Inspections, NEW found \in Backdrops,
               StartInspection(kind, found)
        PROVE  RestTypes'
    BY <1>0, <1>5, OperationsAssumption DEF StartInspection, maintenance
  <1>6. ASSUME Reading
        PROVE  RestTypes'
    <2>1. CASE Judgement
      <3>1. /\ backdrop.by \in Inspections
            /\ view.unread \in SUBSET {"position", "regular", "algo"}
            /\ view.regular \in BOOLEAN
        BY DEF OperationsTypes, View
      <3>2. Unprotected(view) \in BOOLEAN /\ Residual(view) \in BOOLEAN
        BY <3>1 DEF Unprotected, Residual
      <3>3. /\ AuditLevel(backdrop.seen, view) \in ReportLevels
            /\ ObservationLevel(backdrop.seen, view) \in ReportLevels
        BY DEF AuditLevel, ObservationLevel, Level, ReportLevels
      <3>4. report' \in Report
        BY <2>1, <3>1, <3>2, <3>3 DEF Judgement, Report
      <3>. QED  BY <1>0, <2>1, <3>4 DEF Judgement, maintenance
    <2>2. UNCHANGED <<maintenance, report, inspections>> \/ Judgement
      BY <1>6 DEF Reading, ReadPositionView, ReadRegularView, ReadAlgoView
    <2>. QED  BY <1>1, <1>6, <2>1, <2>2
  <1>. QED
    BY <1>1, <1>3, <1>4, <1>5, <1>6 DEF OperationsNext, inspection

\* Every reachable state of the executions, requests and inspections
\* together has the types: a request is always at one of its calls or has
\* one of the documented statuses, and what a report says is complete.
\* (trader.py, close_position_maintenance; reconcile.py, _build_report)
THEOREM OperationsTypeCorrect == OperationsSpec => []OperationsTypeOK
  <1>1. OperationsInit => RestTypes
    <2>. SUFFICES ASSUME OperationsInit
                  PROVE  RestTypes
      OBVIOUS
    <2>1. job \in Request
      BY DEF OperationsInit, Request
    <2>2. report \in Report
      BY DEF OperationsInit, Report, NoReport, ReportLevels
    <2>3. 0 \in 0..MaxRequests /\ 0 \in 0..MaxInspections
      BY OperationsAssumption
    <2>. QED  BY <2>1, <2>2, <2>3 DEF OperationsInit, RestTypes
  <1>2. OperationsTypes /\ RestTypes /\ [OperationsNext]_operations => RestTypes'
    BY RestTypesStep
  <1>3. OperationsTypes /\ RestTypes => OperationsTypeOK
    BY DEF OperationsTypes, RestTypes, OperationsTypeOK, TypeInv
  <1>. QED
    BY OperationsTypesInit, OperationsTypesStep, <1>1, <1>2, <1>3, PTL
    DEF OperationsSpec

-----------------------------------------------------------------------------
(* The executions beside the operator.                                     *)

LEMMA EntryBeside ==
    ASSUME OperationsTypes, EntryInv, [OperationsNext]_operations
    PROVE  EntryInv'
  <1>. USE DEF OperationsTypes
  <1>1. ASSUME [Next]_vars
        PROVE  EntryInv'
    BY <1>1, NextEntry
  <1>2. CASE Maintenance
    <2>1. PlanQty \in Nat
      BY QtyAssumption
    <2>2. limit' = limit \/ limit' = [t \in Tasks |-> 0]
      BY <1>2, MaintenanceKeeps
    <2>3. UNCHANGED <<bought, pc, filled, blind, sig>>
      BY <1>2, MaintenanceKeeps DEF local
    <2>4. CASE limit' = limit
      BY <2>3, <2>4 DEF EntryInv, EntryPhase, PlanAllows
    <2>5. CASE limit' = [t \in Tasks |-> 0]
      <3>1. \A t \in Tasks : PlanAllows(t) \in Nat /\ PlanAllows(t)' = PlanAllows(t)
        BY <2>3, Allowance DEF TypeInv
      <3>. QED  BY <2>1, <2>3, <2>5, <3>1 DEF EntryInv, EntryPhase, TypeInv, TypeOK
    <2>. QED  BY <2>2, <2>4, <2>5
  <1>3. CASE Reading
    BY <1>3, ReadingKeeps DEF EntryInv, EntryPhase, PlanAllows, exchange, local
  <1>4. ASSUME NEW kind \in Inspections, NEW found \in Backdrops,
               StartInspection(kind, found)
        PROVE  EntryInv'
    BY <1>1, <1>4 DEF StartInspection
  <1>5. CASE UNCHANGED operations
    BY <1>1, <1>5 DEF operations
  <1>. QED  BY <1>1, <1>2, <1>3, <1>4, <1>5 DEF OperationsNext

\* With requests that cancel its orders and close its position at any
\* moment, no execution buys more than its plan either.
THEOREM EntryBoundedBeside == OperationsSpec => []EntryWithinPlan
  <1>1. OperationsInit => EntryInv
    BY QtyAssumption
    DEF OperationsInit, InitWith, EntryInv, EntryPhase, BeforeEntry, AroundLimit,
        PlanAllows, Most
  <1>2. OperationsTypes /\ EntryInv /\ [OperationsNext]_operations => EntryInv'
    BY EntryBeside
  <1>. QED
    BY OperationsTypesInit, OperationsTypesStep, <1>1, <1>2, EntryInvBounds, PTL
    DEF OperationsSpec

\* The market order of a maintenance close leaves the position between zero
\* and what it was, for any amount read before and any fill.
THEOREM CloseOnlyReduces == OperationsSpec => MaintenanceOnlyReduces
  <1>1. OperationsTypes /\ [OperationsNext]_operations
        => [mpc = "close" /\ mpc' # "close"
            => \/ position' = position
               \/ position' \in 0..position
               \/ position' \in position..0]_operations
    <2>. SUFFICES ASSUME OperationsTypes, OperationsNext,
                         mpc = "close", mpc' # "close"
                  PROVE  \/ position' = position
                         \/ position' \in 0..position
                         \/ position' \in position..0
      OBVIOUS
    <2>1. CloseHeld
      BY DEF OperationsNext, Maintenance, AskFor, ReadHeldPosition,
             CancelRegularHalf, CancelAlgoHalf, SettleClose, LastLook, Reading,
             ReadPositionView, ReadRegularView, ReadAlgoView, Judgement,
             StartInspection, Free, maintenance, Answered
    <2>2. position \in Int /\ held \in Int
      BY DEF OperationsTypes, TypeInv, TypeOK
    <2>. QED  BY <2>1, <2>2, Reduced DEF CloseHeld
  <1>. QED
    BY OperationsTypesInit, OperationsTypesStep, <1>1, PTL
    DEF OperationsSpec, MaintenanceOnlyReduces

-----------------------------------------------------------------------------
(* The audit.                                                              *)

\* Every step but the beginning of an inspection keeps track of the stops.
LEMMA ExposedStays ==
    ASSUME History, ~InspectedNow, exposed'
    PROVE  /\ exposed
           /\ position' # 0
           /\ Bare(position', algo')
           /\ Sign(position') = Sign(position)
  BY DEF History, Covered, Bare

LEMMA AuditStep ==
    ASSUME OperationsTypes, AuditInv, [OperationsNext]_operations
    PROVE  AuditInv'
  <1>1. CASE UNCHANGED operations
    BY <1>1 DEF AuditInv, Bare, operations, vars, exchange, inspection, history
  <1>2. ASSUME NEW kind \in Inspections, NEW found \in Backdrops,
               StartInspection(kind, found), History
        PROVE  AuditInv'
    <2>1. exposed' => position' # 0 /\ Bare(position', algo')
      BY <1>2 DEF History, Covered, Bare
    <2>. QED  BY <1>2, <2>1 DEF StartInspection, AuditInv, NothingRead
  <1>3. ASSUME History, UNCHANGED inspection
        PROVE  AuditInv'
    BY <1>3, ExposedStays DEF AuditInv, inspection, InspectedNow, Bare
  <1>4. CASE History /\ Reading
    <2>. SUFFICES ASSUME exposed', apc' # "idle"
                  PROVE  AuditInv'
      BY DEF AuditInv
    <2>0. UNCHANGED <<position, algo>>
      BY <1>4, ReadingKeeps DEF exchange
    <2>1. /\ exposed
          /\ position' # 0
          /\ Bare(position', algo')
          /\ Sign(position') = Sign(position)
      <3>1. UNCHANGED inspections
        BY <1>4 DEF Reading, ReadPositionView, ReadRegularView, ReadAlgoView, Judgement
      <3>. QED  BY <1>4, <3>1, ExposedStays DEF InspectedNow
    <2>2. CASE ReadPositionView
      BY <2>0, <2>1, <2>2 DEF ReadPositionView, AuditInv, Unread, View,
         OperationsTypes, Bare, Inspections
    <2>3. CASE ReadRegularView
      BY <2>0, <2>1, <2>3 DEF ReadRegularView, AuditInv, Unread, View,
         OperationsTypes, Bare
    <2>4. CASE ReadAlgoView
      BY <2>0, <2>1, <2>4 DEF ReadAlgoView, AuditInv, Unread, View,
         OperationsTypes, Bare
    <2>5. CASE Judgement
      BY <2>5 DEF Judgement
    <2>. QED  BY <1>4, <2>2, <2>3, <2>4, <2>5 DEF Reading
  <1>5. Maintenance => UNCHANGED inspection
    BY MaintenanceKeeps
  <1>. QED  BY <1>1, <1>2, <1>3, <1>4, <1>5 DEF OperationsNext

\* A position without a stop on its side from the first read of an audit to
\* its report is reported as an ERROR, whichever reads fail and whatever
\* executions, fills, triggers and requests happen between the reads.
THEOREM ExposureReported == OperationsSpec => AuditReportsExposure
  <1>1. OperationsInit => AuditInv
    BY DEF OperationsInit, AuditInv
  <1>2. OperationsTypes /\ AuditInv /\ [OperationsNext]_operations => AuditInv'
    BY AuditStep
  <1>3. OperationsTypes /\ AuditInv /\ [OperationsNext]_operations
        => [apc = "judge" /\ apc' # "judge" /\ backdrop.by = "audit" /\ exposed
            => report'.level = "ERROR"]_operations
    <2>. SUFFICES ASSUME OperationsTypes, AuditInv, OperationsNext,
                         apc = "judge", apc' # "judge",
                         backdrop.by = "audit", exposed
                  PROVE  report'.level = "ERROR"
      OBVIOUS
    <2>1. Judgement
      BY MaintenanceKeeps
      DEF OperationsNext, Reading, ReadPositionView, ReadRegularView,
          ReadAlgoView, StartInspection, Free, inspection
    <2>2. /\ Bare(position, view.algo)
          /\ \/ "position" \in view.unread
             \/ Sign(view.amount) = Sign(position) /\ view.amount # 0
      BY DEF AuditInv
    <2>3. SymbolError(view)
      BY <2>2 DEF SymbolError, Unprotected, Stops, WrongSideOrder, Bare
    <2>4. AuditLevel(backdrop.seen, view) = "ERROR"
      BY <2>3 DEF AuditLevel, Level
    <2>. QED  BY <2>1, <2>4 DEF Judgement
  <1>. QED
    BY OperationsTypesInit, OperationsTypesStep, <1>1, <1>2, <1>3, PTL
    DEF OperationsSpec, AuditReportsExposure

\* The observation reads less, and looks for stops on any side: without an
\* order of the other side it reports such a position as well.
THEOREM ExposureObserved == OperationsSpec => ObservationReportsExposure
  <1>1. OperationsInit => AuditInv
    BY DEF OperationsInit, AuditInv
  <1>2. OperationsTypes /\ AuditInv /\ [OperationsNext]_operations => AuditInv'
    BY AuditStep
  <1>3. OperationsTypes /\ AuditInv /\ [OperationsNext]_operations
        => [/\ apc = "judge" /\ apc' # "judge" /\ backdrop.by = "observation" /\ exposed
            /\ backdrop.seen.observing
            /\ view.unread = {}
            /\ ~WrongSideOrder(view)
            => report'.level = "ERROR"]_operations
    <2>. SUFFICES ASSUME OperationsTypes, AuditInv, OperationsNext,
                         apc = "judge", apc' # "judge",
                         backdrop.by = "observation", exposed,
                         backdrop.seen.observing,
                         view.unread = {},
                         ~WrongSideOrder(view)
                  PROVE  report'.level = "ERROR"
      OBVIOUS
    <2>1. Judgement
      BY MaintenanceKeeps
      DEF OperationsNext, Reading, ReadPositionView, ReadRegularView,
          ReadAlgoView, StartInspection, Free, inspection
    <2>2. /\ Bare(position, view.algo)
          /\ Sign(view.amount) = Sign(position)
          /\ view.amount # 0
      BY DEF AuditInv
    <2>3. Unprotected(view)
      BY <2>2 DEF Unprotected, Stops, WrongSideOrder, Bare
    <2>4. ObservationLevel(backdrop.seen, view) = "ERROR"
      BY <2>3 DEF ObservationLevel, Level
    <2>. QED  BY <2>1, <2>4 DEF Judgement
  <1>. QED
    BY OperationsTypesInit, OperationsTypesStep, <1>1, <1>2, <1>3, PTL
    DEF OperationsSpec, ObservationReportsExposure

-----------------------------------------------------------------------------
(* While no execution is under way.                                        *)

\* Nothing runs and nothing is left that could open a position.
Quiet == Busy = {} /\ \A t \in Tasks : limit[t] = 0

\* While no execution is under way, orders go, by a trigger, a fill or a
\* request, and nothing places one.
LEMMA IdleStep ==
    ASSUME OperationsTypes, Busy = {}, Busy' = {}, [OperationsNext]_operations
    PROVE  /\ algo' \subseteq algo
           /\ \A t \in Tasks : limit[t] = 0 => limit'[t] = 0
           /\ Quiet => Quiet' /\ (position = 0 => position' = 0)
  <1>. USE DEF OperationsTypes, TypeInv, TypeOK, Quiet
  <1>1. CASE UNCHANGED vars
    BY <1>1 DEF vars, exchange
  <1>2. ASSUME NEW t \in Tasks, TaskStep(t)
        PROVE  FALSE
    <2>1. Begin(t)
      BY <1>2, TaskFrame DEF Busy
    <2>2. t \in Busy'
      BY <2>1 DEF Begin, Goto, Busy, Ended
    <2>. QED  BY <2>2
  <1>3. ASSUME NEW t \in Tasks, FillLimit(t)
        PROVE  /\ UNCHANGED algo
               /\ limit[t] # 0
               /\ \A u \in Tasks : limit[u] = 0 => limit'[u] = 0
    BY <1>3 DEF FillLimit
  <1>4. ASSUME NEW order \in algo, Trigger(order)
        PROVE  /\ UNCHANGED limit
               /\ algo' \subseteq algo
               /\ position # 0
    <2>1. order.guards \in Sides
      BY DEF Algo
    <2>. QED  BY <1>4, <2>1 DEF Trigger, Sides, Sign
  <1>5. CASE Maintenance
    <2>1. /\ algo' \subseteq algo
          /\ \A t \in Tasks : limit[t] = 0 => limit'[t] = 0
      BY <1>5, MaintenanceKeeps
    <2>2. position = 0 => position' = 0
      <3>1. CASE CloseHeld
        BY <3>1, Reduced DEF CloseHeld
      <3>2. UNCHANGED position \/ CloseHeld
        BY <1>5 DEF Maintenance, AskFor, ReadHeldPosition, CancelRegularHalf,
           CancelAlgoHalf, SettleClose, LastLook, vars, exchange
      <3>. QED  BY <3>1, <3>2
    <2>. QED  BY <2>1, <2>2
  <1>6. CASE Reading
    BY <1>6, ReadingKeeps DEF exchange
  <1>7. ASSUME NEW kind \in Inspections, NEW found \in Backdrops,
               StartInspection(kind, found)
        PROVE  UNCHANGED vars
    BY <1>7 DEF StartInspection
  <1>8. CASE UNCHANGED operations
    BY <1>1, <1>8 DEF operations
  <1>9. CASE Next
    BY <1>2, <1>3, <1>4, <1>9 DEF Next, Market
  <1>. QED  BY <1>1, <1>5, <1>6, <1>7, <1>8, <1>9 DEF OperationsNext

-----------------------------------------------------------------------------
(* A close that was answered with position_closed.                         *)

\* From its close on, a request has cancelled what there was.
Closing == {"close", "settle", "regular_after", "algo_after", "position_closed"}

\* What a request beside which nothing runs has got done: as long as no
\* cancel has failed, the orders it has cancelled stay away, and with them
\* whatever could open a position again.
ClosedInv ==
    /\ alone => Busy = {}
    /\ alone /\ job.before /\ failed = {} =>
          /\ mpc \in {"algo_before"} \union Closing => Quiet
          /\ mpc \in Closing => algo = {}
          /\ mpc \in {"regular_after", "algo_after"} /\ held = 0 => position = 0
          /\ mpc = "position_closed" => position = 0

LEMMA ClosedBeside ==
    ASSUME OperationsTypes, ClosedInv, [OperationsNext]_operations,
           UNCHANGED maintenance
    PROVE  ClosedInv'
  <1>1. UNCHANGED <<mpc, job, held, failed>>
    BY DEF maintenance
  <1>2. alone' => alone /\ Busy' = {}
    <2>1. CASE History
      BY <2>1 DEF History, AskedNow, maintenance
    <2>2. CASE UNCHANGED operations
      BY <2>2 DEF operations, history, vars, Busy, ClosedInv
    <2>. QED  BY <2>1, <2>2 DEF OperationsNext
  <1>3. CASE alone'
    <2>1. /\ algo = {} => algo' = {}
          /\ Quiet => Quiet'
          /\ Quiet /\ position = 0 => position' = 0
      BY <1>2, <1>3, IdleStep DEF ClosedInv
    <2>2. mpc \in {"regular_after", "algo_after", "position_closed"} => mpc \in Closing
      BY DEF Closing
    <2>. QED  BY <1>1, <1>2, <1>3, <2>1, <2>2 DEF ClosedInv
  <1>. QED  BY <1>3 DEF ClosedInv

LEMMA ClosedMaintenance ==
    ASSUME OperationsTypes, ClosedInv, OperationsNext, Maintenance
    PROVE  ClosedInv'
  <1>. USE DEF Closing
  <1>1. alone' => Busy' = {} /\ (alone \/ AskedNow)
    BY DEF OperationsNext, History
  <1>2. ASSUME NEW request \in Requests, AskFor(request)
        PROVE  ClosedInv'
    BY <1>1, <1>2 DEF AskFor, ClosedInv
  <1>. SUFFICES ASSUME ~\E request \in Requests : AskFor(request)
                PROVE  ClosedInv'
    BY <1>2
  <1>3. UNCHANGED <<job, requests>> /\ failed \subseteq failed'
    BY DEF Maintenance, ReadHeldPosition, CancelRegularHalf, CancelAlgoHalf, CloseHeld,
           SettleClose, LastLook, NoteError
  <1>. SUFFICES ASSUME alone', job.before, failed' = {}
                PROVE  /\ mpc' \in {"algo_before"} \union Closing => Quiet'
                       /\ mpc' \in Closing => algo' = {}
                       /\ mpc' \in {"regular_after", "algo_after"} /\ held' = 0
                          => position' = 0
                       /\ mpc' = "position_closed" => position' = 0
    BY <1>1, <1>3 DEF ClosedInv
  <1>4. failed = {} /\ alone /\ Busy = {} /\ Busy' = {}
    BY <1>1, <1>3 DEF ClosedInv, AskedNow
  <1>5. /\ algo' \subseteq algo
        /\ Quiet => Quiet' /\ (position = 0 => position' = 0)
    BY <1>4, IdleStep
  <1>6. CASE ReadHeldPosition
    BY <1>6 DEF ReadHeldPosition
  <1>7. CASE CancelRegularHalf
    <2>1. faults \in Int
      BY BoundAssumption DEF OperationsTypes, TypeInv, TypeOK
    <2>2. limit' = [t \in Tasks |-> 0]
      BY <1>7, <2>1 DEF CancelRegularHalf, NoteError, Fails
    <2>3. Quiet'
      BY <1>4, <2>2 DEF Quiet
    <2>. QED  BY <1>4, <1>5, <1>7, <2>3 DEF CancelRegularHalf, ClosedInv
  <1>8. CASE CancelAlgoHalf
    <2>1. faults \in Int
      BY BoundAssumption DEF OperationsTypes, TypeInv, TypeOK
    <2>2. algo' = {}
      BY <1>8, <2>1 DEF CancelAlgoHalf, NoteError, Fails
    <2>. QED  BY <1>4, <1>5, <1>8, <2>2 DEF CancelAlgoHalf, AfterCancelling, ClosedInv
  <1>9. CASE CloseHeld
    BY <1>4, <1>5, <1>9 DEF CloseHeld, ClosedInv
  <1>10. CASE SettleClose
    BY <1>4, <1>5, <1>10 DEF SettleClose, ClosedInv, exchange
  <1>11. CASE LastLook
    BY <1>11 DEF LastLook
  <1>. QED  BY <1>6, <1>7, <1>8, <1>9, <1>10, <1>11 DEF Maintenance

\* When the answer is position_closed, no cancel before it has failed and no
\* execution ran beside it, then neither a position nor an order is left, for
\* any partial fill of the close and any trigger or fill on the way.
\* (trader.py, close_position_maintenance)
THEOREM CloseComplete == OperationsSpec => []ClosedLeavesNothing
  <1>1. OperationsInit => ClosedInv
    BY DEF OperationsInit, ClosedInv, Closing
  <1>2. OperationsTypes /\ ClosedInv /\ [OperationsNext]_operations => ClosedInv'
    <2>. SUFFICES ASSUME OperationsTypes, ClosedInv, [OperationsNext]_operations
                  PROVE  ClosedInv'
      OBVIOUS
    <2>1. CASE OperationsNext /\ Maintenance
      BY <2>1, ClosedMaintenance
    <2>2. CASE UNCHANGED maintenance
      BY <2>2, ClosedBeside
    <2>. QED  BY <2>1, <2>2, ReadingKeeps DEF OperationsNext, StartInspection, operations
  <1>3. ClosedInv => ClosedLeavesNothing
    BY DEF ClosedInv, ClosedLeavesNothing, Closing, Quiet
  <1>. QED
    BY OperationsTypesInit, OperationsTypesStep, <1>1, <1>2, <1>3, PTL
    DEF OperationsSpec

-----------------------------------------------------------------------------
(* The advice of an audit.                                                 *)

\* As long as nothing has disturbed it: what the latest inspection has read
\* of a position that is gone, its report, and the request that follows the
\* report are right to say so.
AdviceInv ==
    undisturbed =>
       /\ Quiet
       /\ /\ apc \notin {"idle", "position"}
          /\ "position" \notin view.unread
          /\ view.amount = 0
          => position = 0
       /\ apc = "idle" /\ report.residual /\ "position" \notin report.unread
          => position = 0
       /\ advised /\ mpc \in Serving => position = 0

LEMMA AdviceStep ==
    ASSUME OperationsTypes, AdviceInv, [OperationsNext]_operations
    PROVE  AdviceInv'
  <1>1. CASE UNCHANGED operations
    BY <1>1 DEF AdviceInv, Quiet, Busy, operations, vars, exchange, maintenance,
       inspection, history
  <1>. SUFFICES ASSUME OperationsNext, undisturbed'
                PROVE  AdviceInv'
    BY <1>1 DEF AdviceInv
  <1>2. Busy' = {} /\ (undisturbed \/ (InspectedNow /\ ~OrdersOpen))
    BY DEF OperationsNext, History
  <1>3. ASSUME NEW kind \in Inspections, NEW found \in Backdrops,
               StartInspection(kind, found)
        PROVE  AdviceInv'
    <2>1. \A t \in Tasks : limit[t] = 0
      <3>1. limit \in [Tasks -> 0..PlanQty] /\ PlanQty \in Nat
        BY QtyAssumption DEF OperationsTypes, TypeInv, TypeOK
      <3>. QED  BY <1>2, <3>1 DEF AdviceInv, Quiet, OrdersOpen
    <2>2. Quiet'
      BY <1>2, <1>3, <2>1 DEF StartInspection, Quiet, vars, exchange
    <2>. QED
      BY <1>3, <2>2 DEF StartInspection, AdviceInv, Free, Answered, Serving, maintenance
  <1>. SUFFICES ASSUME ~\E kind \in Inspections, found \in Backdrops :
                          StartInspection(kind, found)
                PROVE  AdviceInv'
    BY <1>3
  <1>4. undisturbed
    <2>1. UNCHANGED inspections
      BY MaintenanceKeeps DEF OperationsNext, Reading, ReadPositionView,
         ReadRegularView, ReadAlgoView, Judgement, inspection
    <2>. QED  BY <1>2, <2>1 DEF InspectedNow
  <1>5. Quiet' /\ (position = 0 => position' = 0)
    BY <1>2, <1>4, IdleStep DEF AdviceInv, Quiet
  <1>6. ASSUME UNCHANGED inspection, UNCHANGED advised, mpc' \in Serving => mpc \in Serving
        PROVE  AdviceInv'
    BY <1>4, <1>5, <1>6 DEF AdviceInv, inspection
  <1>7. ASSUME NEW request \in Requests, AskFor(request)
        PROVE  AdviceInv'
    BY <1>4, <1>5, <1>7 DEF AskFor, Free, AdviceInv, inspection
  <1>8. CASE Reading
    <2>1. UNCHANGED <<position, advised, mpc>>
      BY <1>8, ReadingKeeps DEF exchange, maintenance
    <2>2. view \in View
      BY DEF OperationsTypes
    <2>3. CASE ReadPositionView
      BY <1>4, <1>5, <2>1, <2>2, <2>3 DEF ReadPositionView, Unread, AdviceInv, View
    <2>4. CASE ReadRegularView
      BY <1>4, <1>5, <2>1, <2>2, <2>4 DEF ReadRegularView, Unread, AdviceInv, View
    <2>5. CASE ReadAlgoView
      BY <1>4, <1>5, <2>1, <2>2, <2>5 DEF ReadAlgoView, Unread, AdviceInv, View
    <2>6. CASE Judgement
      <3>1. report'.residual /\ "position" \notin report'.unread => position = 0
        BY <1>4, <2>6 DEF Judgement, AdviceInv, Residual
      <3>. QED  BY <1>4, <1>5, <2>1, <2>6, <3>1 DEF Judgement, AdviceInv
    <2>. QED  BY <1>8, <2>3, <2>4, <2>5, <2>6 DEF Reading
  <1>9. CASE Maintenance
    BY <1>6, <1>7, <1>9 DEF Maintenance, ReadHeldPosition, CancelRegularHalf,
       CancelAlgoHalf, CloseHeld, SettleClose, LastLook, Serving, inspection
  <1>. QED
    BY <1>6, <1>8, <1>9 DEF OperationsNext, maintenance, inspection

\* Whoever cleans up because an audit has said so takes the stop of no
\* position away, if the audit could read the position, began with no limit
\* order open, and no execution has been under way since: there was no
\* position and nothing has opened one.  Signals may have come before and may
\* come after; for one that came in between nothing is promised.
\* (reconcile.py, the advice of residual_algo_orders)
THEOREM AdviceIsSafe == OperationsSpec => AdvisedCleanupStripsNothing
  <1>1. OperationsInit => AdviceInv
    BY DEF OperationsInit, AdviceInv
  <1>2. OperationsTypes /\ AdviceInv /\ [OperationsNext]_operations => AdviceInv'
    BY AdviceStep
  <1>3. OperationsTypes /\ AdviceInv /\ [OperationsNext]_operations
        => [mpc = "algo_before" /\ mpc' # mpc /\ advised /\ undisturbed /\ Covered
            => Covered']_operations
    <2>. SUFFICES ASSUME OperationsTypes, AdviceInv, OperationsNext,
                         mpc = "algo_before", mpc' # mpc, advised, undisturbed
                  PROVE  Covered'
      OBVIOUS
    <2>1. position = 0
      BY DEF AdviceInv, Serving
    <2>2. CancelAlgoHalf
      BY ReadingKeeps
      DEF OperationsNext, Maintenance, AskFor, ReadHeldPosition, CancelRegularHalf,
          CloseHeld, SettleClose, LastLook, StartInspection, Free, Answered, maintenance
    <2>. QED  BY <2>1, <2>2 DEF CancelAlgoHalf, Covered
  <1>. QED
    BY OperationsTypesInit, OperationsTypesStep, <1>1, <1>2, <1>3, PTL
    DEF OperationsSpec, AdvisedCleanupStripsNothing

=============================================================================
