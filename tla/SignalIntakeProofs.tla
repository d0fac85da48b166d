------------------------- MODULE SignalIntakeProofs -------------------------
(***************************************************************************)
(* Proofs about SignalIntake, for any set of keys, any number of           *)
(* deliveries, of failing store calls and of crashes: its types, that it   *)
(* implements SignalLedger, that the journal keeps its rows, and that      *)
(* status and journal agree.                                               *)
(***************************************************************************)
EXTENDS SignalIntake, TLAPS

-----------------------------------------------------------------------------
(* Types.                                                                  *)

LEMMA InitType == Init => TypeOK
  BY DEF Init, TypeOK, Statuses, RowKinds, HandlerAt, TaskPC, Idle

\* What an update of the journal or of the handler makes of it.
LEMMA JournalWrites ==
    ASSUME TypeOK, NEW k \in Keys
    PROVE  /\ \A kind \in RowKinds :
                 InsertRow(k, kind) =>
                    journal' \in [Keys -> [kind : RowKinds, orders : BOOLEAN]]
           /\ InsertOrders(k) =>
                 journal' \in [Keys -> [kind : RowKinds, orders : BOOLEAN]]
  <1>1. journal \in [Keys -> [kind : RowKinds, orders : BOOLEAN]] /\ traded[k] \in BOOLEAN
    BY DEF TypeOK
  <1>2. \A kind \in RowKinds : [kind |-> kind, orders |-> FALSE]
                                   \in [kind : RowKinds, orders : BOOLEAN]
    OBVIOUS
  <1>3. [journal[k] EXCEPT !.orders = traded[k]] \in [kind : RowKinds, orders : BOOLEAN]
    BY <1>1
  <1>4. InsertOrders(k) =>
           journal' = [journal EXCEPT ![k] = [journal[k] EXCEPT !.orders = traded[k]]]
    BY DEF InsertOrders
  <1>5. \A kind \in RowKinds :
           InsertRow(k, kind) =>
              journal' = [journal EXCEPT ![k] = [kind |-> kind, orders |-> FALSE]]
                 \/ journal' = journal
    BY DEF InsertRow
  <1>6. \A r \in [kind : RowKinds, orders : BOOLEAN] :
           [journal EXCEPT ![k] = r] \in [Keys -> [kind : RowKinds, orders : BOOLEAN]]
    BY <1>1
  <1>. QED  BY <1>1, <1>2, <1>3, <1>4, <1>5, <1>6

LEMMA HandlerWrites ==
    ASSUME TypeOK
    PROVE  /\ Idle \in [at : HandlerAt, key : Keys \union {NoKey}]
           /\ \A label \in HandlerAt :
                 HandlerGoto(label) =>
                    /\ handler' \in [at : HandlerAt, key : Keys \union {NoKey}]
                    /\ handler'.at = label
                    /\ handler'.key = handler.key
  BY DEF TypeOK, Idle, HandlerAt, HandlerGoto

LEMMA HandlerType ==
    ASSUME TypeOK,
           HandlerStep \/ \E k \in Keys : DeliverValid(k) \/ DeliverRejected(k)
    PROVE  TypeOK'
  <1>. USE DEF TypeOK, At, HandlerAt
  <1>0. Idle.at = "idle"
    BY DEF Idle
  <1>1. ASSUME NEW k \in Keys, DeliverValid(k) \/ DeliverRejected(k)
        PROVE  TypeOK'
    BY <1>1 DEF DeliverValid, DeliverRejected
  <1>2. CASE CheckExists
    BY <1>0, <1>2, HandlerWrites DEF CheckExists
  <1>3. CASE PersistDuplicate
    BY <1>0, <1>3, HandlerWrites, JournalWrites DEF PersistDuplicate, RowKinds
  <1>4. CASE MarkReceived
    BY <1>0, <1>4, HandlerWrites DEF MarkReceived, SetStatus, Statuses
  <1>5. CASE Respond
    BY <1>0, <1>5, HandlerWrites DEF Respond, Goto, TaskPC
  <1>6. CASE RejectExists
    BY <1>0, <1>6, HandlerWrites DEF RejectExists
  <1>7. CASE RejectMark
    BY <1>0, <1>7, HandlerWrites DEF RejectMark, SetStatus, Statuses
  <1>8. CASE RejectJournal
    BY <1>0, <1>8, HandlerWrites, JournalWrites DEF RejectJournal, RowKinds
  <1>9. CASE RejectFailed
    BY <1>0, <1>9, HandlerWrites DEF RejectFailed, SetStatus, Statuses
  <1>. QED
    BY <1>1, <1>2, <1>3, <1>4, <1>5, <1>6, <1>7, <1>8, <1>9 DEF HandlerStep

LEMMA TaskType ==
    ASSUME TypeOK, NEW k \in Keys, TaskStep(k)
    PROVE  TypeOK'
  <1>. USE DEF TypeOK, Goto, TaskPC, Fault
  <1>1. CASE Start(k)
    BY <1>1 DEF Start
  <1>2. CASE Execute(k)
    BY <1>2 DEF Execute
  <1>3. CASE Persist(k)
    BY <1>3, JournalWrites DEF Persist, Inserted, RowKinds
  <1>4. CASE PersistOrders(k)
    BY <1>4, JournalWrites DEF PersistOrders
  <1>5. CASE MarkDone(k)
    BY <1>5 DEF MarkDone, SetStatus, Statuses
  <1>6. CASE PersistFailure(k)
    BY <1>6, JournalWrites DEF PersistFailure, Inserted, RowKinds
  <1>7. CASE FailureOrders(k)
    BY <1>7, JournalWrites DEF FailureOrders
  <1>8. CASE MarkFailed(k)
    BY <1>8 DEF MarkFailed, SetStatus, Statuses
  <1>. QED
    BY <1>1, <1>2, <1>3, <1>4, <1>5, <1>6, <1>7, <1>8 DEF TaskStep

LEMMA NextType == TypeOK /\ [Next]_vars => TypeOK'
  <1>. SUFFICES ASSUME TypeOK, [Next]_vars
                PROVE  TypeOK'
    OBVIOUS
  <1>1. CASE UNCHANGED vars
    BY <1>1 DEF TypeOK, vars
  <1>2. CASE Crash
    BY <1>2 DEF Crash, TypeOK, Idle, HandlerAt, TaskPC
  <1>. QED  BY <1>1, <1>2, HandlerType, TaskType DEF Next

\* Every reachable state has the types; above all a handler that is under
\* way has a key, and the two tables hold known statuses and kinds only.
THEOREM TypeCorrect == Spec => []TypeOK
  BY InitType, NextType, PTL DEF Spec

-----------------------------------------------------------------------------
(* The handler and the executions never work on the same key.              *)

\* The two branches that insert a signal have seen its key absent and no
\* other handler has run since; a key the handler is about to queue or to
\* reject has no execution; an absent key has none either.
KeyInv ==
    /\ At("mark") \/ At("reject_mark") => ~Known(handler.key)
    /\ At("respond") \/ At("reject_journal") \/ At("reject_failed")
          => Known(handler.key) /\ pc[handler.key] = "none"
    /\ At("duplicate") => Known(handler.key)
    /\ \A k \in Keys : ~Known(k) => pc[k] = "none"

LEMMA InitKeys == Init => KeyInv
  BY DEF Init, KeyInv, At, Idle, Known

\* The status a step writes is never "absent".
LEMMA HandlerKeys ==
    ASSUME TypeOK, KeyInv,
           HandlerStep \/ \E k \in Keys : DeliverValid(k) \/ DeliverRejected(k)
    PROVE  KeyInv'
  <1>. USE DEF TypeOK, KeyInv, At, Known
  <1>0. Idle.at = "idle"
    BY DEF Idle
  <1>1. \A label \in HandlerAt :
           HandlerGoto(label) => handler'.at = label /\ handler'.key = handler.key
    BY HandlerWrites
  <1>. USE DEF HandlerAt
  <1>2. ASSUME NEW k \in Keys, DeliverValid(k) \/ DeliverRejected(k)
        PROVE  KeyInv'
    BY <1>2 DEF DeliverValid, DeliverRejected
  <1>3. CASE CheckExists
    BY <1>0, <1>1, <1>3 DEF CheckExists
  <1>4. CASE PersistDuplicate
    BY <1>0, <1>4 DEF PersistDuplicate
  <1>5. CASE MarkReceived
    BY <1>0, <1>1, <1>5 DEF MarkReceived, SetStatus
  <1>6. CASE Respond
    BY <1>0, <1>6 DEF Respond, Goto
  <1>7. CASE RejectExists
    BY <1>0, <1>1, <1>7 DEF RejectExists
  <1>8. CASE RejectMark
    BY <1>1, <1>8 DEF RejectMark, SetStatus
  <1>9. CASE RejectJournal
    BY <1>1, <1>9 DEF RejectJournal
  <1>10. CASE RejectFailed
    BY <1>0, <1>10 DEF RejectFailed, SetStatus
  <1>. QED
    BY <1>2, <1>3, <1>4, <1>5, <1>6, <1>7, <1>8, <1>9, <1>10 DEF HandlerStep

\* What a step of an execution may do to what the handler looks at.
LEMMA TaskWrites ==
    ASSUME TypeOK, NEW k \in Keys, TaskStep(k)
    PROVE  /\ pc[k] # "none" /\ pc'[k] \notin {"none", "queued", "lost"}
           /\ pc[k] \notin {"finished", "lost"}
           /\ \A u \in Keys \ {k} : pc'[u] = pc[u] /\ signals'[u] = signals[u]
           /\ signals'[k] = signals[k] \/ signals'[k] \in {"done", "failed"}
           /\ UNCHANGED handler
  BY DEF TypeOK, TaskStep, Start, Execute, Persist, PersistOrders, MarkDone,
         PersistFailure, FailureOrders, MarkFailed, SetStatus, Goto

LEMMA NextKeys == TypeOK /\ KeyInv /\ [Next]_vars => KeyInv'
  <1>. SUFFICES ASSUME TypeOK, KeyInv, [Next]_vars
                PROVE  KeyInv'
    OBVIOUS
  <1>1. CASE UNCHANGED vars
    BY <1>1 DEF KeyInv, vars, At, Known
  <1>2. ASSUME NEW k \in Keys, TaskStep(k)
        PROVE  KeyInv'
    BY <1>2, TaskWrites DEF TypeOK, KeyInv, At, Known
  <1>3. CASE Crash
    BY <1>3 DEF Crash, TypeOK, KeyInv, At, Known, Idle
  <1>. QED  BY <1>1, <1>2, <1>3, HandlerKeys DEF Next

-----------------------------------------------------------------------------
(* The intake implements the ledger.                                       *)

Fate == [k \in Keys |-> FateOf(k)]

\* A step that changes the fate of at most one key is a step of the ledger
\* if that key moves as the ledger allows.
LEMMA OneFate ==
    ASSUME NEW k \in Keys,
           \A u \in Keys \ {k} : FateOf(u)' = FateOf(u),
           \/ FateOf(k)' = FateOf(k)
           \/ FateOf(k) = "unknown" /\ FateOf(k)' \in {"owed", "dropped"}
           \/ FateOf(k) = "owed" /\ FateOf(k)' = "running"
           \/ FateOf(k) = "running" /\ FateOf(k)' = "settled"
    PROVE  [Ledger!Next]_Fate
  <1>1. Fate' = [Fate EXCEPT ![k] = FateOf(k)'] /\ Fate[k] = FateOf(k)
    BY DEF Fate
  <1>2. CASE FateOf(k)' = FateOf(k)
    BY <1>1, <1>2 DEF Fate
  <1>3. CASE FateOf(k) = "unknown" /\ FateOf(k)' = "owed"
    BY <1>1, <1>3 DEF Ledger!Next, Ledger!Accept, Ledger!Move, Fate
  <1>4. CASE FateOf(k) = "unknown" /\ FateOf(k)' = "dropped"
    BY <1>1, <1>4 DEF Ledger!Next, Ledger!Refuse, Ledger!Move, Fate
  <1>5. CASE FateOf(k) = "owed" /\ FateOf(k)' = "running"
    BY <1>1, <1>5 DEF Ledger!Next, Ledger!Start, Ledger!Move, Fate
  <1>6. CASE FateOf(k) = "running" /\ FateOf(k)' = "settled"
    BY <1>1, <1>6 DEF Ledger!Next, Ledger!Settle, Ledger!Move, Fate
  <1>. QED  BY <1>2, <1>3, <1>4, <1>5, <1>6

LEMMA HandlerFates ==
    ASSUME TypeOK, KeyInv,
           HandlerStep \/ \E k \in Keys : DeliverValid(k) \/ DeliverRejected(k)
    PROVE  [Ledger!Next]_Fate
  <1>. USE DEF TypeOK, KeyInv, At, Known, FateOf
  <1>0. Idle.at = "idle"
    BY DEF Idle
  <1>1. \A label \in HandlerAt :
           HandlerGoto(label) => handler'.at = label /\ handler'.key = handler.key
    BY HandlerWrites
  <1>. USE DEF HandlerAt
  <1>2. ASSUME NEW k \in Keys, DeliverValid(k) \/ DeliverRejected(k)
        PROVE  [Ledger!Next]_Fate
    BY <1>2, OneFate DEF DeliverValid, DeliverRejected
  <1>3. handler.at # "idle" => handler.key \in Keys
    OBVIOUS
  <1>4. CASE CheckExists
    BY <1>0, <1>1, <1>3, <1>4, OneFate DEF CheckExists
  <1>5. CASE PersistDuplicate
    BY <1>0, <1>3, <1>5, OneFate DEF PersistDuplicate
  <1>6. CASE MarkReceived
    BY <1>0, <1>1, <1>3, <1>6, OneFate DEF MarkReceived, SetStatus
  <1>7. CASE Respond
    BY <1>0, <1>3, <1>7, OneFate DEF Respond, Goto
  <1>8. CASE RejectExists
    BY <1>0, <1>1, <1>3, <1>8, OneFate DEF RejectExists
  <1>9. CASE RejectMark
    BY <1>1, <1>3, <1>9, OneFate DEF RejectMark, SetStatus
  <1>10. CASE RejectJournal
    BY <1>1, <1>3, <1>10, OneFate DEF RejectJournal
  <1>11. CASE RejectFailed
    BY <1>0, <1>3, <1>11, OneFate DEF RejectFailed, SetStatus
  <1>. QED
    BY <1>2, <1>4, <1>5, <1>6, <1>7, <1>8, <1>9, <1>10, <1>11 DEF HandlerStep

LEMMA TaskFates ==
    ASSUME TypeOK, KeyInv, NEW k \in Keys, TaskStep(k)
    PROVE  [Ledger!Next]_Fate
  <1>1. \A u \in Keys \ {k} : FateOf(u)' = FateOf(u)
    BY TaskWrites DEF TypeOK, FateOf, Known, At
  <1>2. ~(At("respond") /\ handler.key = k) /\ UNCHANGED handler
    BY TaskWrites DEF KeyInv
  <1>3. CASE Start(k)
    <2>1. FateOf(k) = "owed"
      BY <1>3 DEF Start, FateOf
    <2>2. FateOf(k)' = "running"
      BY <1>2, <1>3 DEF Start, FateOf, Goto, TypeOK, At
    <2>. QED  BY <1>1, <2>1, <2>2, OneFate
  <1>4. CASE ~Start(k)
    <2>1. pc[k] # "queued"
      BY <1>4 DEF TaskStep, Start, Execute, Persist, PersistOrders, MarkDone,
                  PersistFailure, FailureOrders, MarkFailed
    <2>2. FateOf(k) = "running"
      BY <1>2, <2>1, TaskWrites DEF FateOf
    <2>3. FateOf(k)' \in {"running", "settled"}
      BY <1>2, TaskWrites DEF FateOf, At
    <2>. QED  BY <1>1, <2>2, <2>3, OneFate
  <1>. QED  BY <1>3, <1>4

LEMMA CrashFates ==
    ASSUME TypeOK, KeyInv, Crash
    PROVE  [Ledger!Next]_Fate
  <1>1. \A k \in Keys :
           FateOf(k)' = IF FateOf(k) \in {"owed", "running"} THEN "dropped"
                        ELSE FateOf(k)
    BY DEF Crash, TypeOK, KeyInv, At, Known, Idle, FateOf, TaskPC
  <1>2. Fate' = [k \in Keys |-> IF Fate[k] \in {"owed", "running"}
                                THEN "dropped" ELSE Fate[k]]
    BY <1>1 DEF Fate
  <1>3. CASE \E k \in Keys : Fate[k] \in {"owed", "running"}
    BY <1>2, <1>3 DEF Ledger!Next, Ledger!LoseAll, Fate
  <1>4. CASE ~ \E k \in Keys : Fate[k] \in {"owed", "running"}
    <2>1. Fate' = [k \in Keys |-> Fate[k]]
      BY <1>2, <1>4
    <2>. QED  BY <2>1 DEF Fate
  <1>. QED  BY <1>3, <1>4

\* Whatever is delivered, however often, and whenever the process dies, a
\* key is executed at most once: every step of the intake is a step of the
\* ledger or leaves the fate of every key alone.
THEOREM ExecutedOnce == Spec => ExecutedAtMostOnce
  <1>1. Init => Ledger!Init
    BY DEF Init, Ledger!Init, FateOf, At, Idle, Known
  <1>2. TypeOK /\ KeyInv /\ [Next]_vars => [Ledger!Next]_Fate
    <2>. SUFFICES ASSUME TypeOK, KeyInv, [Next]_vars
                  PROVE  [Ledger!Next]_Fate
      OBVIOUS
    <2>1. CASE UNCHANGED vars
      BY <2>1 DEF vars, Fate, FateOf, At, Known
    <2>. QED  BY <2>1, HandlerFates, TaskFates, CrashFates DEF Next
  <1>. QED
    BY InitType, NextType, InitKeys, NextKeys, <1>1, <1>2, PTL
    DEF Spec, ExecutedAtMostOnce, Ledger!Spec, Fate

-----------------------------------------------------------------------------
(* The journal keeps its rows, and agrees with the status.                 *)

\* Every write of the journal inserts a row where there was none or fills
\* in the orders of a row.
LEMMA JournalSteps ==
    ASSUME TypeOK, NEW k \in Keys
    PROVE  /\ \A kind \in RowKinds : InsertRow(k, kind) =>
                 /\ \A u \in Keys \ {k} : journal'[u] = journal[u]
                 /\ IF journal[k].kind = "none"
                    THEN journal'[k] = [kind |-> kind, orders |-> FALSE]
                    ELSE journal'[k] = journal[k]
           /\ InsertOrders(k) =>
                 /\ \A u \in Keys \ {k} : journal'[u] = journal[u]
                 /\ journal'[k].kind = journal[k].kind
                 /\ journal'[k].orders = traded[k]
  <1>1. journal \in [Keys -> [kind : RowKinds, orders : BOOLEAN]]
    BY DEF TypeOK
  <1>2. InsertOrders(k) =>
           journal' = [journal EXCEPT ![k] = [journal[k] EXCEPT !.orders = traded[k]]]
    BY DEF InsertOrders
  <1>3. /\ [journal[k] EXCEPT !.orders = traded[k]].kind = journal[k].kind
        /\ [journal[k] EXCEPT !.orders = traded[k]].orders = traded[k]
    BY <1>1
  <1>. QED  BY <1>1, <1>2, <1>3 DEF InsertRow

\* Whatever happens, the first row of a key stays the row of that key.
THEOREM RowsKept == Spec => JournalRowKept
  <1>1. ASSUME TypeOK, [Next]_vars, NEW k \in Keys, journal[k].kind # "none"
        PROVE  journal'[k].kind = journal[k].kind
    <2>1. CASE UNCHANGED journal
      BY <2>1
    <2>2. CASE HandlerStep \/ \E u \in Keys : DeliverValid(u) \/ DeliverRejected(u)
      <3>1. handler.at # "idle" => handler.key \in Keys
        BY <1>1 DEF TypeOK
      <3>. QED
        BY <1>1, <2>2, <3>1, JournalSteps
        DEF HandlerStep, DeliverValid, DeliverRejected, CheckExists,
            PersistDuplicate, MarkReceived, Respond, RejectExists, RejectMark,
            RejectJournal, RejectFailed, At, RowKinds
    <2>3. ASSUME NEW u \in Keys, TaskStep(u)
          PROVE  journal'[k].kind = journal[k].kind
      BY <1>1, <2>3, JournalSteps
      DEF TaskStep, Start, Execute, Persist, PersistOrders, MarkDone,
          PersistFailure, FailureOrders, MarkFailed, Inserted, RowKinds
    <2>. QED  BY <1>1, <2>1, <2>2, <2>3 DEF Next, Crash, vars
  <1>2. TypeOK /\ [Next]_vars =>
           [\A k \in Keys : journal[k].kind # "none"
               => journal'[k].kind = journal[k].kind]_vars
    BY <1>1
  <1>. QED  BY InitType, NextType, <1>2, PTL DEF Spec, JournalRowKept

\* The journal row of an execution that returned: it has the orders unless
\* it was taken by a duplicate.
Journaled(k) ==
    /\ journal[k].kind = "execution" => ended[k] = "returned"
    /\ traded[k] /\ ended[k] = "returned" =>
          journal[k].orders \/ journal[k].kind = "duplicate"

\* How far the record of an execution has come, while no store call has
\* failed.  Up to the execution's own INSERT nothing but a duplicate can
\* have written its row.
Progress(k) ==
    /\ pc[k] \in {"queued", "executing", "persist", "persist_failure"}
          \/ (At("respond") /\ handler.key = k)
          => journal[k].kind \in {"none", "duplicate"}
    /\ pc[k] = "persist" => ended[k] \in {"returned", "dry_run"}
    /\ ended[k] = "dry_run" => ~traded[k]
    /\ pc[k] = "persist_orders" =>
          ended[k] = "returned" /\ journal[k].kind = "execution"
    /\ pc[k] = "mark_done" => ended[k] \in {"returned", "dry_run"} /\ Journaled(k)
    /\ pc[k] \in {"persist_failure", "mark_failed"} => ended[k] = "raised"
    /\ pc[k] = "mark_failed" => journal[k].kind # "execution"
    /\ pc[k] # "failure_orders"
    /\ pc[k] = "finished" =>
          /\ signals[k] = (IF ended[k] = "raised" THEN "failed" ELSE "done")
          /\ Journaled(k)

RecordInv ==
    /\ \A k \in Keys : ~Known(k) => journal[k].kind = "none"
    /\ faults = 0 => \A k \in Keys : Progress(k)

LEMMA InitRecord == Init => RecordInv
  BY DEF Init, RecordInv, Progress, Journaled, At, Idle

\* A delivery changes the record of no execution but by inserting the row
\* of a duplicate.
LEMMA HandlerRecord ==
    ASSUME TypeOK, KeyInv, RecordInv,
           HandlerStep \/ \E k \in Keys : DeliverValid(k) \/ DeliverRejected(k)
    PROVE  RecordInv'
  <1>. USE DEF KeyInv, RecordInv, Progress, Journaled, At, Known, TypeOK
  <1>0. Idle.at = "idle"
    BY DEF Idle
  <1>1. \A label \in HandlerAt :
           HandlerGoto(label) => handler'.at = label /\ handler'.key = handler.key
    BY HandlerWrites
  <1>. USE DEF HandlerAt, RowKinds
  <1>2. ASSUME NEW k \in Keys, DeliverValid(k) \/ DeliverRejected(k)
        PROVE  RecordInv'
    BY <1>2 DEF DeliverValid, DeliverRejected
  <1>3. handler.at # "idle" => handler.key \in Keys
    OBVIOUS
  <1>4. CASE CheckExists
    BY <1>0, <1>1, <1>3, <1>4 DEF CheckExists
  <1>5. CASE PersistDuplicate
    <2>1. /\ handler.at = "duplicate" /\ handler.key \in Keys
          /\ handler'.at = "idle"
          /\ signals[handler.key] # "absent"
          /\ UNCHANGED <<signals, pc, ended, traded, faults>>
      BY <1>0, <1>3, <1>5 DEF PersistDuplicate
    <2>2. /\ \A u \in Keys \ {handler.key} : journal'[u] = journal[u]
          /\ \/ journal'[handler.key] = journal[handler.key]
             \/ /\ journal[handler.key].kind = "none"
                /\ journal'[handler.key].kind = "duplicate"
      BY <1>5, <2>1, JournalSteps DEF PersistDuplicate
    <2>3. \A u \in Keys : signals'[u] = "absent" => journal'[u].kind = "none"
      BY <2>1, <2>2
    <2>4. ASSUME faults' = 0, NEW u \in Keys
          PROVE  Progress(u)'
      <3>1. Progress(u)
        BY <2>1, <2>4
      <3>2. CASE journal'[u] = journal[u]
        BY <2>1, <3>1, <3>2
      <3>3. CASE journal[u].kind = "none" /\ journal'[u].kind = "duplicate"
        BY <2>1, <3>1, <3>3
      <3>. QED  BY <2>2, <3>2, <3>3
    <2>. QED  BY <2>3, <2>4
  <1>6. CASE MarkReceived
    BY <1>0, <1>1, <1>3, <1>6 DEF MarkReceived, SetStatus
  <1>7. CASE Respond
    BY <1>0, <1>3, <1>7 DEF Respond, Goto
  <1>8. CASE RejectExists
    BY <1>0, <1>1, <1>3, <1>8 DEF RejectExists
  <1>9. CASE RejectMark
    BY <1>1, <1>3, <1>9 DEF RejectMark, SetStatus
  <1>10. CASE RejectJournal
    <2>1. /\ handler.at = "reject_journal" /\ handler.key \in Keys
          /\ handler'.at = "reject_failed" /\ handler'.key = handler.key
          /\ UNCHANGED <<signals, pc, ended, traded, faults>>
      BY <1>1, <1>3, <1>10 DEF RejectJournal
    <2>2. pc[handler.key] = "none" /\ signals[handler.key] # "absent"
      BY <2>1
    <2>3. \A u \in Keys \ {handler.key} : journal'[u] = journal[u]
      BY <1>10, <2>1, JournalSteps DEF RejectJournal
    <2>4. \A u \in Keys : signals'[u] = "absent" => journal'[u].kind = "none"
      BY <2>1, <2>2, <2>3
    <2>5. ASSUME faults' = 0, NEW u \in Keys
          PROVE  Progress(u)'
      <3>1. Progress(u)
        BY <2>1, <2>5
      <3>2. CASE u = handler.key
        BY <2>1, <2>2, <3>1, <3>2
      <3>3. CASE u # handler.key
        BY <2>1, <2>3, <3>1, <3>3
      <3>. QED  BY <3>2, <3>3
    <2>. QED  BY <2>4, <2>5
  <1>11. CASE RejectFailed
    BY <1>0, <1>3, <1>11 DEF RejectFailed, SetStatus
  <1>. QED
    BY <1>2, <1>4, <1>5, <1>6, <1>7, <1>8, <1>9, <1>10, <1>11 DEF HandlerStep

\* A step of an execution leaves the record of the other keys alone.
LEMMA OwnRecord ==
    ASSUME TypeOK, RecordInv, NEW k \in Keys, TaskStep(k),
           Known(k)',
           faults' = 0 => faults = 0,
           \A u \in Keys \ {k} : /\ journal'[u] = journal[u]
                                 /\ ended'[u] = ended[u]
                                 /\ traded'[u] = traded[u],
           faults' = 0 => Progress(k)'
    PROVE  RecordInv'
  BY TaskWrites DEF RecordInv, Progress, Journaled, Known, At, TypeOK

LEMMA TaskRecord ==
    ASSUME TypeOK, KeyInv, RecordInv, NEW k \in Keys, TaskStep(k)
    PROVE  RecordInv'
  <1>1. Known(k)'
    BY TaskWrites DEF KeyInv, Known
  <1>2. faults' = 0 => faults = 0
    BY DEF TypeOK, TaskStep, Start, Execute, Persist, PersistOrders, MarkDone,
           PersistFailure, FailureOrders, MarkFailed, Fault
  <1>3. faults' = 0 => Progress(k) /\ faults' = faults
    BY <1>2 DEF RecordInv
  <1>4. ~(At("respond") /\ handler.key = k) /\ UNCHANGED handler
    BY TaskWrites DEF KeyInv
  <1>5. ~Fault \/ faults' # 0
    BY DEF Fault, TypeOK
  <1>. USE DEF TypeOK, Progress, Journaled, At, Goto, RowKinds
  <1>6. CASE Start(k)
    BY <1>1, <1>2, <1>3, <1>4, <1>6, OwnRecord DEF Start
  <1>7. CASE Execute(k)
    BY <1>1, <1>2, <1>3, <1>4, <1>7, OwnRecord DEF Execute
  <1>8. CASE Persist(k)
    <2>1. /\ pc[k] = "persist"
          /\ \A u \in Keys \ {k} : journal'[u] = journal[u]
          /\ UNCHANGED <<signals, handler, ended, traded>>
      BY <1>8, JournalSteps DEF Persist, Inserted
    <2>2. ASSUME faults' = 0
          PROVE  Progress(k)'
      <3>1. Progress(k) /\ ~Fault
        BY <1>3, <1>5, <2>2
      <3>2. CASE /\ ended[k] = "returned"
                 /\ journal'[k].kind = "execution"
                 /\ pc' = [pc EXCEPT ![k] = "persist_orders"]
        BY <1>4, <2>1, <3>1, <3>2
      <3>3. CASE /\ ended[k] = "dry_run" \/ journal[k].kind # "none"
                 /\ pc' = [pc EXCEPT ![k] = "mark_done"]
                 /\ UNCHANGED journal
        BY <1>4, <2>1, <3>1, <3>3
      <3>. QED  BY <1>8, <3>1, <3>2, <3>3, JournalSteps DEF Persist, Inserted
    <2>. QED  BY <1>1, <1>2, <2>1, <2>2, OwnRecord
  <1>9. CASE PersistOrders(k)
    BY <1>1, <1>2, <1>3, <1>4, <1>5, <1>9, OwnRecord, JournalSteps DEF PersistOrders
  <1>10. CASE MarkDone(k)
    BY <1>1, <1>2, <1>3, <1>4, <1>5, <1>10, OwnRecord DEF MarkDone, SetStatus
  <1>11. CASE PersistFailure(k)
    <2>1. /\ pc[k] = "persist_failure"
          /\ \A u \in Keys \ {k} : journal'[u] = journal[u]
          /\ UNCHANGED <<signals, handler, ended, traded>>
      BY <1>11, JournalSteps DEF PersistFailure, Inserted
    <2>2. ASSUME faults' = 0
          PROVE  Progress(k)'
      <3>1. Progress(k) /\ ~Fault /\ ended[k] = "raised"
        BY <1>3, <1>5, <2>1, <2>2
      <3>2. /\ pc' = [pc EXCEPT ![k] = "mark_failed"]
            /\ journal'[k].kind = "failure" \/ UNCHANGED journal
        BY <1>11, <3>1, JournalSteps DEF PersistFailure, Inserted
      <3>. QED  BY <1>4, <2>1, <3>1, <3>2
    <2>. QED  BY <1>1, <1>2, <2>1, <2>2, OwnRecord
  <1>12. CASE FailureOrders(k)
    BY <1>1, <1>2, <1>3, <1>4, <1>5, <1>12, OwnRecord, JournalSteps DEF FailureOrders
  <1>13. CASE MarkFailed(k)
    BY <1>1, <1>2, <1>3, <1>4, <1>5, <1>13, OwnRecord DEF MarkFailed, SetStatus
  <1>. QED
    BY <1>6, <1>7, <1>8, <1>9, <1>10, <1>11, <1>12, <1>13 DEF TaskStep

\* While no store call of an execution has failed, the status of a signal
\* that is over and its row in the journal say the same.
THEOREM RecordsAgree == Spec => []StatusAndJournalAgree
  <1>1. TypeOK /\ KeyInv /\ RecordInv /\ [Next]_vars => RecordInv'
    <2>. SUFFICES ASSUME TypeOK, KeyInv, RecordInv, [Next]_vars
                  PROVE  RecordInv'
      OBVIOUS
    <2>1. CASE UNCHANGED vars
      BY <2>1 DEF vars, RecordInv, Progress, Journaled, At, Known
    <2>2. CASE Crash
      BY <2>2 DEF Crash, RecordInv, Progress, Journaled, At, Known, Idle, TypeOK
    <2>. QED  BY <2>1, <2>2, HandlerRecord, TaskRecord DEF Next
  <1>2. RecordInv => StatusAndJournalAgree
    BY DEF RecordInv, Progress, Journaled, StatusAndJournalAgree
  <1>. QED
    BY InitType, NextType, InitKeys, NextKeys, InitRecord, <1>1, <1>2, PTL
    DEF Spec

=============================================================================
