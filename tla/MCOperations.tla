---------------------------- MODULE MCOperations ----------------------------
(* An instance of Operations small enough for TLC.                         *)
EXTENDS Operations

CONSTANT t1

OneTask == {t1}

Long == [side |-> 1, entry |-> "market", policy |-> "add", cancel |-> FALSE,
         fallback |-> FALSE, manual |-> FALSE, stop |-> TRUE, tps |-> 1]
LimitLong == [Long EXCEPT !.entry = "limit", !.policy = "replace", !.cancel = TRUE,
                        !.fallback = TRUE, !.manual = TRUE]
ShortUnstopped ==
    [Long EXCEPT !.side = -1, !.manual = TRUE, !.stop = FALSE, !.tps = 2]

\* An entry of each kind, and one to the other side that brings no stop.
LongAndShort == {Long, LimitLong, ShortUnstopped}

\* What the documents ask the operator to send, the two halves of a close on
\* their own, and DELETE /orders.
AllRequests ==
    {[op |-> "close", before |-> TRUE, after |-> TRUE],
     [op |-> "close", before |-> FALSE, after |-> TRUE],
     [op |-> "cleanup", before |-> TRUE, after |-> TRUE],
     [op |-> "cancel", before |-> TRUE, after |-> TRUE]}

\* All in order; and with ENABLE_TRADING, the observation switched off.
AllInOrder == [control |-> TRUE, locked |-> TRUE, one_shot |-> FALSE,
               env |-> "demo", trading |-> FALSE, rejects_live |-> TRUE,
               observing |-> TRUE, rows |-> "OK"]
TwoBackdrops == {AllInOrder, [AllInOrder EXCEPT !.trading = TRUE, !.observing = FALSE]}

\* Nothing, or the stop of a short that a take profit has closed.
NoneOrOldStop == {{}, {[kind |-> "stop", by |-> t1, guards |-> -1, n |-> 0]}}

=============================================================================
