---------------------------- MODULE SignalLedger ----------------------------
(***************************************************************************)
(* What the intake of signals promises, whatever is delivered, however     *)
(* often, and whenever the process dies: a signal key is executed at most  *)
(* once, an accepted key is never accepted again, and a key that was       *)
(* refused or lost is never executed.                                      *)
(***************************************************************************)
CONSTANT Keys

VARIABLE fate

Fates == {"unknown", "owed", "running", "settled", "dropped"}

FateOK == fate \in [Keys -> Fates]

Move(k, from, to) == fate[k] = from /\ fate' = [fate EXCEPT ![k] = to]

Accept(k) == Move(k, "unknown", "owed")
Refuse(k) == Move(k, "unknown", "dropped")
Start(k)  == Move(k, "owed", "running")
Settle(k) == Move(k, "running", "settled")

\* A crash drops everything that was under way.
LoseAll ==
    /\ \E k \in Keys : fate[k] \in {"owed", "running"}
    /\ fate' = [k \in Keys |-> IF fate[k] \in {"owed", "running"}
                               THEN "dropped" ELSE fate[k]]

Init == fate = [k \in Keys |-> "unknown"]

Next ==
    \/ \E k \in Keys : Accept(k) \/ Refuse(k) \/ Start(k) \/ Settle(k)
    \/ LoseAll

Spec == Init /\ [][Next]_fate

=============================================================================
