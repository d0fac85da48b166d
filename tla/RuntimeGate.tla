----------------------------- MODULE RuntimeGate -----------------------------
(***************************************************************************)
(* What a caller of is_execution_blocked is promised.  The check is a      *)
(* sequence of reads and writes with other threads in between, so its      *)
(* answer need not be true when it is given; it has to be true of some     *)
(* instant of the call.  Two history variables record, for each execution  *)
(* that is checking, whether it has been under an open gate and whether it *)
(* has been under a shut one.                                              *)
(***************************************************************************)
EXTENDS RuntimeControl

VARIABLES
    sawOpen,   \* tasks whose check has met an instant with the gate open
    sawShut    \* tasks whose check has met an instant with the gate shut

gateVars == <<vars, sawOpen, sawShut>>

\* What the operator asked for: a runtime that was unlocked, or a lock that
\* has run out, or a one-shot within its TTL.
LockInForce == row.locked /\ (row.until = Never \/ now < row.until)
OneShotRunOut ==
    /\ row.shot.enabled
    /\ row.shot.expires # Never
    /\ now >= row.shot.expires
GateOpen == ~LockInForce /\ ~OneShotRunOut

Observed(saw, holds) ==
    {t \in Tasks : \/ pc'[t] \in Checking /\ (t \in saw \/ holds)
                   \/ pc'[t] \in {"running", "blocked"} /\ t \in saw}

GateInit == Init /\ sawOpen = {} /\ sawShut = {}

GateNext ==
    /\ Next
    /\ sawOpen' = Observed(sawOpen, GateOpen')
    /\ sawShut' = Observed(sawShut, ~GateOpen')

GateSpec == GateInit /\ [][GateNext]_gateVars

\* An execution is let through only if the gate was open at some instant of
\* its check: a lock or a TTL that covers the whole check is respected.
\* (trader.py, the head of execute; runtime_control.py, is_execution_blocked)
AdmissionJustified == \A t \in Tasks : pc[t] = "running" => t \in sawOpen

\* An execution is turned away only if the gate was shut at some instant of
\* its check: a lock that has run out turns nobody away, although nothing
\* but a check removes it.
RefusalJustified == \A t \in Tasks : pc[t] = "blocked" => t \in sawShut

=============================================================================
