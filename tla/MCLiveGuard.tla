----------------------------- MODULE MCLiveGuard -----------------------------
(* An instance of LiveGuard small enough for TLC.                          *)
EXTENDS LiveGuard

CONSTANTS t1, t2

OneTtl == {1}
Both == {t1, t2}

\* The other one fails another demand of the guard.
First == {t1}

=============================================================================
