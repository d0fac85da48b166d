-------------------------- MODULE MCRuntimeControl --------------------------
(* Instances of RuntimeControl small enough for TLC.                       *)
EXTENDS RuntimeControl

CONSTANTS t1, t2

OneTtl == {1}
TwoTv == {t1, t2}

=============================================================================
