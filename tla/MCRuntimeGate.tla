---------------------------- MODULE MCRuntimeGate ----------------------------
(* An instance of RuntimeGate small enough for TLC.                        *)
EXTENDS RuntimeGate, TLC

CONSTANTS t1, t2

OneTtl == {1}
TwoTv == {t1, t2}

TaskSymmetry == Permutations(Tasks)

=============================================================================
