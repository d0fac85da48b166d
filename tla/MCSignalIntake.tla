--------------------------- MODULE MCSignalIntake ---------------------------
(* Instances of SignalIntake small enough for TLC.                         *)
EXTENDS SignalIntake, TLC

CONSTANTS k1, k2

TwoKeys == {k1, k2}
OneTvKey == {k1}

=============================================================================
