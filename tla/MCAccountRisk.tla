---------------------------- MODULE MCAccountRisk ----------------------------
(* An instance of AccountRisk small enough for TLC.                        *)
EXTENDS AccountRisk, TLC

CONSTANTS t1, t2, t3, s1, s2, s3

ThreeTasks == {t1, t2, t3}
ThreeSymbols == {s1, s2, s3}

\* Deployments that limit a day, the open positions, and the cooldown of a
\* symbol with the total risk.
Off == [loss |-> 0, trades |-> 0, open |-> 0, cooldown |-> 0, risk |-> 0,
        penalty |-> 1]
SomeSettings == {[Off EXCEPT !.loss = 1, !.trades = 1],
                [Off EXCEPT !.open = 1],
                [Off EXCEPT !.cooldown = 2, !.risk = 1]}

\* Every plan has a stop, or none has.
AllOrNone == {{}, Tasks}

RiskSymmetry == Permutations(Tasks) \union Permutations(Symbols)

=============================================================================
