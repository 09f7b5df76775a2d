---------------------------- MODULE MCRunMonitor ----------------------------
\* Values of the constants of RunMonitor for TLC.
EXTENDS RunMonitor, TLC

CONSTANTS p1, p2

Pair == {p1, p2}
BranchAndStudy == {(p1 :> "branch") @@ (p2 :> "study")}
=============================================================================
