--------------------------- MODULE MCRunDirectory ---------------------------
\* Values of the constants of RunDirectory for TLC.
EXTENDS RunDirectory, TLC

CONSTANTS p1, p2, p3

Pair == {p1, p2}
Trio == {p1, p2, p3}
AnyCaller == [Processes -> {"study", "branch"}]
Branches == [Processes -> {"branch"}]

Launches == Permutations(Processes)
=============================================================================
