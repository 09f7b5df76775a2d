---------------------------- MODULE MCStudyFreeze ----------------------------
\* Values of the constants of StudyFreeze for TLC.
EXTENDS StudyFreeze, TLC

CONSTANTS f1, f2, f3, r1, r2, v1, v2

ThreeFreezers == {f1, f2, f3}
TwoRunners == {r1, r2}
TwoVersions == {v1, v2}

Renamings == Permutations(Freezers) \cup Permutations(Runners) \cup Permutations(Versions)
=============================================================================
