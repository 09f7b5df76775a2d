----------------------- MODULE MCExperimentExecution -----------------------
(* Instances of ExperimentExecution: three versions, two of one design. *)
EXTENDS ExperimentExecution

MCDesignOf == [v \in Versions |-> IF v = 3 THEN "second" ELSE "first"]
MCSymmetry == Permutations(Launches)
=============================================================================
