------------------------------ MODULE SeedPaths ------------------------------
(***************************************************************************)
(* Which stream of randomness each consumer of a study draws from          *)
(* (engine/seeds.py).  A path is hashed component by component, a number   *)
(* as its decimal text, so replicates and rounds are texts here.  That     *)
(* different paths give different seeds is SHA-256's, and is not claimed.  *)
(***************************************************************************)
EXTENDS Sequences

CONSTANTS
  StudySeed,
  BlockOf         \* scenario_block of each condition

Legacy == "legacy-independent-v1"
Paired == "paired-policy-v2"
Protocols == {Legacy, Paired}

(* study_seed_roots: the root of a run's mechanism, and the one its        *)
(* policies draw from, which is the mechanism's where the study has none   *)
MechanismRoot(protocol, condition, replicate) ==
  IF protocol = Legacy THEN <<StudySeed, condition, replicate>>
  ELSE <<StudySeed, protocol, "condition", condition, "replicate", replicate>>

PolicyRoot(protocol, condition, replicate) ==
  IF protocol = Legacy THEN MechanismRoot(protocol, condition, replicate)
  ELSE <<StudySeed, protocol, "block", BlockOf[condition], "replicate", replicate>>

(* the runner's suffixes: for a policy asked, for resolve, and for the     *)
(* draws of prepare_round, which brings a key of its own                   *)
PolicyPath(protocol, condition, replicate, agent, round) ==
  PolicyRoot(protocol, condition, replicate) \o <<"agent", agent, "round", round>>

ResolvePath(protocol, condition, replicate, round) ==
  MechanismRoot(protocol, condition, replicate) \o <<"mechanism", "round", round>>

OpeningPath(protocol, condition, replicate, key) ==
  MechanismRoot(protocol, condition, replicate)
    \o (<<"mechanism", "round-opening">> \o key)
=============================================================================
