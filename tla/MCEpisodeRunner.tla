--------------------------- MODULE MCEpisodeRunner ---------------------------
(***************************************************************************)
(* A small instance of EpisodeRunner.  "work" is always legal, "verify" is *)
(* legal once per agent (a budget, so legality depends on the history),    *)
(* "foul" never.  Agent 2 may not abstain, as in the prisoner's dilemmas,  *)
(* so its fallback is illegal; agent 1 may, as in Evidence Commons.        *)
(***************************************************************************)
EXTENDS LedgerValidation, TLC

MCActions == {"work", "verify", "foul", "abstain"}
HasVerified(s, i) == \E r \in DOMAIN s.moves : s.moves[r][i] = "verify"

MCLegal(s, i, a) ==
  \/ a = "work"
  \/ a = "abstain" /\ i = 1
  \/ a = "verify" /\ ~ HasVerified(s, i)

MCDomainEvents == <<"WorldTransitioned", "RewardAssigned">>
=============================================================================
