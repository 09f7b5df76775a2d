------------------------------ MODULE MCLineage ------------------------------
(***************************************************************************)
(* A small instance of Lineage.  Agent 1 may work once in a run, so its    *)
(* second proposal of "work" is illegal and the legality of a move depends *)
(* on history that a fork must carry over; agent 2 may only abstain.       *)
(***************************************************************************)
EXTENDS Lineage, TLC

MCActions == {"work", "abstain"}
HasWorked(s, i) == \E r \in DOMAIN s.moves : s.moves[r][i] = "work"
MCLegal(s, i, a) == a = "abstain" \/ (i = 1 /\ ~ HasWorked(s, i))

MCDomainEvents == <<"WorldTransitioned">>

\* Chains of runs, no siblings: forks and replays of the newest run only. A run's
\* id is its place in the chain, and a branch that overrides nobody is its end.
Chains ==
  /\ job.source \in {0, Len(archive)}
  /\ job.kind \in {"run", "branch"} => config.run_id = Len(archive) + 1
  /\ job.kind = "branch" /\ job.source > 1 => DOMAIN archive[job.source].branch.changed # {}
=============================================================================
