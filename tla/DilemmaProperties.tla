-------------------------- MODULE DilemmaProperties --------------------------
(***************************************************************************)
(* What the two engines and the reciprocating policies promise together.   *)
(***************************************************************************)
EXTENDS IteratedDilemma, Functions

(* What agent a has earned in its games against b *)
Earned(a, b) ==
  FoldFunction(+, 0, [k \in DOMAIN ledger |-> Game(ledger[k].moves[a][b], ledger[k].moves[b][a])])

Divisor(a) == IF world.aggregation = "mean" THEN Degree(a) ELSE 1

(* Targeted tit-for-tat is exploited by each opponent for one round at     *)
(* most, over any number of rounds and whatever all of them do: its score  *)
(* trails what its opponents took from it by T - S for each one that has   *)
(* defected last, and by nothing more (nipd_policies.py:91-105,            *)
(* graph_nipd.py:171-206).                                                 *)
TftIsExploitedAtMostOnce ==
  world.mode = "pairwise" /\ last # None =>
    \A a \in Agents : policies[a].name = "tft_pairwise" /\ ~ policies[a].explores =>
      LET opponents == world.neighbours[a]
          taken == MapThenSumSet(LAMBDA b : Earned(b, a), opponents)
          unpaid == {b \in opponents : last[b][a] = "D"}
      IN Divisor(a) * scores[a] = Scale * (taken - (Pay.T - Pay.S) * Cardinality(unpaid))

-----------------------------------------------------------------------------
(* Agents that may defect without having been defected against *)
Sources == {a \in Agents : policies[a].explores \/ policies[a].name \in {"alld", "random"}}

(* Reach[r]: who may defect at whom in round r, if defection only spreads  *)
(* along games: a targeted policy passes it back, a group policy passes it *)
(* on to everybody it plays, one hop a round.                              *)
Reach[r \in 0 .. world.rounds] ==
  {e \in Agents \X Agents :
     \/ e[1] \in Sources
     \/ /\ r > 0
        /\ IF policies[e[1]].name = "tft_pairwise" THEN <<e[2], e[1]>> \in Reach[r - 1]
           ELSE policies[e[1]].name # "allc"
                /\ \E c \in world.neighbours[e[1]] : <<c, e[1]>> \in Reach[r - 1]}

(* Nobody is punished for what happened outside its own games: a           *)
(* reciprocator defects only when a chain of games leads back from it to   *)
(* an agent that defects of its own accord, and no sooner than the chain   *)
(* is long. Two targeted tit-for-tats never defect at each other, whatever *)
(* others do; an isolate has no cause at all (nipd_policies.py:1-20,       *)
(* graph_nipd_policies.py:28-83).                                          *)
DefectionStaysWithinReach ==
  \A k \in DOMAIN ledger : \A a \in Agents : \A b \in DOMAIN ledger[k].moves[a] :
    ledger[k].moves[a][b] = "D" => <<a, b>> \in Reach[k - 1]

-----------------------------------------------------------------------------
(* cooperation_metrics counts a pair's two moves, or a broadcast listed in *)
(* the transition, for the agents who made them.                           *)
Counted ==
  IF world.mode = "pairwise"
    THEN {e \in Agents \X Agents : e[2] \in world.neighbours[e[1]]}
    ELSE {<<a, a>> : a \in Active}

(* The engine's totals of round k are what the metric recounts from the    *)
(* transition, and an isolate's unplayed proposal appears in neither.      *)
Recounted(k) ==
  /\ ledger[k].total = Cardinality(Counted) /\ ledger[k].total > 0
  /\ ledger[k].cooperative
       = Cardinality({e \in Counted : ledger[k].moves[e[1]][e[2]] = "C"})
  /\ \A e \in Counted : world.neighbours[e[1]] # {}
=============================================================================
