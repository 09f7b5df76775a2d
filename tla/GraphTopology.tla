---------------------------- MODULE GraphTopology ----------------------------
(***************************************************************************)
(* The graph-topology experiment (src/experiments/graph-topology): five    *)
(* agents, one of which always defects, at two places of three graphs, for *)
(* three ways of reciprocating.  Its predictions are the rates of eight    *)
(* rounds, as fractions.                                                   *)
(***************************************************************************)
EXTENDS DilemmaProperties

Rounds == 8
Policies == [targeted |-> "tft_pairwise", linked |-> "tft_linked", quorum |-> "tft_threshold"]

Cells == [topology : {"complete", "ring", "star"}, defector : {1, 2}, policy : DOMAIN Policies]

(* adjacency *)
Adjacency(topology) ==
  CASE topology = "complete" -> [a \in 1 .. 5 |-> (1 .. 5) \ {a}]
    [] topology = "ring" -> [a \in 1 .. 5 |-> {1 + (a % 5), 1 + ((a + 3) % 5)}]
    [] topology = "star" -> [a \in 1 .. 5 |-> IF a = 1 THEN 2 .. 5 ELSE {1}]

(* expected_curve: the rate of the first round, of the second, and of all  *)
(* later ones                                                              *)
ExpectedCurve(cell) ==
  LET hub == cell.topology = "star" /\ cell.defector = 1
      curve(first, second, rest) ==
        [k \in 1 .. Rounds |-> IF k = 1 THEN first ELSE IF k = 2 THEN second ELSE rest]
  IN CASE cell.policy = "quorum" ->
            IF hub THEN curve(<<4, 5>>, <<0, 1>>, <<0, 1>>) ELSE curve(<<4, 5>>, <<4, 5>>, <<4, 5>>)
       [] cell.policy # "quorum" /\ hub -> curve(<<1, 2>>, <<0, 1>>, <<0, 1>>)
       [] cell.policy = "targeted" /\ ~hub ->
            IF cell.topology = "star" THEN curve(<<7, 8>>, <<3, 4>>, <<3, 4>>)
            ELSE curve(<<4, 5>>, <<3, 5>>, <<3, 5>>)
       [] cell.policy = "linked" /\ ~hub ->
            CASE cell.topology = "star" -> curve(<<7, 8>>, <<3, 8>>, <<0, 1>>)
              [] cell.topology = "ring" -> curve(<<4, 5>>, <<2, 5>>, <<0, 1>>)
              [] cell.topology = "complete" -> curve(<<4, 5>>, <<0, 1>>, <<0, 1>>)

(* _scenario *)
Scenario(cell) ==
  [world |-> [kind |-> "nipd_graph", aggregation |-> "mean", rounds |-> Rounds,
              mode |-> IF cell.policy = "quorum" THEN "neighbourhood" ELSE "pairwise",
              neighbours |-> Adjacency(cell.topology)],
   policies |-> [a \in 1 .. 5 |->
     [name |-> IF a = cell.defector THEN "alld" ELSE Policies[cell.policy],
      explores |-> FALSE, include_self |-> FALSE, num |-> 1, den |-> 2]]]

Scenarios == [cell \in Cells |-> Scenario(cell)]

(* In every world the rate by round and the rates by agent are about the   *)
(* same votes, and no round divides by zero; in the experiment's own       *)
(* eighteen the rate of each round is the fraction its design committed to *)
(* before execution, so that where the defector stands and how defection   *)
(* is answered decide how far it spreads (metrics/cooperation.py:32-49,    *)
(* graph_nipd.py:178-198, graph_experiment.py:80-93).                      *)
RatesAreAsForetold ==
  /\ \A k \in DOMAIN ledger : Recounted(k)
  /\ \A cell \in Cells : [world |-> world, policies |-> policies] = Scenarios[cell] =>
       \A k \in DOMAIN ledger :
         LET rate == ExpectedCurve(cell)[k]
         IN ledger[k].cooperative * rate[2] = rate[1] * ledger[k].total
=============================================================================
