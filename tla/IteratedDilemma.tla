--------------------------- MODULE IteratedDilemma ---------------------------
(***************************************************************************)
(* The two N-person iterated prisoner's dilemmas and their scripted        *)
(* policies: the complete-population engine (domain/world/nipd.py) and the *)
(* versioned graph engine (graph_nipd.py).                                 *)
(*                                                                         *)
(* A vote is a function from those it is cast at to moves: the neighbours  *)
(* in pairwise mode; in neighbourhood mode one move, broadcast and kept    *)
(* under the agent's own name too.  Payoffs are fractions in the code; all *)
(* amounts here are multiplied by Scale, which every degree divides.  A    *)
(* draw of a policy's stream is a choice among the moves it can lead to.   *)
(***************************************************************************)
EXTENDS Integers, Sequences, FiniteSets, FiniteSetsExt

CONSTANTS
  Settings,   \* worlds with the policies of their agents
  Pay,        \* T, R, P and S
  Scale, None

Moves == {"C", "D"}

(* NIPDMechanism.__init__, UndirectedGraph and the scenario's checks of    *)
(* policies against modes.  Agents are 1..N, in sorted order; the legacy   *)
(* engine names no aggregation: it adds pair games and averages broadcasts.*)
PairwiseNames == {"allc", "alld", "random", "tft_pairwise", "tft_linked"}
NeighbourhoodNames == {"allc", "alld", "random", "ptft", "tft_threshold"}

ValidWorld(w) ==
  /\ w.kind \in {"nipd", "nipd_graph"} /\ w.mode \in {"pairwise", "neighbourhood"}
  /\ w.aggregation \in {"sum", "mean"} /\ w.rounds \in Nat \ {0}
  /\ w.neighbours \in Seq(SUBSET Nat)
  /\ \A a \in DOMAIN w.neighbours :
       /\ w.neighbours[a] \subseteq (DOMAIN w.neighbours) \ {a}
       /\ \A b \in w.neighbours[a] : a \in w.neighbours[b]
  /\ \E a \in DOMAIN w.neighbours : w.neighbours[a] # {}
  /\ w.kind = "nipd" =>
       /\ \A a \in DOMAIN w.neighbours : w.neighbours[a] = (DOMAIN w.neighbours) \ {a}
       /\ w.aggregation = IF w.mode = "pairwise" THEN "sum" ELSE "mean"

ASSUME SettingsAssumption ==
  \A s \in Settings :
    /\ ValidWorld(s.world)
    /\ DOMAIN s.policies = DOMAIN s.world.neighbours
    /\ \A a \in DOMAIN s.policies :
         /\ s.policies[a].name \in IF s.world.mode = "pairwise" THEN PairwiseNames
                                   ELSE NeighbourhoodNames
         /\ s.policies[a].den \in Nat \ {0} /\ s.policies[a].num \in 0 .. s.policies[a].den
    /\ \A d \in 1 .. Len(s.world.neighbours) - 1 : Scale % d = 0

ASSUME PayAssumption ==
  Pay \in [T : Int, R : Int, P : Int, S : Int] /\ Scale \in Nat \ {0}

(* None is no round's votes. *)
ASSUME NoneAssumption ==
  \A s \in Settings : LET A == DOMAIN s.world.neighbours IN
    None \notin [A -> UNION {[B -> Moves] : B \in SUBSET A}]

VARIABLES
  world, policies,   \* of the scenario
  votes,             \* accepted proposals of the round, of agents 1..Len(votes)
  round, last,       \* state["round"], state["last_moves"]
  scores,            \* state["scores"], scaled
  ledger             \* WorldTransitioned and RewardAssigned, one record a round

vars == <<world, policies, votes, round, last, scores, ledger>>

Agents == DOMAIN world.neighbours
Degree(a) == Cardinality(world.neighbours[a])
Addressees(a) == IF world.mode = "pairwise" THEN world.neighbours[a] ELSE Agents

Init ==
  /\ \E s \in Settings : world = s.world /\ policies = s.policies
  /\ votes = << >> /\ round = 0 /\ last = None /\ ledger = << >>
  /\ scores = [a \in Agents |-> 0]

-----------------------------------------------------------------------------
(* observe and propose.  AgainstSwapped, PeersOfPopulation, Proportion-    *)
(* WithSelfInDenominatorOnly and ActiveAmongAll are mutated forms, used by *)
(* no specification.                                                       *)

AgainstSwapped(a, b) == last[a][b]
Against(a, b) == last[b][a]

CooperatingNeighbours(a) ==
  Cardinality({b \in world.neighbours[a] : last[b][b] = "C"})

(* with probability epsilon a fair coin replaces the intended move *)
Explored(a, intended) == IF policies[a].explores THEN Moves ELSE intended

(* rng.random() < num / den *)
Chance(num, den) == {m \in Moves : IF m = "C" THEN num > 0 ELSE num < den}

Mirrored(a, b) == IF last = None THEN {"C"} ELSE {Against(a, b)}

Linked(a) ==
  IF last # None /\ \E b \in world.neighbours[a] : Against(a, b) = "D" THEN {"D"} ELSE {"C"}

PeersOfPopulation(a) == Len(world.neighbours) - 1

(* the denominator of a group signal: the population in the legacy engine, *)
(* the degree on a graph                                                   *)
Peers(a) == IF world.kind = "nipd" THEN Len(world.neighbours) - 1 ELSE Degree(a)

Mine(a) == IF policies[a].include_self THEN 1 ELSE 0

ProportionWithSelfInDenominatorOnly(a) ==
  [num |-> CooperatingNeighbours(a), den |-> Peers(a) + Mine(a)]

Proportion(a) ==
  [num |-> CooperatingNeighbours(a) + (IF last[a][a] = "C" THEN Mine(a) ELSE 0),
   den |-> Peers(a) + Mine(a)]

Proportional(a) ==
  IF last = None THEN {"C"}
  ELSE IF Peers(a) = 0 THEN {last[a][a]}
  ELSE Chance(Proportion(a).num, Proportion(a).den)

Quorum(a) ==
  IF last = None THEN {"C"}
  ELSE IF Peers(a) = 0 THEN {last[a][a]}
  ELSE IF CooperatingNeighbours(a) * policies[a].den >= policies[a].num * Peers(a)
       THEN {"C"} ELSE {"D"}

Uniform(a, choices) == {[b \in Addressees(a) |-> m] : m \in choices}

VotesOf(a) ==
  CASE policies[a].name = "allc" -> Uniform(a, {"C"})
    [] policies[a].name = "alld" -> Uniform(a, {"D"})
    [] policies[a].name = "random" ->
         IF world.mode = "pairwise" THEN [Addressees(a) -> Moves] ELSE Uniform(a, Moves)
    [] policies[a].name = "tft_pairwise" ->
         {vote \in [Addressees(a) -> Moves] :
            \A b \in Addressees(a) : vote[b] \in Explored(a, Mirrored(a, b))}
    [] policies[a].name = "tft_linked" -> Uniform(a, Explored(a, Linked(a)))
    [] policies[a].name = "ptft" -> Uniform(a, Explored(a, Proportional(a)))
    [] policies[a].name = "tft_threshold" -> Uniform(a, Explored(a, Quorum(a)))

(* The runner asks the agents in order; what they see is the state of the  *)
(* round's beginning.                                                      *)
Vote ==
  /\ round < world.rounds /\ Len(votes) < Len(world.neighbours)
  /\ \E vote \in VotesOf(Len(votes) + 1) : votes' = Append(votes, vote)
  /\ UNCHANGED <<world, policies, round, last, scores, ledger>>

-----------------------------------------------------------------------------
(* resolve *)

Game(mine, theirs) ==
  IF mine = "C" THEN IF theirs = "C" THEN Pay.R ELSE Pay.S
  ELSE IF theirs = "C" THEN Pay.T ELSE Pay.P

(* the legacy linear public good, k others cooperating out of N - 1 *)
NeighbourhoodPayoff(move, k) ==
  LET share == k * (Scale \div (Len(world.neighbours) - 1)) IN
  IF move = "C" THEN Scale * Pay.S + (Pay.R - Pay.S) * share
  ELSE Scale * Pay.P + (Pay.T - Pay.P) * share

OtherCooperators(a) == Cardinality({b \in Agents \ {a} : votes[b][b] = "C"})

(* the games on the edges of a; a row of votes holds a broadcast for each *)
EdgeGames(a) ==
  MapThenSumSet(LAMBDA b : Game(votes[a][b], votes[b][a]), world.neighbours[a])

Reward(a) ==
  IF world.kind = "nipd" /\ world.mode = "neighbourhood"
    THEN NeighbourhoodPayoff(votes[a][a], OtherCooperators(a))
  ELSE IF world.aggregation = "mean" /\ Degree(a) > 0
    THEN (Scale \div Degree(a)) * EdgeGames(a)
  ELSE Scale * EdgeGames(a)

ActiveAmongAll == Agents
Active == {a \in Agents : world.kind = "nipd" \/ Degree(a) > 0}

CooperativeVotes ==
  IF world.mode = "pairwise"
    THEN MapThenSumSet(LAMBDA a : Cardinality({b \in Addressees(a) : votes[a][b] = "C"}), Agents)
    ELSE Cardinality({a \in Active : votes[a][a] = "C"})

TotalVotes ==
  IF world.mode = "neighbourhood" THEN Cardinality(Active)
  ELSE IF world.kind = "nipd" THEN Len(world.neighbours) * (Len(world.neighbours) - 1)
  ELSE MapThenSumSet(Degree, Agents)

Resolve ==
  /\ round < world.rounds /\ Len(votes) = Len(world.neighbours)
  /\ last' = votes /\ votes' = << >> /\ round' = round + 1
  /\ scores' = [a \in Agents |-> scores[a] + Reward(a)]
  /\ ledger' = Append(ledger, [moves |-> votes, cooperative |-> CooperativeVotes,
                               total |-> TotalVotes, rewards |-> [a \in Agents |-> Reward(a)]])
  /\ UNCHANGED <<world, policies>>

Next == Vote \/ Resolve

Spec == Init /\ [][Next]_vars
=============================================================================
