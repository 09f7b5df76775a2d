---------------------------- MODULE DilemmaProofs ----------------------------
(***************************************************************************)
(* What the dilemmas and their reciprocators keep, on any graph, with any  *)
(* cast of policies, payoffs and number of rounds.                         *)
(*                                                                         *)
(* The invariant (DilemmaInv) says of each recorded round, and of the      *)
(* votes cast so far, that they are votes of the policies on what the      *)
(* round before has shown (Played).  The properties are told with a        *)
(* recursion (Reach) and with sums over opponents and rounds.  That the    *)
(* recursion and the folds have the solutions one expects is an induction, *)
(* made here on a least counterexample (Least): a set of numbers stands    *)
(* for the predicate.  The rates of the graph experiment follow from who   *)
(* defects at whom in each round (SpreadInv) by counting pairs row by row. *)
(***************************************************************************)
EXTENDS GraphTopology, ExactReciprocity, SequenceTheorems, FiniteSetTheorems, WellFoundedInduction, TLAPS

-----------------------------------------------------------------------------
(* Reach *)

Pairs == Agents \X Agents

(* Who may defect at whom, if R says that of the round before *)
Caused(R) ==
  {e \in Pairs :
     IF policies[e[1]].name = "tft_pairwise" THEN <<e[2], e[1]>> \in R
     ELSE policies[e[1]].name # "allc" /\ \E c \in world.neighbours[e[1]] : <<c, e[1]>> \in R}

Unprovoked == {e \in Pairs : e[1] \in Sources}

Reaches(g, r) == IF r = 0 THEN Unprovoked ELSE Unprovoked \cup Caused(g[r - 1])

(* A set of numbers that is not empty has a least one. *)
LEMMA Least ==
  ASSUME NEW T, T \subseteq Nat, T # {}
  PROVE  \E n \in T : \A m \in T : n <= m
<1> DEFINE R == OpToRel(<, Nat)
<1>1. \A m, n \in Nat : <<m, n>> \in R <=> m < n
  BY DEF OpToRel
<1> HIDE DEF R
<1>2. PICK n \in T : \A m \in T : <<m, n>> \notin R
  BY NatLessThanWellFounded, WFMin DEF R
<1>3. ASSUME NEW m \in T PROVE n <= m
  <2>1. n \in Nat /\ m \in Nat /\ ~ (m < n)
    BY <1>1, <1>2
  <2> QED
    BY <2>1
<1> QED
  BY <1>3

(* The recursion of Reach has a solution. *)
LEMMA ReachUnfolds ==
  ASSUME world.rounds \in Nat
  PROVE  /\ Reach[0] = Unprovoked
         /\ \A r \in 1 .. world.rounds : Reach[r] = Unprovoked \cup Caused(Reach[r - 1])
<1> DEFINE Solved(g, n) == g = [r \in 0 .. n |-> Reaches(g, r)]
           T == {n \in Nat : ~ \E g : Solved(g, n)}
<1>1. \A n \in Nat : \E g : Solved(g, n)
  <2> SUFFICES ASSUME T # {} PROVE FALSE
    OBVIOUS
  <2>1. PICK n \in T : \A m \in T : n <= m
    BY Least
  <2>2. CASE n = 0
    <3> DEFINE g == [r \in 0 .. 0 |-> Unprovoked]
    <3>1. Solved(g, 0)
      BY DEF Reaches
    <3> QED
      BY <2>1, <2>2, <3>1
  <2>3. CASE n # 0
    <3>1. n - 1 \in Nat /\ n - 1 \notin T
      BY <2>1, <2>3
    <3>2. PICK g : Solved(g, n - 1)
      BY <3>1
    <3> DEFINE h == [r \in 0 .. n |-> IF r = n THEN Reaches(g, n) ELSE g[r]]
    <3>3. \A r \in 0 .. n : h[r] = IF r = n THEN Reaches(g, n) ELSE g[r]
      OBVIOUS
    <3>4. \A r \in 0 .. n - 1 : g[r] = Reaches(g, r)
      BY <3>2
    <3> HIDE DEF h
    <3>5. \A r \in 0 .. n : Reaches(h, r) = Reaches(g, r)
      <4> SUFFICES ASSUME NEW r \in 0 .. n PROVE Reaches(h, r) = Reaches(g, r)
        OBVIOUS
      <4>1. CASE r = 0
        BY <4>1 DEF Reaches
      <4>2. CASE r # 0
        <5>1. r - 1 \in 0 .. n /\ r - 1 # n
          BY <4>2
        <5>2. h[r - 1] = g[r - 1]
          BY <3>3, <5>1
        <5> QED
          BY <4>2, <5>2 DEF Reaches
      <4> QED
        BY <4>1, <4>2
    <3>6. \A r \in 0 .. n : h[r] = Reaches(h, r)
      BY <3>1, <3>3, <3>4, <3>5
    <3>7. Solved(h, n)
      <4>1. h = [r \in 0 .. n |-> h[r]]
        BY DEF h
      <4> QED
        BY <3>6, <4>1
    <3> QED
      BY <2>1, <3>7
  <2> QED
    BY <2>2, <2>3
<1> DEFINE n == world.rounds
<1>2. Reach = CHOOSE g : Solved(g, n)
  <2> DEFINE Body(g, r) ==
        {e \in Agents \X Agents :
           \/ e[1] \in Sources
           \/ /\ r > 0
              /\ IF policies[e[1]].name = "tft_pairwise" THEN <<e[2], e[1]>> \in g[r - 1]
                 ELSE policies[e[1]].name # "allc"
                      /\ \E c \in world.neighbours[e[1]] : <<c, e[1]>> \in g[r - 1]}
  <2>1. \A g, r : r \in 0 .. n => Body(g, r) = Reaches(g, r)
    <3> SUFFICES ASSUME NEW g, NEW r \in 0 .. n PROVE Body(g, r) = Reaches(g, r)
      OBVIOUS
    <3>1. CASE r = 0
      <4>1. ~ (r > 0)
        BY <3>1
      <4>2. Body(g, r) = Unprovoked
        BY <4>1 DEF Unprovoked, Pairs
      <4> QED
        BY <3>1, <4>2 DEF Reaches
    <3>2. CASE r # 0
      <4>1. r > 0
        BY <3>2
      <4>2. PICK R : R = g[r - 1]
        OBVIOUS
      <4>3. Body(g, r) = Unprovoked \cup Caused(R)
        BY <4>1, <4>2 DEF Unprovoked, Pairs, Caused
      <4> QED
        BY <3>2, <4>2, <4>3 DEF Reaches
    <3> QED
      BY <3>1, <3>2
  <2>2. Reach = CHOOSE g : g = [r \in 0 .. n |-> Body(g, r)]
    BY DEF Reach
  <2> HIDE DEF Body
  <2>3. \A g : g = [r \in 0 .. n |-> Body(g, r)] <=> Solved(g, n)
    BY <2>1
  <2> QED
    BY <2>2, <2>3
<1>3. Solved(Reach, n)
  BY <1>1, <1>2
<1>4. \A r \in 0 .. n : Reach[r] = Reaches(Reach, r)
  <2>1. PICK g : g = Reach
    OBVIOUS
  <2>2. g = [r \in 0 .. n |-> Reaches(g, r)]
    BY <1>3, <2>1
  <2>3. \A r \in 0 .. n : g[r] = Reaches(g, r)
    BY <2>2
  <2> QED
    BY <2>1, <2>3
<1>5. Reach[0] = Unprovoked
  <2>1. 0 \in 0 .. n
    OBVIOUS
  <2>2. Reach[0] = Reaches(Reach, 0)
    BY <1>4, <2>1
  <2> QED
    BY <2>2 DEF Reaches
<1>6. ASSUME NEW r \in 1 .. n PROVE Reach[r] = Unprovoked \cup Caused(Reach[r - 1])
  <2>1. r \in 0 .. n /\ r # 0
    BY <1>6
  <2> QED
    BY <1>4, <2>1 DEF Reaches
<1> QED
  BY <1>5, <1>6

(* Who may defect in one round may in the next. *)
LEMMA ReachGrows ==
  ASSUME world.rounds \in Nat, NEW r \in Nat, r < world.rounds
  PROVE  Reach[r] \subseteq Reach[r + 1]
<1> DEFINE T == {n \in Nat : n < world.rounds /\ ~ (Reach[n] \subseteq Reach[n + 1])}
<1>1. T = {}
  <2> SUFFICES ASSUME T # {} PROVE FALSE
    OBVIOUS
  <2>1. PICK n \in T : \A m \in T : n <= m
    BY Least
  <2>2. Reach[n + 1] = Unprovoked \cup Caused(Reach[n])
    <3>1. n + 1 \in 1 .. world.rounds /\ (n + 1) - 1 = n
      BY <2>1
    <3> QED
      BY <3>1, ReachUnfolds
  <2>3. CASE n = 0
    BY <2>1, <2>2, <2>3, ReachUnfolds
  <2>4. CASE n # 0
    <3>1. n - 1 \in Nat /\ n - 1 < world.rounds /\ n - 1 \notin T /\ (n - 1) + 1 = n
      BY <2>1, <2>4
    <3>2. Reach[n - 1] \subseteq Reach[n]
      BY <3>1
    <3>3. n \in 1 .. world.rounds
      BY <2>1, <2>4
    <3>4. Reach[n] = Unprovoked \cup Caused(Reach[n - 1])
      BY <3>3, ReachUnfolds
    <3>5. PICK P, Q : P = Reach[n - 1] /\ Q = Reach[n]
      OBVIOUS
    <3>6. Caused(P) \subseteq Caused(Q)
      BY <3>2, <3>5 DEF Caused
    <3> QED
      BY <2>1, <2>2, <3>4, <3>5, <3>6
  <2> QED
    BY <2>3, <2>4
<1> QED
  BY <1>1

-----------------------------------------------------------------------------
(* One vote *)

InWorld == \E s \in Settings : world = s.world /\ policies = s.policies

LEMMA WorldFacts ==
  ASSUME InWorld
  PROVE  /\ world.rounds \in Nat /\ world.mode \in {"pairwise", "neighbourhood"}
         /\ Agents = 1 .. Len(world.neighbours) /\ Len(world.neighbours) \in Nat
         /\ \A a \in Agents :
              /\ world.neighbours[a] \subseteq Agents \ {a}
              /\ \A b \in world.neighbours[a] : a \in world.neighbours[b]
              /\ world.kind = "nipd" => world.neighbours[a] = Agents \ {a}
              /\ policies[a].name \in IF world.mode = "pairwise" THEN PairwiseNames
                                      ELSE NeighbourhoodNames
              /\ policies[a].den \in Nat \ {0} /\ policies[a].num \in 0 .. policies[a].den
<1>1. PICK s \in Settings : world = s.world /\ policies = s.policies
  BY DEF InWorld
<1>2. ValidWorld(world) /\ DOMAIN policies = Agents
  BY <1>1, SettingsAssumption DEF Agents
<1>3. Agents = 1 .. Len(world.neighbours) /\ Len(world.neighbours) \in Nat
  BY <1>2, LenProperties DEF ValidWorld, Agents
<1>4. \A a \in Agents :
        /\ policies[a].name \in IF world.mode = "pairwise" THEN PairwiseNames
                                ELSE NeighbourhoodNames
        /\ policies[a].den \in Nat \ {0} /\ policies[a].num \in 0 .. policies[a].den
  BY <1>1, <1>2, SettingsAssumption
<1> QED
  BY <1>2, <1>3, <1>4 DEF ValidWorld, Agents

(* The denominator of a group signal is the number of neighbours. *)
LEMMA PeersAreNeighbours ==
  ASSUME InWorld, NEW a \in Agents
  PROVE  /\ IsFiniteSet(world.neighbours[a]) /\ Peers(a) \in Nat
         /\ Peers(a) = Cardinality(world.neighbours[a])
<1>1. PICK n : n = Len(world.neighbours)
  OBVIOUS
<1>2. /\ Agents = 1 .. n /\ n \in Nat /\ world.neighbours[a] \subseteq Agents \ {a}
      /\ world.kind = "nipd" => world.neighbours[a] = Agents \ {a}
  BY <1>1, WorldFacts
<1>3. IsFiniteSet(1 .. n) /\ Cardinality(1 .. n) = n
  BY <1>2, FS_Interval
<1>4. IsFiniteSet(Agents \ {a}) /\ Cardinality(Agents \ {a}) = n - 1
  BY <1>2, <1>3, FS_RemoveElement
<1>5. IsFiniteSet(world.neighbours[a]) /\ Cardinality(world.neighbours[a]) \in Nat
  BY <1>2, <1>4, FS_Subset, FS_CardinalityType
<1>6. Peers(a) = Cardinality(world.neighbours[a])
  BY <1>1, <1>2, <1>4 DEF Peers, Degree
<1> QED
  BY <1>5, <1>6

(* A group policy may defect at all it plays or at none. *)
LEMMA ReachOfGroup ==
  ASSUME world.rounds \in Nat, NEW r \in 0 .. world.rounds,
         NEW c \in Agents, NEW a \in Agents, NEW b \in Agents,
         policies[c].name # "tft_pairwise", <<c, a>> \in Reach[r]
  PROVE  <<c, b>> \in Reach[r]
<1>1. CASE r = 0
  BY <1>1, ReachUnfolds DEF Unprovoked, Pairs
<1>2. CASE r # 0
  <2>1. r \in 1 .. world.rounds
    BY <1>2
  <2>2. PICK P : P = Reach[r - 1]
    OBVIOUS
  <2>3. Reach[r] = Unprovoked \cup Caused(P)
    BY <2>1, <2>2, ReachUnfolds
  <2> QED
    BY <2>3 DEF Unprovoked, Pairs, Caused
<1> QED
  BY <1>1, <1>2

(* A group policy with no cause of its own has been defected against before *)
(* it may defect.                                                           *)
LEMMA OwnDefection ==
  ASSUME world.rounds \in Nat, NEW r \in 0 .. world.rounds, NEW a \in Agents,
         a \notin Sources, policies[a].name # "tft_pairwise", <<a, a>> \in Reach[r]
  PROVE  \E c \in world.neighbours[a] : <<c, a>> \in Reach[r]
<1>1. r # 0
  BY ReachUnfolds DEF Unprovoked
<1>2. r \in 1 .. world.rounds /\ r - 1 \in Nat /\ r - 1 < world.rounds /\ (r - 1) + 1 = r
  BY <1>1
<1>3. PICK P : P = Reach[r - 1]
  OBVIOUS
<1>4. Reach[r] = Unprovoked \cup Caused(P)
  BY <1>2, <1>3, ReachUnfolds
<1>5. PICK c \in world.neighbours[a] : <<c, a>> \in P
  BY <1>4 DEF Unprovoked, Caused
<1>6. P \subseteq Reach[r]
  BY <1>2, <1>3, ReachGrows
<1> QED
  BY <1>5, <1>6

(* The votes of a round, by agents that had cause to defect in round r *)
Played(moves, r) ==
  /\ DOMAIN moves = Agents
  /\ \A a \in Agents :
       /\ moves[a] \in [Addressees(a) -> Moves]
       /\ \A b \in Addressees(a) : moves[a][b] = "D" => <<a, b>> \in Reach[r]

Remembered ==
  /\ round \in Nat /\ round < world.rounds
  /\ last # None => round > 0 /\ Played(last, round - 1)

Provoked(a) ==
  last # None /\ \E c \in world.neighbours[a] : <<c, a>> \in Reach[round - 1]

(* A group policy defects on what it counts only if provoked. *)
LEMMA GroupsArePatient ==
  ASSUME InWorld, Remembered, NEW a \in Agents, a \notin Sources,
         policies[a].name \in {"ptft", "tft_threshold"},
         "D" \in Proportional(a) \/ "D" \in Quorum(a)
  PROVE  Provoked(a)
<1>1. /\ last # None /\ round - 1 \in 0 .. world.rounds /\ world.rounds \in Nat
      /\ Played(last, round - 1)
  BY WorldFacts DEF Proportional, Quorum, Remembered
<1>2. world.mode = "neighbourhood"
  BY WorldFacts DEF PairwiseNames
<1>3. \A c \in Agents : /\ policies[c].name # "tft_pairwise"
                        /\ last[c][c] \in Moves
                        /\ last[c][c] = "D" => <<c, c>> \in Reach[round - 1]
  <2> SUFFICES ASSUME NEW c \in Agents
               PROVE  /\ policies[c].name # "tft_pairwise"
                      /\ last[c][c] \in Moves
                      /\ last[c][c] = "D" => <<c, c>> \in Reach[round - 1]
    OBVIOUS
  <2>1. c \in Addressees(c)
    BY <1>2 DEF Addressees
  <2>2. last[c] \in [Addressees(c) -> Moves]
        /\ (last[c][c] = "D" => <<c, c>> \in Reach[round - 1])
    BY <1>1, <2>1 DEF Played
  <2>3. policies[c].name # "tft_pairwise"
    BY <1>2, WorldFacts DEF NeighbourhoodNames
  <2> QED
    BY <2>1, <2>2, <2>3
<1>4. ASSUME last[a][a] # "C" PROVE Provoked(a)
  <2>1. <<a, a>> \in Reach[round - 1]
    BY <1>3, <1>4 DEF Moves
  <2> QED
    BY <1>1, <1>3, <2>1, OwnDefection DEF Provoked
<1>5. ASSUME CooperatingNeighbours(a) # Peers(a) PROVE Provoked(a)
  <2>1. PICK c \in world.neighbours[a] : last[c][c] # "C"
    <3> SUFFICES ASSUME \A c \in world.neighbours[a] : last[c][c] = "C" PROVE FALSE
      OBVIOUS
    <3>1. {b \in world.neighbours[a] : last[b][b] = "C"} = world.neighbours[a]
      OBVIOUS
    <3> QED
      BY <1>5, <3>1, PeersAreNeighbours DEF CooperatingNeighbours
  <2>2. c \in Agents
    BY <2>1, WorldFacts
  <2>3. <<c, c>> \in Reach[round - 1]
    BY <1>3, <2>1, <2>2 DEF Moves
  <2>4. <<c, a>> \in Reach[round - 1]
    BY <1>1, <1>3, <2>2, <2>3, ReachOfGroup
  <2> QED
    BY <1>1, <2>1, <2>4 DEF Provoked
<1>6. Peers(a) \in Nat /\ policies[a].den \in Nat \ {0} /\ policies[a].num \in 0 .. policies[a].den
  BY PeersAreNeighbours, WorldFacts
<1>7. ASSUME last[a][a] = "C", CooperatingNeighbours(a) = Peers(a) PROVE FALSE
  <2>1. CASE "D" \in Proportional(a)
    <3>1. Mine(a) \in {0, 1}
      BY DEF Mine
    <3>2. Proportion(a).num = Proportion(a).den /\ Proportion(a).den \in Nat
      BY <1>6, <1>7, <3>1 DEF Proportion
    <3>3. "D" \in Chance(Proportion(a).num, Proportion(a).den)
      BY <1>1, <1>7, <2>1 DEF Proportional
    <3> QED
      BY <3>2, <3>3 DEF Chance
  <2>2. CASE "D" \in Quorum(a)
    <3>1. ~ (Peers(a) * policies[a].den >= policies[a].num * Peers(a))
      BY <1>1, <1>7, <2>2 DEF Quorum
    <3> DEFINE p == Peers(a)
               d == policies[a].den
               m == policies[a].num
    <3>2. p \in Nat /\ d \in Nat /\ m \in Nat /\ m <= d
      BY <1>6
    <3> HIDE DEF p, d, m
    <3>3. p * d >= m * p
      <4>1. p * (d - m) >= 0 /\ p * (d - m) = p * d - p * m
        BY <3>2
      <4> QED
        BY <3>2, <4>1
    <3> QED
      BY <3>1, <3>3 DEF p, d, m
  <2> QED
    BY <2>1, <2>2
<1> QED
  BY <1>4, <1>5, <1>7

LEMMA UniformVotes ==
  ASSUME NEW a \in Agents, NEW choices \in SUBSET Moves, NEW vote \in Uniform(a, choices)
  PROVE  /\ vote \in [Addressees(a) -> Moves]
         /\ \A b \in Addressees(a) : vote[b] \in choices
BY DEF Uniform

(* What a policy may vote: a defection has a cause. *)
LEMMA VotesHaveACause ==
  ASSUME InWorld, Remembered, NEW a \in Agents, NEW vote \in VotesOf(a)
  PROVE  /\ vote \in [Addressees(a) -> Moves]
         /\ \A b \in Addressees(a) : vote[b] = "D" => <<a, b>> \in Reach[round]
<1>1. /\ Addressees(a) \subseteq Agents /\ world.neighbours[a] \subseteq Agents
      /\ policies[a].name \in PairwiseNames \cup NeighbourhoodNames
      /\ world.rounds \in Nat /\ round \in 0 .. world.rounds
      /\ policies[a].name \in {"tft_pairwise", "tft_linked"} => world.mode = "pairwise"
  BY WorldFacts DEF Addressees, Remembered, PairwiseNames, NeighbourhoodNames
<1>2. /\ \A m \in Moves : {m} \subseteq Moves
      /\ "C" \in Moves /\ "D" \in Moves /\ "C" # "D"
  BY DEF Moves
<1>3. vote \in [Addressees(a) -> Moves]
  <2>1. CASE policies[a].name = "tft_pairwise"
    BY <2>1 DEF VotesOf
  <2>2. CASE policies[a].name = "random"
    BY <2>2, UniformVotes DEF VotesOf
  <2>3. CASE policies[a].name = "allc"
    BY <1>2, <2>3, UniformVotes DEF VotesOf
  <2>4. CASE policies[a].name = "alld"
    BY <1>2, <2>4, UniformVotes DEF VotesOf
  <2>5. CASE policies[a].name \in {"tft_linked", "ptft", "tft_threshold"}
    <3>1. Linked(a) \subseteq Moves
      BY <1>2 DEF Linked
    <3>2. Quorum(a) \in SUBSET Moves \/ Peers(a) = 0
      BY <1>2 DEF Quorum
    <3>3. Proportional(a) \in SUBSET Moves \/ Peers(a) = 0
      BY <1>2 DEF Proportional, Chance
    <3>4. ASSUME Peers(a) = 0, policies[a].name # "tft_linked"
          PROVE  Proportional(a) \in SUBSET Moves /\ Quorum(a) \in SUBSET Moves
      <4>1. world.mode = "neighbourhood"
        BY <2>5, <3>4, WorldFacts DEF PairwiseNames
      <4>2. last # None => last[a][a] \in Moves
        BY <4>1 DEF Remembered, Played, Addressees
      <4> QED
        BY <1>2, <3>4, <4>2 DEF Proportional, Quorum
    <3>5. \A i \in SUBSET Moves : Explored(a, i) \in SUBSET Moves
      BY DEF Explored
    <3>6. \E i \in SUBSET Moves : vote \in Uniform(a, Explored(a, i))
      BY <2>5, <3>1, <3>2, <3>3, <3>4 DEF VotesOf
    <3> QED
      BY <3>5, <3>6, UniformVotes
  <2> QED
    BY <1>1, <2>1, <2>2, <2>3, <2>4, <2>5 DEF PairwiseNames, NeighbourhoodNames
<1>4. ASSUME NEW b \in Addressees(a), vote[b] = "D" PROVE <<a, b>> \in Reach[round]
  <2>1. CASE a \in Sources
    <3>1. <<a, b>> \in Unprovoked
      BY <1>1, <2>1 DEF Unprovoked, Pairs
    <3> QED
      BY <1>1, <3>1, ReachUnfolds
  <2>2. CASE a \notin Sources
    <3>1. ~ policies[a].explores /\ policies[a].name \notin {"alld", "random"}
      BY <2>2 DEF Sources
    <3>2. \A i : Explored(a, i) = i
      BY <3>1 DEF Explored
    <3>3. policies[a].name # "allc"
      BY <1>2, <1>4, UniformVotes DEF VotesOf
    <3>4. ASSUME last # None, \/ policies[a].name = "tft_pairwise" /\ <<b, a>> \in Reach[round - 1]
                              \/ policies[a].name # "tft_pairwise" /\ Provoked(a)
          PROVE  <<a, b>> \in Reach[round]
      <4>1. round \in 1 .. world.rounds
        BY <1>1, <3>4 DEF Remembered
      <4>2. PICK P : P = Reach[round - 1]
        OBVIOUS
      <4>3. <<a, b>> \in Caused(P)
        BY <1>1, <3>3, <3>4, <4>2 DEF Caused, Pairs, Provoked
      <4> QED
        BY <1>1, <4>1, <4>2, <4>3, ReachUnfolds
    <3>5. CASE policies[a].name = "tft_pairwise"
      <4>1. vote[b] \in Mirrored(a, b) /\ b \in world.neighbours[a]
        BY <1>1, <1>4, <3>2, <3>5 DEF VotesOf, Addressees
      <4>2. last # None /\ last[b][a] = "D"
        BY <1>4, <4>1 DEF Mirrored, Against
      <4>3. b \in Agents /\ a \in Addressees(b)
        BY <1>1, <3>5, <4>1, WorldFacts DEF Addressees
      <4> QED
        BY <3>4, <3>5, <4>2, <4>3 DEF Remembered, Played
    <3>6. CASE policies[a].name = "tft_linked"
      <4>1. vote \in Uniform(a, Linked(a))
        BY <3>2, <3>6 DEF VotesOf
      <4>2. "D" \in Linked(a)
        BY <1>4, <4>1 DEF Uniform
      <4>3. last # None /\ \E c \in world.neighbours[a] : last[c][a] = "D"
        BY <4>2 DEF Linked, Against
      <4>4. PICK c \in world.neighbours[a] : last[c][a] = "D"
        BY <4>3
      <4>5. c \in Agents /\ a \in Addressees(c)
        BY <1>1, <3>6, WorldFacts DEF Addressees
      <4>6. Provoked(a)
        BY <4>3, <4>4, <4>5 DEF Provoked, Remembered, Played
      <4> QED
        BY <3>4, <3>6, <4>6 DEF Provoked
    <3>7. CASE policies[a].name \in {"ptft", "tft_threshold"}
      <4>1. vote \in Uniform(a, IF policies[a].name = "ptft" THEN Proportional(a) ELSE Quorum(a))
        BY <3>2, <3>7 DEF VotesOf
      <4>2. "D" \in Proportional(a) \/ "D" \in Quorum(a)
        BY <1>4, <3>7, <4>1 DEF Uniform
      <4>3. Provoked(a)
        BY <2>2, <3>7, <4>2, GroupsArePatient
      <4> QED
        BY <3>4, <3>7, <4>3 DEF Provoked
    <3> QED
      BY <1>1, <3>1, <3>3, <3>5, <3>6, <3>7 DEF PairwiseNames, NeighbourhoodNames
  <2> QED
    BY <2>1, <2>2
<1> QED
  BY <1>3, <1>4

-----------------------------------------------------------------------------
(* The game *)

DilemmaInv ==
  /\ InWorld /\ round \in Nat /\ round <= world.rounds
  /\ \E S : ledger \in Seq(S)
  /\ Len(ledger) = round /\ \A k \in 1 .. round : Played(ledger[k].moves, k - 1)
  /\ last = IF round = 0 THEN None ELSE ledger[round].moves
  /\ \E S : votes \in Seq(S)
  /\ Len(votes) <= Len(world.neighbours)
  /\ \A a \in 1 .. Len(votes) : votes[a] \in VotesOf(a)

LEMMA InvRemembers == DilemmaInv /\ round < world.rounds => Remembered
<1> SUFFICES ASSUME DilemmaInv, round < world.rounds, last # None
             PROVE  round > 0 /\ Played(last, round - 1)
  BY DEF DilemmaInv, Remembered
<1>1. round # 0 /\ last = ledger[round].moves /\ round \in 1 .. round
  BY DEF DilemmaInv
<1> QED
  BY <1>1 DEF DilemmaInv

(* World and policies are the scenario's and stay. *)
LEMMA SameWorld ==
  ASSUME UNCHANGED <<world, policies>>
  PROVE  /\ Agents' = Agents /\ Reach' = Reach /\ InWorld' = InWorld
         /\ \A a : Addressees(a)' = Addressees(a)
<1>1. Agents' = Agents /\ Sources' = Sources
  BY DEF Agents, Sources
<1>2. Reach' = Reach
  BY <1>1 DEF Reach
<1>3. \A a : Addressees(a)' = Addressees(a)
  BY <1>1 DEF Addressees
<1> QED
  BY <1>1, <1>2, <1>3 DEF InWorld

LEMMA SameVotes ==
  ASSUME UNCHANGED <<world, policies, last>>, NEW a
  PROVE  VotesOf(a)' = VotesOf(a)
<1>1. /\ Agents' = Agents /\ Addressees(a)' = Addressees(a) /\ Peers(a)' = Peers(a)
      /\ world' = world /\ policies' = policies /\ last' = last
  BY SameWorld DEF Peers, Degree
<1>2. /\ Linked(a)' = Linked(a) /\ Quorum(a)' = Quorum(a)
      /\ Proportional(a)' = Proportional(a)
  BY <1>1 DEF Linked, Against, Quorum, CooperatingNeighbours, Proportional, Proportion, Mine
<1>3. \A b : Mirrored(a, b)' = Mirrored(a, b)
  BY <1>1 DEF Mirrored, Against
<1>4. /\ \A i : Explored(a, i)' = Explored(a, i)
      /\ \A c : Uniform(a, c)' = Uniform(a, c)
  BY <1>1 DEF Explored, Uniform
<1> QED
  BY <1>1, <1>2, <1>3, <1>4 DEF VotesOf, Uniform, Explored

LEMMA VoteKeeps == DilemmaInv /\ Vote => DilemmaInv'
<1> SUFFICES ASSUME DilemmaInv, Vote PROVE DilemmaInv'
  OBVIOUS
<1>1. /\ UNCHANGED <<world, policies, round, last, scores, ledger>>
      /\ Len(votes) < Len(world.neighbours)
  BY DEF Vote
<1>2. PICK vote \in VotesOf(Len(votes) + 1) : votes' = Append(votes, vote)
  BY DEF Vote
<1>3. PICK S : votes \in Seq(S)
  BY DEF DilemmaInv
<1> DEFINE T == S \cup {vote}
<1>4. votes \in Seq(T) /\ vote \in T
  BY <1>3, SeqMonotonic
<1> HIDE DEF T
<1>5. /\ Len(votes) \in Nat /\ votes' \in Seq(T) /\ Len(votes') = Len(votes) + 1
      /\ votes'[Len(votes) + 1] = vote
      /\ \A a \in 1 .. Len(votes) : votes'[a] = votes[a]
  BY <1>2, <1>4, AppendProperties, LenProperties
<1>6. Len(world.neighbours) \in Nat
  BY WorldFacts DEF DilemmaInv
<1>7. \A a \in 1 .. Len(votes') : votes'[a] \in VotesOf(a)'
  <2> SUFFICES ASSUME NEW a \in 1 .. Len(votes') PROVE votes'[a] \in VotesOf(a)'
    OBVIOUS
  <2>1. VotesOf(a)' = VotesOf(a)
    BY <1>1, SameVotes
  <2>2. a \in 1 .. Len(votes) \/ a = Len(votes) + 1
    BY <1>5
  <2> QED
    BY <1>2, <1>5, <2>1, <2>2 DEF DilemmaInv
<1>8. \A k \in 1 .. round : Played(ledger[k].moves, k - 1)'
  <2>1. \A moves, r : Played(moves, r) <=> /\ DOMAIN moves = Agents'
          /\ \A a \in Agents' :
               /\ moves[a] \in [Addressees(a)' -> Moves]
               /\ \A b \in Addressees(a)' : moves[a][b] = "D" => <<a, b>> \in Reach'[r]
    BY <1>1, SameWorld DEF Played
  <2> QED
    BY <1>1, <2>1 DEF DilemmaInv, Played
<1>9. InWorld'
  BY <1>1 DEF DilemmaInv, InWorld
<1>10. Len(votes') <= Len(world'.neighbours)
  BY <1>1, <1>5, <1>6
<1> QED
  BY <1>1, <1>5, <1>7, <1>8, <1>9, <1>10 DEF DilemmaInv

LEMMA RoundPlayed == DilemmaInv /\ Resolve => Played(votes, round)
<1> SUFFICES ASSUME DilemmaInv, Resolve PROVE Played(votes, round)
  OBVIOUS
<1>1. round < world.rounds /\ Len(votes) = Len(world.neighbours)
  BY DEF Resolve
<1>2. Agents = 1 .. Len(votes)
  BY <1>1, WorldFacts DEF DilemmaInv
<1>3. DOMAIN votes = Agents
  BY <1>2, LenProperties DEF DilemmaInv
<1> QED
  BY <1>1, <1>2, <1>3, InvRemembers, VotesHaveACause DEF DilemmaInv, Played

LEMMA ResolveKeeps == DilemmaInv /\ Resolve => DilemmaInv'
<1> SUFFICES ASSUME DilemmaInv, Resolve PROVE DilemmaInv'
  OBVIOUS
<1>1. /\ UNCHANGED <<world, policies>> /\ round < world.rounds
      /\ Len(votes) = Len(world.neighbours)
      /\ last' = votes /\ votes' = << >> /\ round' = round + 1
  BY DEF Resolve
<1>2. PICK row : row = [moves |-> votes, cooperative |-> CooperativeVotes, total |-> TotalVotes,
                        rewards |-> [a \in Agents |-> Reward(a)]]
  OBVIOUS
<1>3. ledger' = Append(ledger, row) /\ row.moves = votes
  BY <1>2 DEF Resolve
<1>4. PICK S : ledger \in Seq(S)
  BY DEF DilemmaInv
<1> DEFINE T == S \cup {row}
<1>5. ledger \in Seq(T) /\ row \in T
  BY <1>4, SeqMonotonic
<1> HIDE DEF T
<1>6. /\ ledger' \in Seq(T) /\ Len(ledger) = round /\ round \in Nat
      /\ Len(ledger') = round + 1 /\ ledger'[round + 1] = row
      /\ \A k \in 1 .. round : ledger'[k] = ledger[k]
  BY <1>3, <1>5, AppendProperties, LenProperties DEF DilemmaInv
<1>7. Played(votes, round)
  BY RoundPlayed
<1>8. \A k \in 1 .. round + 1 : Played(ledger'[k].moves, k - 1)
  <2> SUFFICES ASSUME NEW k \in 1 .. round + 1 PROVE Played(ledger'[k].moves, k - 1)
    OBVIOUS
  <2>1. k \in 1 .. round \/ (k = round + 1 /\ k - 1 = round)
    BY <1>6
  <2> QED
    BY <1>3, <1>6, <1>7, <2>1 DEF DilemmaInv
<1>9. \A k \in 1 .. round' : Played(ledger[k].moves, k - 1)'
  <2>1. \A moves, r : Played(moves, r) <=> /\ DOMAIN moves = Agents'
          /\ \A a \in Agents' :
               /\ moves[a] \in [Addressees(a)' -> Moves]
               /\ \A b \in Addressees(a)' : moves[a][b] = "D" => <<a, b>> \in Reach'[r]
    BY <1>1, SameWorld DEF Played
  <2> QED
    BY <1>1, <1>8, <2>1 DEF Played
<1>10. InWorld' /\ Len(world'.neighbours) \in Nat
  BY <1>1, WorldFacts DEF DilemmaInv, InWorld
<1>11. votes' \in Seq(T) /\ Len(votes') = 0
  BY <1>1
<1>12. round' \in Nat /\ round' <= world'.rounds /\ round' # 0
  BY <1>1, <1>6, WorldFacts DEF DilemmaInv
<1>13. last' = ledger'[round'].moves
  BY <1>1, <1>3, <1>6
<1> QED
  BY <1>1, <1>6, <1>9, <1>10, <1>11, <1>12, <1>13 DEF DilemmaInv

LEMMA DilemmaAlways == Spec => []DilemmaInv
<1>1. Init => DilemmaInv
  <2> SUFFICES ASSUME Init PROVE DilemmaInv
    OBVIOUS
  <2>1. InWorld /\ votes = << >> /\ round = 0 /\ last = None /\ ledger = << >>
    BY DEF Init, InWorld
  <2>2. << >> \in Seq({}) /\ Len(<< >>) = 0
    OBVIOUS
  <2> QED
    BY <2>1, <2>2, WorldFacts DEF DilemmaInv
<1>2. DilemmaInv /\ [Next]_vars => DilemmaInv'
  <2> SUFFICES ASSUME DilemmaInv, UNCHANGED vars PROVE DilemmaInv'
    BY VoteKeeps, ResolveKeeps DEF Next
  <2>1. UNCHANGED <<world, policies, round, last, ledger, votes>>
    BY DEF vars
  <2>2. \A a : VotesOf(a)' = VotesOf(a)
    BY <2>1, SameVotes
  <2>3. \A moves, r : Played(moves, r) <=> /\ DOMAIN moves = Agents'
          /\ \A a \in Agents' :
               /\ moves[a] \in [Addressees(a)' -> Moves]
               /\ \A b \in Addressees(a)' : moves[a][b] = "D" => <<a, b>> \in Reach'[r]
    BY <2>1, SameWorld DEF Played
  <2>4. \A k \in 1 .. round : Played(ledger[k].moves, k - 1)'
    BY <2>1, <2>3 DEF DilemmaInv, Played
  <2>5. InWorld'
    BY <2>1 DEF DilemmaInv, InWorld
  <2> QED
    BY <2>1, <2>2, <2>4, <2>5 DEF DilemmaInv
<1> QED
  BY <1>1, <1>2, PTL DEF Spec

-----------------------------------------------------------------------------
(* Sums *)

Summed(g, f, s) ==
  IF s = {} THEN 0 ELSE f[CHOOSE x \in s : TRUE] + g[s \ {CHOOSE x \in s : TRUE}]

(* The sum of f over S, as the folds define it *)
Total(f, S) == (CHOOSE g : g = [s \in SUBSET S |-> Summed(g, f, s)])[S]

LEMMA EarnedIsATotal ==
  ASSUME NEW a, NEW b
  PROVE  Earned(a, b) = Total([k \in DOMAIN ledger |->
                                 Game(ledger[k].moves[a][b], ledger[k].moves[b][a])],
                              DOMAIN ledger)
BY DEF Earned, FoldFunction, FoldFunctionOnSet, MapThenFoldSet, Total, Summed

LEMMA EdgeGamesAreATotal ==
  ASSUME NEW a
  PROVE  EdgeGames(a) = Total([b \in world.neighbours[a] |-> Game(votes[a][b], votes[b][a])],
                              world.neighbours[a])
<1> DEFINE S == world.neighbours[a]
           f == [b \in S |-> Game(votes[a][b], votes[b][a])]
           Body(g, s) ==
             IF s = {} THEN 0
             ELSE Game(votes[a][CHOOSE x \in s : TRUE], votes[CHOOSE x \in s : TRUE][a])
                  + g[s \ {CHOOSE x \in s : TRUE}]
<1>1. EdgeGames(a) = (CHOOSE g : g = [s \in SUBSET S |-> Body(g, s)])[S]
  BY DEF EdgeGames, MapThenSumSet, MapThenFoldSet
<1>2. \A s \in SUBSET S : s # {} => (CHOOSE x \in s : TRUE) \in S
  OBVIOUS
<1>3. \A g : \A s \in SUBSET S : Body(g, s) = Summed(g, f, s)
  BY <1>2 DEF Summed
<1> HIDE DEF f, Body
<1>4. \A g : [s \in SUBSET S |-> Body(g, s)] = [s \in SUBSET S |-> Summed(g, f, s)]
  BY <1>3
<1>5. \A g : g = [s \in SUBSET S |-> Body(g, s)] <=> g = [s \in SUBSET S |-> Summed(g, f, s)]
  BY <1>4
<1>6. (CHOOSE g : g = [s \in SUBSET S |-> Body(g, s)])
        = CHOOSE g : g = [s \in SUBSET S |-> Summed(g, f, s)]
  BY <1>5
<1>7. EdgeGames(a) = Total(f, S)
  BY <1>1, <1>6 DEF Total
<1> QED
  BY <1>7 DEF f

Taken(a) == MapThenSumSet(LAMBDA b : Earned(b, a), world.neighbours[a])

TakenTotals ==
  \A a : Taken(a) = Total([b \in world.neighbours[a] |-> Earned(b, a)], world.neighbours[a])

LEMMA TakenIsATotal == TakenTotals
<1> SUFFICES ASSUME NEW a
             PROVE  Taken(a) = Total([b \in world.neighbours[a] |-> Earned(b, a)],
                                     world.neighbours[a])
  BY DEF TakenTotals
<1> DEFINE S == world.neighbours[a]
           f == [b \in S |-> Earned(b, a)]
           Body(g, s) ==
             IF s = {} THEN 0
             ELSE Earned(CHOOSE x \in s : TRUE, a) + g[s \ {CHOOSE x \in s : TRUE}]
<1>1. Taken(a) = (CHOOSE g : g = [s \in SUBSET S |-> Body(g, s)])[S]
  BY DEF Taken, MapThenSumSet, MapThenFoldSet
<1>2. \A s \in SUBSET S : s # {} => (CHOOSE x \in s : TRUE) \in S
  OBVIOUS
<1>3. \A g : \A s \in SUBSET S : Body(g, s) = Summed(g, f, s)
  BY <1>2 DEF Summed
<1> HIDE DEF f, Body
<1>4. \A g : [s \in SUBSET S |-> Body(g, s)] = [s \in SUBSET S |-> Summed(g, f, s)]
  BY <1>3
<1>5. \A g : g = [s \in SUBSET S |-> Body(g, s)] <=> g = [s \in SUBSET S |-> Summed(g, f, s)]
  BY <1>4
<1>6. (CHOOSE g : g = [s \in SUBSET S |-> Body(g, s)])
        = CHOOSE g : g = [s \in SUBSET S |-> Summed(g, f, s)]
  BY <1>5
<1>7. Taken(a) = Total(f, S)
  BY <1>1, <1>6 DEF Total
<1> QED
  BY <1>7 DEF f

(* g sums f over the subsets of S, in whatever order *)
Sums(g, f, S) ==
  /\ g \in [SUBSET S -> Int] /\ g[{}] = 0
  /\ \A s \in SUBSET S : \A y \in s : g[s] = f[y] + g[s \ {y}]

LEMMA SizeOfRest ==
  ASSUME NEW s, IsFiniteSet(s), NEW x \in s
  PROVE  /\ IsFiniteSet(s \ {x}) /\ Cardinality(s) \in Nat \ {0}
         /\ Cardinality(s \ {x}) = Cardinality(s) - 1
<1>1. IsFiniteSet(s \ {x}) /\ Cardinality(s \ {x}) = Cardinality(s) - 1
  BY FS_RemoveElement
<1>2. Cardinality(s) \in Nat /\ Cardinality(s \ {x}) \in Nat
  BY <1>1, FS_CardinalityType
<1> QED
  BY <1>1, <1>2

(* The recursion of a fold has a solution. *)
LEMMA FoldUnfolds ==
  ASSUME NEW S, IsFiniteSet(S), NEW f \in [S -> Int]
  PROVE  \E g : g = [s \in SUBSET S |-> Summed(g, f, s)]
<1> DEFINE Small(n) == {s \in SUBSET S : Cardinality(s) <= n}
           Solved(g, n) == g = [s \in Small(n) |-> Summed(g, f, s)]
           T == {n \in Nat : ~ \E g : Solved(g, n)}
<1>0. \A s \in SUBSET S : IsFiniteSet(s) /\ Cardinality(s) \in Nat
  BY FS_Subset, FS_CardinalityType
<1>1. \A n \in Nat : \E g : Solved(g, n)
  <2> SUFFICES ASSUME T # {} PROVE FALSE
    OBVIOUS
  <2>1. PICK n \in T : \A m \in T : n <= m
    BY Least
  <2> SUFFICES \E h : Solved(h, n)
    BY <2>1
  <2>2. PICK g : n # 0 => Solved(g, n - 1)
    <3>1. CASE n = 0
      BY <3>1
    <3>2. CASE n # 0
      <4>1. n \in Nat /\ n - 1 \in Nat
        BY <2>1, <3>2
      <4>2. n - 1 \notin T
        <5> HIDE DEF T
        <5> QED
          BY <2>1, <4>1
      <4> QED
        BY <4>1, <4>2
    <3> QED
      BY <3>1, <3>2
  <2> DEFINE h == [s \in Small(n) |-> Summed(g, f, s)]
  <2>3. \A s \in Small(n) : Summed(h, f, s) = Summed(g, f, s)
    <3> SUFFICES ASSUME NEW s \in Small(n), s # {} PROVE Summed(h, f, s) = Summed(g, f, s)
      BY DEF Summed
    <3>1. PICK x \in s : x = CHOOSE y \in s : TRUE
      OBVIOUS
    <3> DEFINE r == s \ {x}
    <3>2. Cardinality(s) \in Nat \ {0} /\ Cardinality(r) = Cardinality(s) - 1
      BY <1>0, SizeOfRest
    <3>3. n # 0 /\ r \in Small(n - 1) /\ r \in Small(n)
      BY <2>1, <3>2
    <3>4. h[r] = Summed(g, f, r)
      BY <3>3
    <3>5. g[r] = Summed(g, f, r)
      <4>1. PICK k : k = g
        OBVIOUS
      <4>2. k = [t \in Small(n - 1) |-> Summed(k, f, t)]
        BY <2>2, <3>3, <4>1
      <4>3. k[r] = Summed(k, f, r)
        BY <3>3, <4>2
      <4> QED
        BY <4>1, <4>3
    <3> QED
      BY <3>1, <3>4, <3>5 DEF Summed
  <2>4. h = [s \in Small(n) |-> Summed(h, f, s)]
    <3> HIDE DEF h
    <3>1. [s \in Small(n) |-> Summed(h, f, s)] = [s \in Small(n) |-> Summed(g, f, s)]
      BY <2>3
    <3> QED
      BY <3>1 DEF h
  <2> QED
    BY <2>4
<1>2. Small(Cardinality(S)) = SUBSET S
  BY FS_Subset
<1>3. Cardinality(S) \in Nat
  BY <1>0
<1>4. PICK g : Solved(g, Cardinality(S))
  BY <1>1, <1>3
<1> QED
  BY <1>2, <1>4

(* Strong induction over the subsets of a finite set, U those it holds of *)
LEMMA SubsetInduction ==
  ASSUME NEW S, IsFiniteSet(S), NEW U,
         \A s \in SUBSET S :
           (\A t \in SUBSET S : Cardinality(t) < Cardinality(s) => t \in U) => s \in U
  PROVE  \A s \in SUBSET S : s \in U
<1> DEFINE T == {n \in Nat : \E s \in SUBSET S : s \notin U /\ Cardinality(s) = n}
<1>1. \A s \in SUBSET S : Cardinality(s) \in Nat
  BY FS_Subset, FS_CardinalityType
<1> SUFFICES ASSUME NEW r \in SUBSET S, r \notin U PROVE FALSE
  OBVIOUS
<1>2. Cardinality(r) \in T
  BY <1>1
<1>3. PICK n \in T : \A m \in T : n <= m
  BY <1>2, Least
<1>4. PICK s \in SUBSET S : s \notin U /\ Cardinality(s) = n
  BY <1>3
<1>5. PICK t \in SUBSET S : Cardinality(t) < Cardinality(s) /\ t \notin U
  BY <1>4
<1>6. Cardinality(t) \in T /\ Cardinality(t) \in Nat /\ n \in Nat
  BY <1>1, <1>3, <1>5
<1> HIDE DEF T
<1> QED
  BY <1>3, <1>4, <1>5, <1>6

LEMMA TotalSums ==
  ASSUME NEW S, IsFiniteSet(S), NEW f \in [S -> Int]
  PROVE  \E g : Sums(g, f, S) /\ Total(f, S) = g[S]
<1> DEFINE Solves(g) == g = [s \in SUBSET S |-> Summed(g, f, s)]
           g == CHOOSE h : Solves(h)
<1>1. Solves(g)
  BY FoldUnfolds
<1>2. Total(f, S) = g[S]
  BY DEF Total
<1> HIDE DEF g
<1>3. \A s \in SUBSET S : g[s] = Summed(g, f, s)
  <2>1. PICK h : h = g
    OBVIOUS
  <2>2. h = [s \in SUBSET S |-> Summed(h, f, s)]
    BY <1>1, <2>1
  <2>3. \A s \in SUBSET S : h[s] = Summed(h, f, s)
    BY <2>2
  <2> QED
    BY <2>1, <2>3
<1>4. g[{}] = 0
  BY <1>3 DEF Summed
<1>5. ASSUME NEW s \in SUBSET S, s # {}
      PROVE  \E x \in s : g[s] = f[x] + g[s \ {x}]
  <2>1. (CHOOSE x \in s : TRUE) \in s
    BY <1>5
  <2> QED
    BY <1>3, <1>5, <2>1 DEF Summed
<1>6. \A s \in SUBSET S : IsFiniteSet(s) /\ Cardinality(s) \in Nat
  BY FS_Subset, FS_CardinalityType
<1>7. ASSUME NEW s \in SUBSET S, NEW x \in s
      PROVE  s \ {x} \in SUBSET S /\ Cardinality(s \ {x}) < Cardinality(s)
  BY <1>6, <1>7, SizeOfRest
<1>8. \A s \in SUBSET S : g[s] \in Int
  <2> DEFINE U == {s \in SUBSET S : g[s] \in Int}
  <2>1. ASSUME NEW s \in SUBSET S,
               \A t \in SUBSET S : Cardinality(t) < Cardinality(s) => t \in U
        PROVE  s \in U
    <3>1. CASE s = {}
      BY <1>4, <3>1
    <3>2. CASE s # {}
      <4>1. PICK x \in s : g[s] = f[x] + g[s \ {x}]
        BY <1>5, <3>2
      <4>2. g[s \ {x}] \in Int
        BY <1>7, <2>1
      <4> QED
        BY <4>1, <4>2
    <3> QED
      BY <3>1, <3>2
  <2>2. \A s \in SUBSET S : s \in U
    <3> HIDE DEF U
    <3> QED
      BY <2>1, SubsetInduction
  <2> QED
    BY <2>2
<1>9. \A s \in SUBSET S : \A y \in s : g[s] = f[y] + g[s \ {y}]
  <2> DEFINE U == {s \in SUBSET S : \A y \in s : g[s] = f[y] + g[s \ {y}]}
  <2>1. ASSUME NEW s \in SUBSET S,
               \A t \in SUBSET S : Cardinality(t) < Cardinality(s) => t \in U
        PROVE  s \in U
    <3> SUFFICES ASSUME NEW y \in s PROVE g[s] = f[y] + g[s \ {y}]
      OBVIOUS
    <3>1. PICK x \in s : g[s] = f[x] + g[s \ {x}]
      BY <1>5
    <3>2. CASE x = y
      BY <3>1, <3>2
    <3>3. CASE x # y
      <4>1. s \ {x} \in U /\ s \ {y} \in U
        <5> HIDE DEF U
        <5> QED
          BY <1>7, <2>1
      <4>2. y \in s \ {x} /\ x \in s \ {y} /\ (s \ {x}) \ {y} = (s \ {y}) \ {x}
        BY <3>3
      <4>3. /\ g[s \ {x}] = f[y] + g[(s \ {x}) \ {y}]
            /\ g[s \ {y}] = f[x] + g[(s \ {x}) \ {y}]
        BY <4>1, <4>2
      <4>4. f[x] \in Int /\ f[y] \in Int /\ g[(s \ {x}) \ {y}] \in Int
        BY <1>8
      <4> QED
        BY <3>1, <4>3, <4>4
    <3> QED
      BY <3>2, <3>3
  <2>2. \A s \in SUBSET S : s \in U
    <3> HIDE DEF U
    <3> QED
      BY <2>1, SubsetInduction
  <2> QED
    BY <2>2
<1>10. g \in [SUBSET S -> Int]
  BY <1>1, <1>8
<1> QED
  BY <1>2, <1>4, <1>9, <1>10 DEF Sums

(* Sums are linear, *)
LEMMA SumsAddUp ==
  ASSUME NEW S, IsFiniteSet(S), NEW c \in Int,
         NEW f \in [S -> Int], NEW e \in [S -> Int], NEW d \in [S -> Int],
         \A x \in S : f[x] = e[x] + c * d[x],
         NEW g, NEW h, NEW k, Sums(g, f, S), Sums(h, e, S), Sums(k, d, S)
  PROVE  g[S] = h[S] + c * k[S]
<1> DEFINE U == {s \in SUBSET S : g[s] = h[s] + c * k[s]}
<1>1. ASSUME NEW s \in SUBSET S,
             \A t \in SUBSET S : Cardinality(t) < Cardinality(s) => t \in U
      PROVE  s \in U
  <2>1. CASE s = {}
    BY <2>1 DEF Sums
  <2>2. CASE s # {}
    <3>1. PICK x \in s : TRUE
      BY <2>2
    <3> DEFINE r == s \ {x}
    <3>2. r \in SUBSET S /\ Cardinality(r) < Cardinality(s)
      BY FS_Subset, SizeOfRest
    <3>3. g[r] = h[r] + c * k[r]
      BY <1>1, <3>2
    <3>4. /\ g[s] = f[x] + g[r] /\ h[s] = e[x] + h[r] /\ k[s] = d[x] + k[r]
          /\ g[r] \in Int /\ h[r] \in Int /\ k[r] \in Int
      BY <3>2 DEF Sums
    <3>5. f[x] = e[x] + c * d[x] /\ e[x] \in Int /\ d[x] \in Int
      OBVIOUS
    <3> HIDE DEF r
    <3>6. c * (d[x] + k[r]) = c * d[x] + c * k[r]
      BY <3>4, <3>5
    <3>7. c * d[x] \in Int /\ c * k[r] \in Int
      BY <3>4, <3>5
    <3> QED
      BY <3>3, <3>4, <3>5, <3>6, <3>7
  <2> QED
    BY <2>1, <2>2
<1>2. \A s \in SUBSET S : s \in U
  <2> HIDE DEF U
  <2> QED
    BY <1>1, SubsetInduction
<1> QED
  BY <1>2

LEMMA TotalsAddUp ==
  ASSUME NEW S, IsFiniteSet(S), NEW c \in Int,
         NEW f \in [S -> Int], NEW e \in [S -> Int], NEW d \in [S -> Int],
         \A x \in S : f[x] = e[x] + c * d[x]
  PROVE  Total(f, S) = Total(e, S) + c * Total(d, S)
<1>1. PICK g : Sums(g, f, S) /\ Total(f, S) = g[S]
  BY TotalSums
<1>2. PICK h : Sums(h, e, S) /\ Total(e, S) = h[S]
  BY TotalSums
<1>3. PICK k : Sums(k, d, S) /\ Total(d, S) = k[S]
  BY TotalSums
<1>4. Sums(g, f, S) /\ Sums(h, e, S) /\ Sums(k, d, S)
  BY <1>1, <1>2, <1>3
<1>5. g[S] = h[S] + c * k[S]
  BY <1>4, SumsAddUp
<1> QED
  BY <1>1, <1>2, <1>3, <1>5

LEMMA TotalIsANumber ==
  ASSUME NEW S, IsFiniteSet(S), NEW f \in [S -> Int]
  PROVE  Total(f, S) \in Int /\ (S = {} => Total(f, S) = 0)
<1>1. PICK g : Sums(g, f, S) /\ Total(f, S) = g[S]
  BY TotalSums
<1> QED
  BY <1>1 DEF Sums

(* count, *)
LEMMA TotalCounts ==
  ASSUME NEW S, IsFiniteSet(S), NEW f \in [S -> {0, 1}]
  PROVE  Total(f, S) = Cardinality({x \in S : f[x] = 1})
<1>1. PICK g : Sums(g, f, S) /\ Total(f, S) = g[S]
  <2>1. f \in [S -> Int]
    OBVIOUS
  <2> QED
    BY <2>1, TotalSums
<1> DEFINE Ones(s) == {x \in s : f[x] = 1}
           U == {s \in SUBSET S : g[s] = Cardinality(Ones(s))}
<1>2. ASSUME NEW s \in SUBSET S,
             \A t \in SUBSET S : Cardinality(t) < Cardinality(s) => t \in U
      PROVE  s \in U
  <2>1. CASE s = {}
    <3>1. Ones(s) = {}
      BY <2>1
    <3> QED
      BY <1>1, <2>1, <3>1, FS_EmptySet DEF Sums
  <2>2. CASE s # {}
    <3>1. PICK x \in s : TRUE
      BY <2>2
    <3> DEFINE r == s \ {x}
    <3>2. r \in SUBSET S /\ Cardinality(r) < Cardinality(s) /\ IsFiniteSet(s)
      BY FS_Subset, SizeOfRest
    <3>3. g[r] = Cardinality(Ones(r))
      BY <1>2, <3>2
    <3>4. g[s] = f[x] + g[r]
      BY <1>1 DEF Sums
    <3>5. IsFiniteSet(Ones(s)) /\ Cardinality(Ones(s)) \in Nat
      BY <3>2, FS_Subset, FS_CardinalityType
    <3>6. CASE f[x] = 1
      <4>1. x \in Ones(s) /\ Ones(r) = Ones(s) \ {x}
        BY <3>6
      <4> HIDE DEF Ones, r
      <4>2. PICK O : O = Ones(s)
        OBVIOUS
      <4>3. Cardinality(O \ {x}) = Cardinality(O) - 1
        BY <3>5, <4>1, <4>2, FS_RemoveElement
      <4>4. g[s] = Cardinality(Ones(s))
        BY <3>3, <3>4, <3>5, <3>6, <4>1, <4>2, <4>3
      <4> QED
        BY <4>4
    <3>7. CASE f[x] # 1
      <4>1. Ones(r) = Ones(s) /\ f[x] = 0
        BY <3>7
      <4> HIDE DEF Ones, r
      <4>2. g[s] = Cardinality(Ones(s))
        BY <3>3, <3>4, <3>5, <4>1
      <4> QED
        BY <4>2
    <3> QED
      BY <3>6, <3>7
  <2> QED
    BY <2>1, <2>2
<1>3. \A s \in SUBSET S : s \in U
  <2> HIDE DEF U
  <2> QED
    BY <1>2, SubsetInduction
<1> QED
  BY <1>1, <1>3

(* and grow with what they range over. *)
LEMMA TotalGrows ==
  ASSUME NEW n \in Nat, NEW f \in [1 .. n + 1 -> Int], NEW e \in [1 .. n -> Int],
         \A k \in 1 .. n : f[k] = e[k]
  PROVE  Total(f, 1 .. n + 1) = Total(e, 1 .. n) + f[n + 1]
<1> DEFINE S == 1 .. n
           R == 1 .. n + 1
<1>1. /\ IsFiniteSet(S) /\ IsFiniteSet(R) /\ S = R \ {n + 1} /\ n + 1 \in R
      /\ S \subseteq R /\ \A s \in SUBSET S : s \in SUBSET R
  <2>1. IsFiniteSet(1 .. n) /\ IsFiniteSet(1 .. n + 1)
    BY FS_Interval
  <2> QED
    BY <2>1
<1>2. PICK g : Sums(g, f, R) /\ Total(f, R) = g[R]
  BY <1>1, TotalSums
<1>3. PICK h : Sums(h, e, S) /\ Total(e, S) = h[S]
  BY <1>1, TotalSums
<1>4. \A x \in S : f[x] = e[x]
  OBVIOUS
<1>5. f[n + 1] \in Int
  OBVIOUS
<1> HIDE DEF S, R
<1> DEFINE U == {s \in SUBSET S : g[s] = h[s]}
<1>6. ASSUME NEW s \in SUBSET S,
             \A t \in SUBSET S : Cardinality(t) < Cardinality(s) => t \in U
      PROVE  s \in U
  <2>1. CASE s = {}
    BY <1>2, <1>3, <2>1 DEF Sums
  <2>2. CASE s # {}
    <3>1. PICK x \in s : TRUE
      BY <2>2
    <3>2. s \ {x} \in SUBSET S /\ Cardinality(s \ {x}) < Cardinality(s)
      BY <1>1, FS_Subset, SizeOfRest
    <3>3. g[s \ {x}] = h[s \ {x}]
      BY <1>6, <3>2
    <3>4. g[s] = f[x] + g[s \ {x}] /\ h[s] = e[x] + h[s \ {x}]
      BY <1>1, <1>2, <1>3 DEF Sums
    <3> QED
      BY <1>4, <3>3, <3>4
  <2> QED
    BY <2>1, <2>2
<1>7. \A s \in SUBSET S : s \in U
  <2>1. IsFiniteSet(S)
    BY <1>1
  <2> HIDE DEF U
  <2> QED
    BY <1>6, <2>1, SubsetInduction
<1>8. g[S] = h[S]
  BY <1>7
<1>9. g[S] \in Int /\ g[R] = f[n + 1] + g[S]
  BY <1>1, <1>2 DEF Sums
<1>10. Total(f, R) = Total(e, S) + f[n + 1]
  BY <1>2, <1>3, <1>5, <1>8, <1>9
<1> QED
  BY <1>10 DEF S, R

-----------------------------------------------------------------------------
(* Targeted tit-for-tat *)

Targeted(a) == policies[a].name = "tft_pairwise" /\ ~ policies[a].explores

(* The opponents of a that have defected last *)
Unpaid(a) == {b \in world.neighbours[a] : last # None /\ last[b][a] = "D"}

TftInv ==
  world.mode = "pairwise" =>
    \A a \in Agents : Targeted(a) =>
      /\ scores[a] \in Int
      /\ Divisor(a) * scores[a] = Scale * (Taken(a) - (Pay.T - Pay.S) * Cardinality(Unpaid(a)))

Owing(m) == IF m = "D" THEN 1 ELSE 0

(* One game, seen from both sides *)
LEMMA OneGame ==
  ASSUME NEW m \in Moves, NEW t \in Moves
  PROVE  /\ Game(m, t) \in Int
         /\ Game(m, t) = (Game(t, m) + (Pay.T - Pay.S) * Owing(m)) + (Pay.S - Pay.T) * Owing(t)
<1>1. Pay.T \in Int /\ Pay.R \in Int /\ Pay.P \in Int /\ Pay.S \in Int
  BY PayAssumption
<1>2. /\ m = "C" \/ (m = "D" /\ m # "C")
      /\ t = "C" \/ (t = "D" /\ t # "C")
  BY DEF Moves
<1> QED
  BY <1>1, <1>2 DEF Game, Owing

(* What a divided score loses to the division, it gets back. *)
LEMMA ScaledReward ==
  ASSUME InWorld, world.mode = "pairwise", NEW a \in Agents, EdgeGames(a) \in Int,
         world.neighbours[a] = {} => EdgeGames(a) = 0
  PROVE  Reward(a) \in Int /\ Divisor(a) \in Int /\ Divisor(a) * Reward(a) = Scale * EdgeGames(a)
<1> DEFINE d == Degree(a)
           e == EdgeGames(a)
<1>1. Scale \in Nat /\ e \in Int /\ world.mode # "neighbourhood"
  BY PayAssumption
<1>2. IsFiniteSet(world.neighbours[a]) /\ d \in Nat
  BY PeersAreNeighbours, FS_CardinalityType DEF Degree
<1>3. d > 0 => Scale % d = 0
  <2>1. PICK n : n = Len(world.neighbours)
    OBVIOUS
  <2>2. n \in Nat /\ Agents = 1 .. n /\ world.neighbours[a] \subseteq Agents \ {a}
    BY <2>1, WorldFacts
  <2>3. IsFiniteSet(Agents) /\ Cardinality(Agents) = n
    BY <2>2, FS_Interval
  <2>4. IsFiniteSet(Agents \ {a}) /\ Cardinality(Agents \ {a}) = n - 1
    BY <2>2, <2>3, FS_RemoveElement
  <2>5. d <= n - 1
    BY <2>2, <2>4, FS_Subset DEF Degree
  <2>6. \A i \in 1 .. Len(world.neighbours) - 1 : Scale % i = 0
    BY SettingsAssumption DEF InWorld
  <2> HIDE DEF d
  <2> QED
    BY <1>2, <2>1, <2>2, <2>5, <2>6
<1>4. d = 0 => e = 0
  BY <1>2, FS_EmptySet DEF Degree
<1>5. CASE world.aggregation = "mean" /\ d > 0
  <2>1. Reward(a) = (Scale \div d) * e /\ Divisor(a) = d
    BY <1>1, <1>5 DEF Reward, Divisor
  <2> HIDE DEF d, e
  <2>2. (Scale \div d) \in Int /\ d * (Scale \div d) = Scale
    BY <1>1, <1>2, <1>3, <1>5
  <2>3. PICK q \in Int : q = Scale \div d
    BY <2>2
  <2>4. d * (q * e) = (d * q) * e
    BY <1>1, <1>2
  <2>5. q * e \in Int
    BY <1>1
  <2> QED
    BY <1>2, <2>1, <2>2, <2>3, <2>4, <2>5 DEF e
<1>6. CASE ~ (world.aggregation = "mean" /\ d > 0)
  <2>1. Reward(a) = Scale * e
    BY <1>1, <1>6 DEF Reward
  <2>2. Divisor(a) = 1 \/ (Divisor(a) = 0 /\ e = 0)
    BY <1>2, <1>4, <1>6 DEF Divisor
  <2> HIDE DEF d, e
  <2>3. Scale * e \in Int
    BY <1>1
  <2>4. 1 * (Scale * e) = Scale * e /\ 0 * (Scale * e) = 0 /\ Scale * 0 = 0
    BY <1>1, <2>3
  <2> QED
    BY <1>1, <2>1, <2>2, <2>3, <2>4 DEF e
<1> QED
  BY <1>5, <1>6

(* What a round brings a and each of its opponents *)
GamesOf(a) == [b \in world.neighbours[a] |-> Game(votes[a][b], votes[b][a])]
Returns(a) == [b \in world.neighbours[a] |-> Game(votes[b][a], votes[a][b])]

(* A round in which a defects at those that have defected last *)
LEMMA ARoundOfGames ==
  ASSUME InWorld, world.mode = "pairwise", NEW a \in Agents,
         \A b \in world.neighbours[a] : /\ votes[a][b] \in Moves /\ votes[b][a] \in Moves
                                        /\ votes[a][b] = "D" <=> b \in Unpaid(a),
         NEW next, next = {b \in world.neighbours[a] : votes[b][a] = "D"}
  PROVE  /\ EdgeGames(a) \in Int /\ Total(Returns(a), world.neighbours[a]) \in Int
         /\ Cardinality(Unpaid(a)) \in Nat /\ Cardinality(next) \in Nat
         /\ world.neighbours[a] = {} => EdgeGames(a) = 0
         /\ EdgeGames(a) = Total(Returns(a), world.neighbours[a])
                           + (Pay.T - Pay.S) * Cardinality(Unpaid(a))
                           + (Pay.S - Pay.T) * Cardinality(next)
<1> DEFINE S == world.neighbours[a]
           f == GamesOf(a)
           e == Returns(a)
           old == [b \in S |-> Owing(votes[a][b])]
           new == [b \in S |-> Owing(votes[b][a])]
           h == [b \in S |-> e[b] + (Pay.T - Pay.S) * old[b]]
<1>1. IsFiniteSet(S)
  BY PeersAreNeighbours
<1>2. Pay.T - Pay.S \in Int /\ Pay.S - Pay.T \in Int
  BY PayAssumption
<1>3. old \in [S -> {0, 1}] /\ new \in [S -> {0, 1}] /\ old \in [S -> Int] /\ new \in [S -> Int]
  BY DEF Owing
<1>4. f \in [S -> Int] /\ e \in [S -> Int]
  BY OneGame DEF GamesOf, Returns
<1>5. h \in [S -> Int] /\ \A b \in S : h[b] = e[b] + (Pay.T - Pay.S) * old[b]
  <2>1. ASSUME NEW b \in S PROVE e[b] + (Pay.T - Pay.S) * old[b] \in Int
    <3>1. e[b] \in Int /\ old[b] \in Int
      BY <1>3, <1>4
    <3> HIDE DEF e, old
    <3> QED
      BY <1>2, <3>1
  <2> QED
    BY <2>1
<1>6. \A b \in S : f[b] = h[b] + (Pay.S - Pay.T) * new[b]
  BY OneGame DEF GamesOf, Returns
<1>7. Total(old, S) = Cardinality(Unpaid(a)) /\ Total(new, S) = Cardinality(next)
  <2>1. {b \in S : old[b] = 1} = Unpaid(a) /\ {b \in S : new[b] = 1} = next
    BY DEF Owing, Unpaid
  <2> HIDE DEF S, old, new
  <2>2. Total(old, S) = Cardinality({b \in S : old[b] = 1})
    BY <1>1, <1>3, TotalCounts
  <2>3. Total(new, S) = Cardinality({b \in S : new[b] = 1})
    BY <1>1, <1>3, TotalCounts
  <2> QED
    BY <2>1, <2>2, <2>3
<1>8. EdgeGames(a) = Total(f, S)
  BY EdgeGamesAreATotal DEF GamesOf
<1> HIDE DEF S, f, e, old, new, h
<1>9. Total(f, S) = Total(h, S) + (Pay.S - Pay.T) * Total(new, S)
  <2>1. PICK c \in Int : c = Pay.S - Pay.T
    BY <1>2
  <2>2. \A b \in S : f[b] = h[b] + c * new[b]
    BY <1>6, <2>1
  <2>3. Total(f, S) = Total(h, S) + c * Total(new, S)
    BY <1>1, <1>3, <1>4, <1>5, <2>2, TotalsAddUp
  <2> QED
    BY <2>1, <2>3
<1>10. Total(h, S) = Total(e, S) + (Pay.T - Pay.S) * Total(old, S)
  <2>1. PICK c \in Int : c = Pay.T - Pay.S
    BY <1>2
  <2>2. \A b \in S : h[b] = e[b] + c * old[b]
    BY <1>5, <2>1
  <2>3. h \in [S -> Int] /\ e \in [S -> Int] /\ old \in [S -> Int]
    BY <1>3, <1>4, <1>5
  <2>4. Total(h, S) = Total(e, S) + c * Total(old, S)
    BY <1>1, <2>2, <2>3, TotalsAddUp
  <2> QED
    BY <2>1, <2>4
<1>11. Total(f, S) \in Int /\ Total(e, S) \in Int /\ (S = {} => Total(f, S) = 0)
  BY <1>1, <1>4, TotalIsANumber
<1>12. Unpaid(a) \subseteq S /\ next \subseteq S
  BY DEF Unpaid, S
<1>13. Cardinality(Unpaid(a)) \in Nat /\ Cardinality(next) \in Nat
  BY <1>1, <1>12, FS_Subset, FS_CardinalityType
<1> QED
  BY <1>7, <1>8, <1>9, <1>10, <1>11, <1>13 DEF S, e

(* A recorded round adds to what the opponents have taken. *)
LEMMA TakenGrows ==
  ASSUME DilemmaInv, Resolve, world.mode = "pairwise", NEW a \in Agents
  PROVE  Taken(a) \in Int /\ Taken(a)' = Taken(a) + Total(Returns(a), world.neighbours[a])
<1> DEFINE S == world.neighbours[a]
           n == round
           e == Returns(a)
           was == [b \in S |-> Earned(b, a)]
           is == [b \in S |-> Earned(b, a)']
<1>1. /\ IsFiniteSet(S) /\ S \subseteq Agents /\ \A b \in S : a \in world.neighbours[b]
      /\ \A b \in Agents : Addressees(b) = world.neighbours[b]
  BY PeersAreNeighbours, WorldFacts DEF DilemmaInv, Addressees
<1>2. /\ n \in Nat /\ DilemmaInv' /\ world' = world /\ round' = n + 1
      /\ Len(ledger) = n /\ DOMAIN ledger = 1 .. n
  BY ResolveKeeps, LenProperties DEF DilemmaInv, Resolve
<1>3. /\ DOMAIN ledger' = 1 .. n + 1 /\ ledger'[n + 1].moves = votes
      /\ \A k \in 1 .. n : ledger'[k] = ledger[k]
  <2>1. PICK row : row = [moves |-> votes, cooperative |-> CooperativeVotes,
                          total |-> TotalVotes, rewards |-> [i \in Agents |-> Reward(i)]]
    OBVIOUS
  <2>2. ledger' = Append(ledger, row) /\ row.moves = votes
    BY <2>1 DEF Resolve
  <2>3. PICK T : ledger \in Seq(T)
    BY DEF DilemmaInv
  <2> DEFINE Q == T \cup {row}
  <2>4. ledger \in Seq(Q) /\ row \in Q
    BY <2>3, SeqMonotonic
  <2> HIDE DEF Q
  <2>5. ledger' \in Seq(Q) /\ Len(ledger') = n + 1
        /\ ledger'[n + 1] = row /\ \A k \in 1 .. n : ledger'[k] = ledger[k]
    BY <1>2, <2>2, <2>4, AppendProperties
  <2> QED
    BY <2>2, <2>5, LenProperties
<1>4. \A k \in 1 .. n + 1 : \A b \in S :
        ledger'[k].moves[a][b] \in Moves /\ ledger'[k].moves[b][a] \in Moves
  <2>1. \A k \in 1 .. n + 1 : Played(ledger[k].moves, k - 1)'
    BY <1>2 DEF DilemmaInv
  <2>2. Agents' = Agents /\ \A b \in Agents : Addressees(b)' = Addressees(b)
    BY SameWorld DEF Resolve
  <2>3. \A k \in 1 .. n + 1 : \A b \in Agents :
          ledger'[k].moves[b] \in [world.neighbours[b] -> Moves]
    BY <1>1, <2>1, <2>2 DEF Played
  <2> QED
    BY <1>1, <2>3
<1>5. ASSUME NEW b \in S
      PROVE  Earned(b, a) \in Int /\ Earned(b, a)' = Earned(b, a) + e[b]
  <2> DEFINE g == [k \in 1 .. n + 1 |-> Game(ledger'[k].moves[b][a], ledger'[k].moves[a][b])]
             h == [k \in 1 .. n |-> Game(ledger[k].moves[b][a], ledger[k].moves[a][b])]
  <2>1. g \in [1 .. n + 1 -> Int] /\ h \in [1 .. n -> Int] /\ \A k \in 1 .. n : g[k] = h[k]
    BY <1>2, <1>3, <1>4, OneGame
  <2>2. Earned(b, a) = Total(h, 1 .. n)
    BY <1>2, EarnedIsATotal
  <2>3. Earned(b, a)' = Total(g, 1 .. n + 1)
    <3>1. Earned(b, a)' = Total([k \in DOMAIN ledger' |->
                                   Game(ledger'[k].moves[b][a], ledger'[k].moves[a][b])],
                                DOMAIN ledger')
      BY DEF Earned, FoldFunction, FoldFunctionOnSet, MapThenFoldSet, Total, Summed
    <3> QED
      BY <1>3, <3>1
  <2>4. g[n + 1] = e[b]
    BY <1>2, <1>3 DEF Returns
  <2>5. n \in Nat
    BY <1>2
  <2> HIDE DEF g, h, e, n
  <2>6. Total(g, 1 .. n + 1) = Total(h, 1 .. n) + g[n + 1]
    BY <2>1, <2>5, TotalGrows
  <2>7. Total(h, 1 .. n) \in Int
    BY <2>1, <2>5, TotalIsANumber, FS_Interval
  <2> QED
    BY <2>2, <2>3, <2>4, <2>6, <2>7
<1>6. e \in [S -> Int]
  <2>1. \A b \in S : votes[a][b] \in Moves /\ votes[b][a] \in Moves
    BY <1>2, <1>3, <1>4
  <2> QED
    BY <2>1, OneGame DEF Returns
<1>7. was \in [S -> Int] /\ is \in [S -> Int] /\ \A b \in S : is[b] = was[b] + 1 * e[b]
  <2>1. ASSUME NEW b \in S PROVE Earned(b, a) + e[b] \in Int /\ e[b] = 1 * e[b]
    BY <1>5, <1>6
  <2> HIDE DEF e
  <2> QED
    BY <1>5, <2>1
<1>8. Taken(a) = Total(was, S)
  BY TakenIsATotal DEF TakenTotals
<1>9. Taken(a)' = Total(is, S)
  <2>1. TakenTotals'
    BY TakenIsATotal, PTL
  <2> QED
    BY <1>2, <2>1 DEF TakenTotals
<1> HIDE DEF S, e, was, is
<1>10. Total(is, S) = Total(was, S) + 1 * Total(e, S)
  BY <1>1, <1>6, <1>7, TotalsAddUp
<1>11. Total(was, S) \in Int /\ Total(e, S) \in Int
  BY <1>1, <1>6, <1>7, TotalIsANumber
<1> QED
  BY <1>8, <1>9, <1>10, <1>11 DEF S, e

(* Votes are no None. *)
LEMMA VotesAreVotes ==
  ASSUME InWorld, NEW moves, NEW r, Played(moves, r), moves = [a \in Agents |-> moves[a]]
  PROVE  moves # None
<1>1. PICK s \in Settings : world = s.world
  BY DEF InWorld
<1>2. \A a \in Agents : Addressees(a) \in SUBSET Agents
  BY WorldFacts DEF Addressees
<1>3. \A a \in Agents : moves[a] \in UNION {[B -> Moves] : B \in SUBSET Agents}
  BY <1>2 DEF Played
<1>4. moves \in [Agents -> UNION {[B -> Moves] : B \in SUBSET Agents}]
  BY <1>3
<1>5. None \notin [Agents -> UNION {[B -> Moves] : B \in SUBSET Agents}]
  BY <1>1, NoneAssumption DEF Agents
<1> QED
  BY <1>4, <1>5

LEMMA TftBegins == Init => TftInv
<1> SUFFICES ASSUME Init, NEW a \in Agents
             PROVE  /\ scores[a] \in Int
                    /\ Divisor(a) * scores[a]
                         = Scale * (Taken(a) - (Pay.T - Pay.S) * Cardinality(Unpaid(a)))
  BY DEF TftInv
<1> DEFINE S == world.neighbours[a]
<1>1. InWorld /\ last = None /\ ledger = << >> /\ scores[a] = 0
  BY DEF Init, InWorld
<1>2. IsFiniteSet(S) /\ Degree(a) \in Nat
  BY <1>1, PeersAreNeighbours, FS_CardinalityType DEF Degree
<1>3. ASSUME NEW b PROVE Earned(b, a) = 0
  <2>1. DOMAIN ledger = {}
    BY <1>1
  <2> DEFINE f == [k \in DOMAIN ledger |-> Game(ledger[k].moves[b][a], ledger[k].moves[a][b])]
  <2>2. Earned(b, a) = Total(f, {})
    BY <2>1, EarnedIsATotal
  <2>3. f \in [{} -> Int]
    BY <2>1
  <2> HIDE DEF f
  <2> QED
    BY <2>2, <2>3, FS_EmptySet, TotalIsANumber
<1> DEFINE z == [b \in S |-> Earned(b, a)]
<1>4. z \in [S -> {0, 1}] /\ {b \in S : z[b] = 1} = {}
  BY <1>3
<1>5. Taken(a) = Total(z, S)
  BY TakenIsATotal DEF TakenTotals
<1> HIDE DEF z, S
<1>6. Taken(a) = 0
  BY <1>2, <1>4, <1>5, TotalCounts, FS_EmptySet
<1>7. Cardinality(Unpaid(a)) = 0
  <2>1. Unpaid(a) = {}
    BY <1>1 DEF Unpaid
  <2> QED
    BY <2>1, FS_EmptySet
<1>8. Divisor(a) \in Int
  BY <1>2 DEF Divisor
<1>9. Pay.T - Pay.S \in Int /\ Scale \in Int
  BY PayAssumption
<1>10. PICK d, p, c \in Int : d = Divisor(a) /\ p = Pay.T - Pay.S /\ c = Scale
  BY <1>8, <1>9
<1>11. d * 0 = c * (0 - p * 0)
  BY <1>10
<1> QED
  BY <1>1, <1>6, <1>7, <1>10, <1>11

LEMMA TftWaits ==
  ASSUME UNCHANGED <<world, policies, last, scores, ledger>>, TftInv
  PROVE  TftInv'
<1>1. Agents' = Agents /\ world' = world /\ policies' = policies /\ scores' = scores
  BY SameWorld
<1>2. ASSUME NEW a \in Agents
      PROVE  /\ Divisor(a)' = Divisor(a) /\ Unpaid(a)' = Unpaid(a) /\ Taken(a)' = Taken(a)
             /\ Targeted(a)' = Targeted(a)
  <2>1. TakenTotals'
    BY TakenIsATotal, PTL
  <2>2. ASSUME NEW b PROVE Earned(b, a)' = Earned(b, a)
    <3>1. Earned(b, a)' = Total([k \in DOMAIN ledger' |->
                                   Game(ledger'[k].moves[b][a], ledger'[k].moves[a][b])],
                                DOMAIN ledger')
      BY DEF Earned, FoldFunction, FoldFunctionOnSet, MapThenFoldSet, Total, Summed
    <3> QED
      BY <3>1, EarnedIsATotal
  <2>3. Taken(a)' = Taken(a)
    BY <2>1, <2>2, TakenIsATotal DEF TakenTotals
  <2> QED
    BY <2>3 DEF Divisor, Degree, Unpaid, Targeted
<1> QED
  BY <1>1, <1>2 DEF TftInv

LEMMA TftResolves ==
  ASSUME DilemmaInv, Resolve, TftInv
  PROVE  TftInv'
<1>1. /\ InWorld /\ world' = world /\ policies' = policies /\ last' = votes
      /\ Agents' = Agents /\ scores' = [a \in Agents |-> scores[a] + Reward(a)]
  BY SameWorld DEF Resolve, DilemmaInv
<1> SUFFICES ASSUME world.mode = "pairwise", NEW a \in Agents, Targeted(a)
             PROVE  /\ scores'[a] \in Int
                    /\ Divisor(a)' * scores'[a]
                         = Scale * (Taken(a)' - (Pay.T - Pay.S) * Cardinality(Unpaid(a)'))
  BY <1>1 DEF TftInv, Targeted
<1> DEFINE S == world.neighbours[a]
           next == {b \in S : votes[b][a] = "D"}
<1>2. /\ S \subseteq Agents /\ \A b \in S : a \in world.neighbours[b]
      /\ \A b \in Agents : Addressees(b) = world.neighbours[b]
  BY <1>1, WorldFacts DEF Addressees
<1>3. Played(votes, round) /\ votes = [b \in Agents |-> votes[b]]
  <2>1. Played(votes, round)
    BY RoundPlayed
  <2>2. PICK T : votes \in Seq(T)
    BY DEF DilemmaInv
  <2>3. votes = [b \in DOMAIN votes |-> votes[b]]
    BY <2>2
  <2> QED
    BY <2>1, <2>3 DEF Played
<1>4. \A b \in S : votes[a][b] \in Moves /\ votes[b][a] \in Moves
  BY <1>2, <1>3 DEF Played
<1>5. ASSUME NEW b \in S PROVE votes[a][b] = "D" <=> b \in Unpaid(a)
  <2>1. votes[a] \in VotesOf(a)
    <3>1. a \in 1 .. Len(votes)
      BY WorldFacts, <1>1 DEF Resolve
    <3> QED
      BY <3>1 DEF DilemmaInv
  <2>2. votes[a][b] \in Mirrored(a, b)
    BY <1>2, <2>1 DEF VotesOf, Targeted, Explored
  <2> QED
    BY <2>2 DEF Mirrored, Against, Unpaid
<1>6. Unpaid(a)' = next
  <2>1. last' # None
    BY <1>1, <1>3, VotesAreVotes
  <2> QED
    BY <1>1, <2>1 DEF Unpaid
<1>7. /\ EdgeGames(a) \in Int /\ Total(Returns(a), S) \in Int
      /\ Cardinality(Unpaid(a)) \in Nat /\ Cardinality(next) \in Nat
      /\ S = {} => EdgeGames(a) = 0
      /\ EdgeGames(a) = Total(Returns(a), S) + (Pay.T - Pay.S) * Cardinality(Unpaid(a))
                        + (Pay.S - Pay.T) * Cardinality(next)
  BY <1>1, <1>4, <1>5, ARoundOfGames
<1>8. Taken(a) \in Int /\ Taken(a)' = Taken(a) + Total(Returns(a), S)
  BY TakenGrows
<1>9. Reward(a) \in Int /\ Divisor(a) \in Int /\ Divisor(a) * Reward(a) = Scale * EdgeGames(a)
  BY <1>1, <1>7, ScaledReward
<1>10. /\ scores[a] \in Int /\ scores'[a] = scores[a] + Reward(a)
       /\ Divisor(a) * scores[a] = Scale * (Taken(a) - (Pay.T - Pay.S) * Cardinality(Unpaid(a)))
  BY <1>1 DEF TftInv
<1>11. Divisor(a)' = Divisor(a)
  BY <1>1 DEF Divisor, Degree
<1>12. Pay.T \in Int /\ Pay.S \in Int /\ Scale \in Int
  BY PayAssumption
<1> HIDE DEF S, next
<1>13. PICK D, s, w, c, k, r, g, p, u, n :
         /\ D = Divisor(a) /\ s = scores[a] /\ w = Reward(a) /\ c = Scale /\ k = Taken(a)
         /\ r = Total(Returns(a), S) /\ g = EdgeGames(a) /\ p = Pay.T - Pay.S
         /\ u = Cardinality(Unpaid(a)) /\ n = Cardinality(next)
         /\ D \in Int /\ s \in Int /\ w \in Int /\ c \in Int /\ k \in Int
         /\ r \in Int /\ g \in Int /\ p \in Int /\ u \in Int /\ n \in Int
  BY <1>7, <1>8, <1>9, <1>10, <1>12
<1>14. Pay.S - Pay.T = 0 - p
  BY <1>12, <1>13
<1>15. /\ D * s = c * (k - p * u) /\ D * w = c * g /\ g = (r + p * u) + (0 - p) * n
  BY <1>7, <1>9, <1>10, <1>13, <1>14
<1>16. D * (s + w) = c * ((k + r) - p * n)
  <2>1. D * (s + w) = D * s + D * w
    BY <1>13
  <2>2. PICK x, y \in Int : x = p * u /\ y = p * n
    BY <1>13
  <2>3. (0 - p) * n = 0 - y
    BY <1>13, <2>2
  <2>4. c * (k - x) + c * g = c * ((k - x) + g)
    BY <1>13, <2>2
  <2>5. (k - x) + g = (k + r) - y
    BY <1>13, <1>15, <2>2, <2>3
  <2> QED
    BY <1>15, <2>1, <2>2, <2>4, <2>5
<1> QED
  BY <1>6, <1>8, <1>10, <1>11, <1>13, <1>16

LEMMA TftAlways == Spec => []TftInv
<1>1. DilemmaInv /\ TftInv /\ [Next]_vars => TftInv'
  <2> SUFFICES ASSUME DilemmaInv, TftInv, [Next]_vars PROVE TftInv'
    OBVIOUS
  <2>1. CASE Resolve
    BY <2>1, TftResolves
  <2>2. CASE Vote \/ UNCHANGED vars
    <3>1. UNCHANGED <<world, policies, last, scores, ledger>>
      BY <2>2 DEF Vote, vars
    <3> QED
      BY <3>1, TftWaits
  <2> QED
    BY <2>1, <2>2 DEF Next
<1> QED
  BY <1>1, TftBegins, DilemmaAlways, PTL DEF Spec

-----------------------------------------------------------------------------
(* Counting pairs *)

(* Sets in bijection have the same size. *)
LEMMA SameSize ==
  ASSUME NEW S, IsFiniteSet(S), NEW T, NEW f \in [S -> T],
         \A x \in S : \A y \in S : f[x] = f[y] => x = y,
         \A z \in T : \E x \in S : f[x] = z
  PROVE  IsFiniteSet(T) /\ Cardinality(T) = Cardinality(S)
<1>1. f \in Bijection(S, T)
  BY DEF Bijection, Injection, Surjection, IsInjective
<1> QED
  BY <1>1, FS_Bijection DEF ExistsBijection

(* The pairs of what s and F relate *)
PairsOf(F, s) == UNION {{<<a, b>> : b \in F[a]} : a \in s}

(* the same, told of a set of pairs *)
LEMMA ArePairs ==
  ASSUME NEW S, NEW F, NEW T, NEW P,
         \A a \in S : F[a] \subseteq T,
         P = {e \in S \X T : e[2] \in F[e[1]]}
  PROVE  P = PairsOf(F, S)
<1>1. ASSUME NEW e \in P PROVE e \in PairsOf(F, S)
  <2>1. e[1] \in S /\ e[2] \in F[e[1]] /\ e = <<e[1], e[2]>>
    OBVIOUS
  <2> QED
    BY <2>1 DEF PairsOf
<1>2. ASSUME NEW e \in PairsOf(F, S) PROVE e \in P
  <2>1. PICK a \in S : \E b \in F[a] : e = <<a, b>>
    BY DEF PairsOf
  <2> QED
    BY <2>1
<1> QED
  BY <1>1, <1>2

(* Pairs are counted row by row, *)
LEMMA PairsAddUp ==
  ASSUME NEW S, IsFiniteSet(S), NEW F, \A a \in S : IsFiniteSet(F[a])
  PROVE  /\ IsFiniteSet(PairsOf(F, S))
         /\ Cardinality(PairsOf(F, S)) = Total([a \in S |-> Cardinality(F[a])], S)
<1> DEFINE f == [a \in S |-> Cardinality(F[a])]
<1>0. f \in [S -> Int]
  BY FS_CardinalityType
<1>1. PICK g : Sums(g, f, S) /\ Total(f, S) = g[S]
  BY <1>0, TotalSums
<1> DEFINE Fits(s) == IsFiniteSet(PairsOf(F, s)) /\ Cardinality(PairsOf(F, s)) = g[s]
           U == {s \in SUBSET S : Fits(s)}
<1>2. ASSUME NEW s \in SUBSET S,
             \A t \in SUBSET S : Cardinality(t) < Cardinality(s) => t \in U
      PROVE  s \in U
  <2>1. CASE s = {}
    <3>1. PairsOf(F, s) = {}
      BY <2>1 DEF PairsOf
    <3> QED
      BY <1>1, <2>1, <3>1, FS_EmptySet DEF Sums
  <2>2. CASE s # {}
    <3>1. PICK x \in s : TRUE
      BY <2>2
    <3> DEFINE r == s \ {x}
               row == {<<x, b>> : b \in F[x]}
    <3>2. r \in SUBSET S /\ Cardinality(r) < Cardinality(s) /\ IsFiniteSet(s)
      BY FS_Subset, SizeOfRest
    <3>3. Fits(r)
      BY <1>2, <3>2
    <3>4. g[s] = f[x] + g[r] /\ g[r] \in Int
      BY <1>1, <3>2 DEF Sums
    <3>5. IsFiniteSet(row) /\ Cardinality(row) = Cardinality(F[x]) /\ Cardinality(row) \in Int
      <4> DEFINE h == [b \in F[x] |-> <<x, b>>]
      <4>1. h \in [F[x] -> row]
        OBVIOUS
      <4>2. /\ \A b \in F[x] : \A c \in F[x] : h[b] = h[c] => b = c
            /\ \A z \in row : \E b \in F[x] : h[b] = z
        OBVIOUS
      <4> HIDE DEF h, row
      <4> QED
        BY <4>1, <4>2, SameSize, FS_CardinalityType
    <3>6. PairsOf(F, s) = PairsOf(F, r) \cup row /\ PairsOf(F, r) \cap row = {}
      BY DEF PairsOf
    <3>7. Cardinality(PairsOf(F, r) \cap row) = 0
      BY <3>6, FS_EmptySet
    <3> HIDE DEF row, r
    <3>8. /\ IsFiniteSet(PairsOf(F, s))
          /\ Cardinality(PairsOf(F, s)) = Cardinality(PairsOf(F, r)) + Cardinality(row) - 0
      BY <3>3, <3>5, <3>6, <3>7, FS_Union
    <3>9. f[x] = Cardinality(row)
      BY <3>5
    <3> HIDE DEF f
    <3>10. Cardinality(PairsOf(F, s)) = g[s]
      BY <3>3, <3>4, <3>5, <3>8, <3>9
    <3> QED
      BY <3>8, <3>10
  <2> QED
    BY <2>1, <2>2
<1>3. \A s \in SUBSET S : s \in U
  <2> HIDE DEF U
  <2> QED
    BY <1>2, SubsetInduction
<1> QED
  BY <1>1, <1>3

(* and equal rows by their number. *)
LEMMA EqualRows ==
  ASSUME NEW S, IsFiniteSet(S), NEW c \in Int, NEW f \in [S -> Int], \A a \in S : f[a] = c
  PROVE  Total(f, S) = Cardinality(S) * c
<1>1. PICK g : Sums(g, f, S) /\ Total(f, S) = g[S]
  BY TotalSums
<1> DEFINE U == {s \in SUBSET S : g[s] = Cardinality(s) * c}
<1>2. ASSUME NEW s \in SUBSET S,
             \A t \in SUBSET S : Cardinality(t) < Cardinality(s) => t \in U
      PROVE  s \in U
  <2>1. CASE s = {}
    BY <1>1, <2>1, FS_EmptySet DEF Sums
  <2>2. CASE s # {}
    <3>1. PICK x \in s : TRUE
      BY <2>2
    <3> DEFINE r == s \ {x}
    <3>2. /\ r \in SUBSET S /\ Cardinality(r) < Cardinality(s)
          /\ Cardinality(s) \in Nat /\ Cardinality(r) = Cardinality(s) - 1
      BY FS_Subset, SizeOfRest
    <3>3. g[r] = Cardinality(r) * c
      BY <1>2, <3>2
    <3>4. g[s] = c + g[r]
      BY <1>1 DEF Sums
    <3> HIDE DEF r
    <3>5. \A n \in Nat : n * c = c + (n - 1) * c
      OBVIOUS
    <3>6. g[s] = Cardinality(s) * c
      BY <3>2, <3>3, <3>4, <3>5
    <3> QED
      BY <3>6
  <2> QED
    BY <2>1, <2>2
<1>3. \A s \in SUBSET S : s \in U
  <2> HIDE DEF U
  <2> QED
    BY <1>2, SubsetInduction
<1> QED
  BY <1>1, <1>3

-----------------------------------------------------------------------------
(* The votes of a round *)

CooperatingAt(a) == {b \in Addressees(a) : votes[a][b] = "C"}

(* The engine's two totals of a round, as sums *)
LEMMA CooperativeVotesAreATotal ==
  ASSUME world.mode = "pairwise"
  PROVE  CooperativeVotes = Total([a \in Agents |-> Cardinality(CooperatingAt(a))], Agents)
<1> DEFINE S == Agents
           f == [a \in S |-> Cardinality(CooperatingAt(a))]
           Body(g, s) ==
             IF s = {} THEN 0
             ELSE Cardinality(CooperatingAt(CHOOSE x \in s : TRUE)) + g[s \ {CHOOSE x \in s : TRUE}]
<1>1. CooperativeVotes = (CHOOSE g : g = [s \in SUBSET S |-> Body(g, s)])[S]
  BY DEF CooperativeVotes, MapThenSumSet, MapThenFoldSet, CooperatingAt
<1>2. \A s \in SUBSET S : s # {} => (CHOOSE x \in s : TRUE) \in S
  OBVIOUS
<1>3. \A g : \A s \in SUBSET S : Body(g, s) = Summed(g, f, s)
  BY <1>2 DEF Summed
<1> HIDE DEF f, Body
<1>4. \A g : [s \in SUBSET S |-> Body(g, s)] = [s \in SUBSET S |-> Summed(g, f, s)]
  BY <1>3
<1>5. \A g : g = [s \in SUBSET S |-> Body(g, s)] <=> g = [s \in SUBSET S |-> Summed(g, f, s)]
  BY <1>4
<1>6. (CHOOSE g : g = [s \in SUBSET S |-> Body(g, s)])
        = CHOOSE g : g = [s \in SUBSET S |-> Summed(g, f, s)]
  BY <1>5
<1>7. CooperativeVotes = Total(f, S)
  BY <1>1, <1>6 DEF Total
<1> QED
  BY <1>7 DEF f

LEMMA DegreesAreATotal ==
  ASSUME world.mode # "neighbourhood", world.kind # "nipd"
  PROVE  TotalVotes = Total([a \in Agents |-> Degree(a)], Agents)
<1> DEFINE S == Agents
           f == [a \in S |-> Degree(a)]
           Body(g, s) ==
             IF s = {} THEN 0
             ELSE Degree(CHOOSE x \in s : TRUE) + g[s \ {CHOOSE x \in s : TRUE}]
<1>1. TotalVotes = (CHOOSE g : g = [s \in SUBSET S |-> Body(g, s)])[S]
  BY DEF TotalVotes, MapThenSumSet, MapThenFoldSet
<1>2. \A s \in SUBSET S : s # {} => (CHOOSE x \in s : TRUE) \in S
  OBVIOUS
<1>3. \A g : \A s \in SUBSET S : Body(g, s) = Summed(g, f, s)
  BY <1>2 DEF Summed
<1> HIDE DEF f, Body
<1>4. \A g : [s \in SUBSET S |-> Body(g, s)] = [s \in SUBSET S |-> Summed(g, f, s)]
  BY <1>3
<1>5. \A g : g = [s \in SUBSET S |-> Body(g, s)] <=> g = [s \in SUBSET S |-> Summed(g, f, s)]
  BY <1>4
<1>6. (CHOOSE g : g = [s \in SUBSET S |-> Body(g, s)])
        = CHOOSE g : g = [s \in SUBSET S |-> Summed(g, f, s)]
  BY <1>5
<1>7. TotalVotes = Total(f, S)
  BY <1>1, <1>6 DEF Total
<1> QED
  BY <1>7 DEF f

(* What Recounted says of a round's votes and totals *)
Agree(moves, cooperative, total) ==
  /\ total = Cardinality(Counted) /\ total > 0
  /\ cooperative = Cardinality({e \in Counted : moves[e[1]][e[2]] = "C"})
  /\ \A e \in Counted : world.neighbours[e[1]] # {}

(* Every world has somebody to play with. *)
LEMMA AnEdge ==
  ASSUME InWorld
  PROVE  \E a \in Agents : \E b \in Agents : a # b /\ b \in world.neighbours[a]
<1>1. PICK s \in Settings : world = s.world /\ policies = s.policies
  BY DEF InWorld
<1>2. ValidWorld(world)
  BY <1>1, SettingsAssumption
<1> QED
  BY <1>2 DEF ValidWorld, Agents

(* The engine counts what the metric recounts. *)
LEMMA TotalsAgree ==
  ASSUME DilemmaInv, Resolve
  PROVE  Agree(votes, CooperativeVotes, TotalVotes)
<1>1. InWorld /\ Played(votes, round)
  BY RoundPlayed DEF DilemmaInv
<1> DEFINE n == Len(world.neighbours)
<1>2. /\ Agents = 1 .. n /\ n \in Nat /\ IsFiniteSet(Agents) /\ Cardinality(Agents) = n
      /\ \A a \in Agents : IsFiniteSet(world.neighbours[a]) /\ Degree(a) \in Nat
      /\ \A a \in Agents : /\ world.neighbours[a] \subseteq Agents \ {a}
                            /\ world.kind = "nipd" => world.neighbours[a] = Agents \ {a}
  <2>1. /\ Agents = 1 .. n /\ n \in Nat
        /\ \A c \in Agents : /\ world.neighbours[c] \subseteq Agents \ {c}
                              /\ world.kind = "nipd" => world.neighbours[c] = Agents \ {c}
    BY <1>1, WorldFacts
  <2>2. IsFiniteSet(1 .. n) /\ Cardinality(1 .. n) = n
    BY <2>1, FS_Interval
  <2>3. \A c \in Agents : IsFiniteSet(world.neighbours[c]) /\ Degree(c) \in Nat
    BY <1>1, PeersAreNeighbours, FS_CardinalityType DEF Degree
  <2> HIDE DEF n
  <2> QED
    BY <2>1, <2>2, <2>3
<1>3. PICK a \in Agents : \E b \in Agents : a # b /\ b \in world.neighbours[a]
  BY <1>1, AnEdge
<1>6. \A c \in Agents : \A b \in world.neighbours[c] : b \in Agents
  <2>1. \A c \in Agents : world.neighbours[c] \subseteq Agents \ {c}
    BY <1>1, WorldFacts
  <2> QED
    BY <2>1
<1>4. CASE world.mode = "pairwise"
  <2> DEFINE F == [c \in Agents |-> world.neighbours[c]]
             G == [c \in Agents |-> CooperatingAt(c)]
  <2>1. Counted = PairsOf(F, Agents)
    <3>0. \A c \in Agents : F[c] = world.neighbours[c]
      OBVIOUS
    <3> HIDE DEF F, n
    <3>1. \A c \in Agents : F[c] \subseteq Agents
      BY <1>6, <3>0
    <3>2. Counted = {e \in Agents \X Agents : e[2] \in world.neighbours[e[1]]}
      BY <1>4 DEF Counted
    <3>3. \A e \in Agents \X Agents : F[e[1]] = world.neighbours[e[1]]
      BY <3>0
    <3>4. Counted = {e \in Agents \X Agents : e[2] \in F[e[1]]}
      BY <3>2, <3>3
    <3> QED
      BY <3>1, <3>4, ArePairs
  <2>2. {e \in Counted : votes[e[1]][e[2]] = "C"} = PairsOf(G, Agents)
    <3>0. \A c \in Agents : G[c] = {b \in world.neighbours[c] : votes[c][b] = "C"}
      BY <1>4 DEF CooperatingAt, Addressees
    <3> HIDE DEF G, n
    <3>1. \A c \in Agents : G[c] \subseteq Agents
      BY <1>6, <3>0
    <3>2. Counted = {e \in Agents \X Agents : e[2] \in world.neighbours[e[1]]}
      BY <1>4 DEF Counted
    <3>3. \A e \in Agents \X Agents :
            e[2] \in G[e[1]] <=> e[2] \in world.neighbours[e[1]] /\ votes[e[1]][e[2]] = "C"
      <4> SUFFICES ASSUME NEW c \in Agents, NEW d \in Agents
                   PROVE  d \in G[c] <=> d \in world.neighbours[c] /\ votes[c][d] = "C"
        OBVIOUS
      <4> QED
        BY <3>0
    <3> DEFINE T == {e \in Counted : votes[e[1]][e[2]] = "C"}
    <3>4. T = {e \in Agents \X Agents : e[2] \in G[e[1]]}
      BY <3>2, <3>3
    <3> HIDE DEF F, T
    <3>5. T = PairsOf(G, Agents)
      BY <3>1, <3>4, ArePairs
    <3> QED
      BY <3>5 DEF T
  <2>3. \A c \in Agents : IsFiniteSet(F[c]) /\ IsFiniteSet(G[c])
    <3> SUFFICES ASSUME NEW c \in Agents PROVE IsFiniteSet(G[c])
      BY <1>2
    <3>1. G[c] \subseteq world.neighbours[c]
      BY <1>4 DEF CooperatingAt, Addressees
    <3> QED
      BY <1>2, <3>1, FS_Subset
  <2>4. /\ [c \in Agents |-> Cardinality(F[c])] = [c \in Agents |-> Degree(c)]
        /\ [c \in Agents |-> Cardinality(G[c])] = [c \in Agents |-> Cardinality(CooperatingAt(c))]
    BY DEF Degree
  <2> HIDE DEF F, G
  <2>5. /\ IsFiniteSet(Counted)
        /\ Cardinality(Counted) = Total([c \in Agents |-> Degree(c)], Agents)
    <3>1. /\ IsFiniteSet(PairsOf(F, Agents))
          /\ Cardinality(PairsOf(F, Agents)) = Total([c \in Agents |-> Cardinality(F[c])], Agents)
      BY <1>2, <2>3, PairsAddUp
    <3> QED
      BY <2>1, <2>4, <3>1
  <2>6. Cardinality({e \in Counted : votes[e[1]][e[2]] = "C"}) = CooperativeVotes
    <3>1. Cardinality(PairsOf(G, Agents)) = Total([c \in Agents |-> Cardinality(G[c])], Agents)
      BY <1>2, <2>3, PairsAddUp
    <3>2. CooperativeVotes = Total([c \in Agents |-> Cardinality(CooperatingAt(c))], Agents)
      BY <1>4, CooperativeVotesAreATotal
    <3>3. Cardinality(PairsOf(G, Agents)) = CooperativeVotes
      BY <2>4, <3>1, <3>2
    <3> QED
      BY <2>2, <3>3
  <2>7. TotalVotes = Total([c \in Agents |-> Degree(c)], Agents)
    <3>1. CASE world.kind = "nipd"
      <4>1. ASSUME NEW c \in Agents PROVE Degree(c) = n - 1
        <5>1. world.neighbours[c] = Agents \ {c}
          BY <1>1, <3>1, WorldFacts
        <5>2. Cardinality(Agents \ {c}) = Cardinality(Agents) - 1
          BY <1>2, FS_RemoveElement
        <5> QED
          BY <1>2, <5>1, <5>2 DEF Degree
      <4>2. [c \in Agents |-> Degree(c)] \in [Agents -> Int] /\ n - 1 \in Int
        BY <1>2
      <4>3. Total([c \in Agents |-> Degree(c)], Agents) = n * (n - 1)
        <5> DEFINE f == [c \in Agents |-> Degree(c)]
        <5>1. f \in [Agents -> Int] /\ \A c \in Agents : f[c] = n - 1
          BY <4>1, <4>2
        <5> HIDE DEF f
        <5>2. Total(f, Agents) = Cardinality(Agents) * (n - 1)
          BY <1>2, <4>2, <5>1, EqualRows
        <5> QED
          BY <1>2, <5>2 DEF f
      <4> QED
        BY <1>4, <3>1, <4>3 DEF TotalVotes
    <3>2. CASE world.kind # "nipd"
      <4>1. world.mode # "neighbourhood"
        BY <1>4
      <4> QED
        BY <3>2, <4>1, DegreesAreATotal
    <3> QED
      BY <3>1, <3>2
  <2>8. Cardinality(Counted) # 0 /\ Cardinality(Counted) \in Nat
    <3>1. PICK b \in Agents : b \in world.neighbours[a]
      BY <1>3
    <3>2. <<a, b>> \in Counted
      BY <1>4, <3>1 DEF Counted
    <3> QED
      BY <2>5, <3>2, FS_EmptySet, FS_CardinalityType
  <2>9. \A e \in Counted : world.neighbours[e[1]] # {}
    BY <1>4 DEF Counted
  <2> QED
    BY <2>5, <2>6, <2>7, <2>8, <2>9 DEF Agree
<1>5. CASE world.mode # "pairwise"
  <2>0. world.mode = "neighbourhood"
    BY <1>1, <1>5, WorldFacts
  <2>1. Counted = {<<c, c>> : c \in Active} /\ Active \subseteq Agents
    BY <1>5 DEF Counted, Active
  <2>2. IsFiniteSet(Active)
    BY <1>2, <2>1, FS_Subset
  <2> DEFINE Cs == {c \in Active : votes[c][c] = "C"}
             f == [c \in Active |-> <<c, c>>]
             h == [c \in Cs |-> <<c, c>>]
  <2>3. IsFiniteSet(Counted) /\ Cardinality(Counted) = Cardinality(Active)
    <3>1. /\ f \in [Active -> Counted]
          /\ \A x \in Active : \A y \in Active : f[x] = f[y] => x = y
          /\ \A z \in Counted : \E x \in Active : f[x] = z
      BY <2>1
    <3> HIDE DEF f
    <3> QED
      BY <2>2, <3>1, SameSize
  <2>4. Cardinality({e \in Counted : votes[e[1]][e[2]] = "C"}) = Cardinality(Cs)
    <3> DEFINE T == {e \in Counted : votes[e[1]][e[2]] = "C"}
    <3>1. /\ h \in [Cs -> T]
          /\ \A x \in Cs : \A y \in Cs : h[x] = h[y] => x = y
          /\ \A z \in T : \E x \in Cs : h[x] = z
      BY <2>1
    <3>2. IsFiniteSet(Cs)
      BY <2>2, FS_Subset
    <3> HIDE DEF h, T, Cs
    <3>3. Cardinality(T) = Cardinality(Cs)
      BY <3>1, <3>2, SameSize
    <3> QED
      BY <3>3 DEF T
  <2>5. Active # {} /\ \A c \in Active : world.neighbours[c] # {}
    <3>1. a \in Active
      <4>1. Degree(a) # 0
        BY <1>2, <1>3, FS_EmptySet DEF Degree
      <4> QED
        BY <1>2, <4>1 DEF Active
    <3>2. ASSUME NEW c \in Active PROVE world.neighbours[c] # {}
      <4>1. CASE world.kind = "nipd"
        BY <1>2, <1>3, <2>1, <4>1
      <4>2. CASE world.kind # "nipd"
        BY <4>2, FS_EmptySet DEF Active, Degree
      <4> QED
        BY <4>1, <4>2
    <3> QED
      BY <3>1, <3>2
  <2>6. Cardinality(Active) \in Nat /\ Cardinality(Active) # 0
    BY <2>2, <2>5, FS_EmptySet, FS_CardinalityType
  <2>7. \A e \in Counted : world.neighbours[e[1]] # {}
    BY <2>1, <2>5
  <2> QED
    BY <2>0, <2>3, <2>4, <2>6, <2>7 DEF Agree, CooperativeVotes, TotalVotes
<1> QED
  BY <1>4, <1>5

CountInv == \A k \in 1 .. round : Recounted(k)

(* A recorded round stays, and the next one is added. *)
LEMMA RoundsAreRecorded ==
  ASSUME DilemmaInv, Resolve
  PROVE  /\ round' = round + 1 /\ round \in Nat
         /\ \A k \in 1 .. round : ledger'[k] = ledger[k]
         /\ ledger'[round + 1].moves = votes
         /\ ledger'[round + 1].cooperative = CooperativeVotes
         /\ ledger'[round + 1].total = TotalVotes
<1>1. PICK row : row = [moves |-> votes, cooperative |-> CooperativeVotes, total |-> TotalVotes,
                        rewards |-> [a \in Agents |-> Reward(a)]]
  OBVIOUS
<1>2. ledger' = Append(ledger, row) /\ round' = round + 1
  BY <1>1 DEF Resolve
<1>3. PICK S : ledger \in Seq(S)
  BY DEF DilemmaInv
<1> DEFINE T == S \cup {row}
<1>4. ledger \in Seq(T) /\ row \in T
  BY <1>3, SeqMonotonic
<1> HIDE DEF T
<1>5. /\ Len(ledger) = round /\ round \in Nat /\ ledger'[round + 1] = row
      /\ \A k \in 1 .. round : ledger'[k] = ledger[k]
  BY <1>2, <1>4, AppendProperties, LenProperties DEF DilemmaInv
<1> QED
  BY <1>1, <1>2, <1>5

(* Every recorded round was counted so. *)
LEMMA CountAlways == Spec => []CountInv
<1>1. Init => CountInv
  BY DEF CountInv, Init
<1>2. DilemmaInv /\ CountInv /\ [Next]_vars => CountInv'
  <2> SUFFICES ASSUME DilemmaInv, CountInv, [Next]_vars PROVE CountInv'
    OBVIOUS
  <2>1. CASE UNCHANGED vars
    <3>1. UNCHANGED <<world, policies, ledger, round>>
      BY <2>1 DEF vars
    <3>2. Counted' = Counted
      BY <3>1 DEF Counted, Agents, Active, Degree
    <3> QED
      BY <3>1, <3>2 DEF CountInv, Recounted
  <2>2. CASE Vote
    <3>1. UNCHANGED <<world, policies, ledger, round>>
      BY <2>2 DEF Vote
    <3>2. Counted' = Counted
      BY <3>1 DEF Counted, Agents, Active, Degree
    <3> QED
      BY <3>1, <3>2 DEF CountInv, Recounted
  <2>3. CASE Resolve
    <3>1. UNCHANGED <<world, policies>>
      BY <2>3 DEF Resolve
    <3>2. Counted' = Counted
      BY <3>1 DEF Counted, Agents, Active, Degree
    <3>3. /\ round' = round + 1 /\ round \in Nat /\ \A k \in 1 .. round : ledger'[k] = ledger[k]
          /\ ledger'[round + 1].moves = votes
          /\ ledger'[round + 1].cooperative = CooperativeVotes
          /\ ledger'[round + 1].total = TotalVotes
      BY <2>3, RoundsAreRecorded
    <3>4. \A k : /\ Recounted(k) <=> Agree(ledger[k].moves, ledger[k].cooperative, ledger[k].total)
                 /\ Recounted(k)' <=> Agree(ledger'[k].moves, ledger'[k].cooperative, ledger'[k].total)
      BY <3>1, <3>2 DEF Recounted, Agree
    <3>5. \A k \in 1 .. round : Recounted(k)'
      BY <3>3, <3>4 DEF CountInv
    <3>6. ASSUME NEW m, m = round + 1 PROVE Recounted(m)'
      <4>1. Agree(votes, CooperativeVotes, TotalVotes)
        BY <2>3, TotalsAgree
      <4>2. Agree(ledger'[m].moves, ledger'[m].cooperative, ledger'[m].total)
        BY <3>3, <3>6, <4>1
      <4> QED
        BY <3>4, <4>2
    <3>7. \A k \in 1 .. round' : k \in 1 .. round \/ k = round + 1
      BY <3>3
    <3> QED
      BY <3>5, <3>6, <3>7 DEF CountInv
  <2> QED
    BY <2>1, <2>2, <2>3 DEF Next
<1> QED
  BY <1>1, <1>2, DilemmaAlways, PTL DEF Spec

-----------------------------------------------------------------------------
(* The cells of the graph experiment *)

InCell(cell) == [world |-> world, policies |-> policies] = Scenarios[cell]

Hub(cell) == cell.topology = "star" /\ cell.defector = 1

(* Who defects at everybody in round k, and who at whom *)
Spread(cell, k) ==
  IF k = 1 THEN {cell.defector}
  ELSE IF cell.policy = "quorum" THEN IF Hub(cell) THEN 1 .. 5 ELSE {cell.defector}
  ELSE IF k = 2 THEN {cell.defector} \cup world.neighbours[cell.defector] ELSE 1 .. 5

Defects(cell, k, a, b) ==
  IF cell.policy = "targeted" THEN a = cell.defector \/ (k > 1 /\ b = cell.defector)
  ELSE a \in Spread(cell, k)

AsPlanned(cell, moves, k) ==
  \A a \in 1 .. 5 : \A b \in Addressees(a) : moves[a][b] = "D" <=> Defects(cell, k, a, b)

SpreadInv ==
  \A cell \in Cells : InCell(cell) => \A k \in 1 .. round : AsPlanned(cell, ledger[k].moves, k)

(* What a scenario of the experiment sets *)
LEMMA CellFacts ==
  ASSUME NEW cell \in Cells, InCell(cell)
  PROVE  /\ world.kind = "nipd_graph" /\ world.rounds = 8
         /\ world.mode = IF cell.policy = "quorum" THEN "neighbourhood" ELSE "pairwise"
         /\ world.neighbours = Adjacency(cell.topology) /\ Agents = 1 .. 5
         /\ cell.topology \in {"complete", "ring", "star"} /\ cell.defector \in {1, 2}
         /\ cell.policy \in {"targeted", "linked", "quorum"}
         /\ \A a \in 1 .. 5 : /\ policies[a].name = IF a = cell.defector THEN "alld"
                                                    ELSE Policies[cell.policy]
                              /\ policies[a].explores = FALSE
                              /\ policies[a].num = 1 /\ policies[a].den = 2
<1>1. [world |-> world, policies |-> policies] = Scenario(cell)
  BY DEF InCell, Scenarios
<1>2. world = Scenario(cell).world /\ policies = Scenario(cell).policies
  BY <1>1
<1>3. cell.topology \in {"complete", "ring", "star"} /\ cell.defector \in {1, 2}
      /\ cell.policy \in {"targeted", "linked", "quorum"}
  BY DEF Cells, Policies
<1>4. /\ world.kind = "nipd_graph" /\ world.rounds = 8 /\ world.neighbours = Adjacency(cell.topology)
      /\ world.mode = IF cell.policy = "quorum" THEN "neighbourhood" ELSE "pairwise"
  BY <1>2 DEF Scenario, Rounds
<1>5. \A a \in 1 .. 5 : policies[a] =
        [name |-> IF a = cell.defector THEN "alld" ELSE Policies[cell.policy],
         explores |-> FALSE, include_self |-> FALSE, num |-> 1, den |-> 2]
  BY <1>2 DEF Scenario
<1>6. Agents = 1 .. 5
  BY <1>3, <1>4 DEF Agents, Adjacency
<1> QED
  BY <1>3, <1>4, <1>5, <1>6

(* Its three graphs, written out *)
LEMMA Places ==
  ASSUME NEW cell \in Cells, InCell(cell)
  PROVE  /\ cell.topology = "complete" => \A a \in 1 .. 5 : world.neighbours[a] = (1 .. 5) \ {a}
         /\ cell.topology = "ring" =>
              /\ world.neighbours[1] = {2, 5} /\ world.neighbours[2] = {1, 3}
              /\ world.neighbours[3] = {2, 4} /\ world.neighbours[4] = {3, 5}
              /\ world.neighbours[5] = {1, 4}
         /\ cell.topology = "star" =>
              /\ world.neighbours[1] = 2 .. 5 /\ \A a \in 2 .. 5 : world.neighbours[a] = {1}
<1>1. CASE cell.topology = "complete"
  BY <1>1, CellFacts DEF Adjacency
<1>2. CASE cell.topology = "ring"
  <2>1. world.neighbours = [a \in 1 .. 5 |-> {1 + (a % 5), 1 + ((a + 3) % 5)}]
    BY <1>2, CellFacts DEF Adjacency
  <2>2. /\ 1 % 5 = 1 /\ 2 % 5 = 2 /\ 3 % 5 = 3 /\ 4 % 5 = 4 /\ 5 % 5 = 0 /\ 6 % 5 = 1
        /\ 7 % 5 = 2 /\ 8 % 5 = 3
    OBVIOUS
  <2>3. \A a \in 1 .. 5 : world.neighbours[a] = {1 + (a % 5), 1 + ((a + 3) % 5)}
    BY <2>1
  <2>4. world.neighbours[1] = {2, 5}
    BY <2>2, <2>3
  <2>5. world.neighbours[2] = {1, 3}
    BY <2>2, <2>3
  <2>6. world.neighbours[3] = {2, 4}
    BY <2>2, <2>3
  <2>7. world.neighbours[4] = {3, 5}
    BY <2>2, <2>3
  <2>8. world.neighbours[5] = {1, 4}
    BY <2>2, <2>3
  <2>9. cell.topology # "complete" /\ cell.topology # "star"
    BY <1>2
  <2> QED
    BY <2>4, <2>5, <2>6, <2>7, <2>8, <2>9, Zenon
<1>3. CASE cell.topology = "star"
  <2>1. world.neighbours = [a \in 1 .. 5 |-> IF a = 1 THEN 2 .. 5 ELSE {1}]
    BY <1>3, CellFacts DEF Adjacency
  <2>2. world.neighbours[1] = 2 .. 5 /\ \A a \in 2 .. 5 : world.neighbours[a] = {1}
    BY <2>1
  <2>3. cell.topology # "complete" /\ cell.topology # "ring"
    BY <1>3
  <2> QED
    BY <2>2, <2>3, Zenon
<1> QED
  BY <1>1, <1>2, <1>3, CellFacts

Around(cell) ==
  [a \in 1 .. 5 |-> IF cell.topology = "complete" THEN 4
                    ELSE IF cell.topology = "ring" THEN 2 ELSE IF a = 1 THEN 4 ELSE 1]

(* Five agents *)
LEMMA OneToFive == IsFiniteSet(1 .. 5) /\ Cardinality(1 .. 5) = 5
<1>1. ASSUME NEW n \in Nat PROVE IsFiniteSet(1 .. n) /\ Cardinality(1 .. n) = n
  BY FS_Interval
<1>2. PICK n \in Nat : n = 5
  OBVIOUS
<1> QED
  BY <1>1, <1>2

(* and how many each of them plays *)
LEMMA Degrees ==
  ASSUME NEW cell \in Cells, InCell(cell), NEW a \in 1 .. 5
  PROVE  /\ IsFiniteSet(world.neighbours[a]) /\ Degree(a) = Around(cell)[a]
         /\ Cardinality(world.neighbours[a]) = Around(cell)[a]
         /\ world.neighbours[a] \subseteq (1 .. 5) \ {a}
<1>0. a = 1 \/ a = 2 \/ a = 3 \/ a = 4 \/ a = 5
  OBVIOUS
<1>1. world.neighbours[a] \subseteq (1 .. 5) \ {a}
  <2>1. CASE cell.topology = "complete"
    BY <2>1, Places
  <2>2. CASE cell.topology = "ring"
    BY <1>0, <2>2, Places
  <2>3. CASE cell.topology = "star"
    BY <2>3, Places
  <2> QED
    BY <2>1, <2>2, <2>3, CellFacts
<1>2. IsFiniteSet(1 .. 5) /\ Cardinality(1 .. 5) = 5 /\ Cardinality(2 .. 5) = 4
  <2>3. IsFiniteSet(1 .. 5) /\ Cardinality(1 .. 5) = 5
    BY OneToFive
  <2>4. Cardinality((1 .. 5) \ {1}) = Cardinality(1 .. 5) - 1
    BY <2>3, FS_RemoveElement
  <2>5. (1 .. 5) \ {1} = 2 .. 5
    OBVIOUS
  <2> QED
    BY <2>3, <2>4, <2>5
<1>3. IsFiniteSet(world.neighbours[a])
  BY <1>1, <1>2, FS_Subset
<1>4. \A x, y : x # y => Cardinality({x, y}) = 2
  <2> SUFFICES ASSUME NEW x, NEW y, x # y PROVE Cardinality({x, y}) = 2
    OBVIOUS
  <2>1. IsFiniteSet({y}) /\ Cardinality({y}) = 1
    BY FS_Singleton
  <2>2. Cardinality({y} \cup {x}) = Cardinality({y}) + 1
    BY <2>1, FS_AddElement
  <2>3. {y} \cup {x} = {x, y}
    OBVIOUS
  <2> QED
    BY <2>1, <2>2, <2>3
<1>5. Cardinality(world.neighbours[a]) = Around(cell)[a]
  <2>1. CASE cell.topology = "complete"
    <3>1. Cardinality((1 .. 5) \ {a}) = Cardinality(1 .. 5) - 1
      BY <1>2, FS_RemoveElement
    <3>2. world.neighbours[a] = (1 .. 5) \ {a}
      BY <2>1, Places
    <3> QED
      BY <1>2, <2>1, <3>1, <3>2 DEF Around
  <2>2. CASE cell.topology = "ring"
    <3>1. \E x, y \in 1 .. 5 : x # y /\ world.neighbours[a] = {x, y}
      <4>1. CASE a = 1
        BY <2>2, <4>1, Places
      <4>2. CASE a = 2
        BY <2>2, <4>2, Places
      <4>3. CASE a = 3
        BY <2>2, <4>3, Places
      <4>4. CASE a = 4
        BY <2>2, <4>4, Places
      <4>5. CASE a = 5
        BY <2>2, <4>5, Places
      <4> QED
        BY <1>0, <4>1, <4>2, <4>3, <4>4, <4>5
    <3>2. Around(cell)[a] = 2
      BY <2>2 DEF Around
    <3>3. PICK x, y \in 1 .. 5 : x # y /\ world.neighbours[a] = {x, y}
      BY <3>1
    <3>4. Cardinality({x, y}) = 2
      BY <1>4, <3>3
    <3> QED
      BY <3>2, <3>3, <3>4
  <2>3. CASE cell.topology = "star"
    <3>1. Cardinality({1}) = 1
      BY FS_Singleton
    <3>2. world.neighbours[a] = IF a = 1 THEN 2 .. 5 ELSE {1}
      <4>1. CASE a = 1
        BY <2>3, <4>1, Places
      <4>2. CASE a \in 2 .. 5
        BY <2>3, <4>2, Places
      <4> QED
        BY <4>1, <4>2
    <3> QED
      BY <1>2, <2>3, <3>1, <3>2 DEF Around
  <2> QED
    BY <2>1, <2>2, <2>3, CellFacts
<1> QED
  BY <1>1, <1>3, <1>5 DEF Degree

(* After a round there is something to remember. *)
Shown == last = None <=> round = 0

LEMMA ShownAlways == Spec => []Shown
<1>1. Init => Shown
  BY DEF Init, Shown
<1>2. DilemmaInv /\ Shown /\ [Next]_vars => Shown'
  <2> SUFFICES ASSUME DilemmaInv, Shown, [Next]_vars PROVE Shown'
    OBVIOUS
  <2>1. CASE Resolve
    <3>1. last' = votes /\ round' = round + 1 /\ round \in Nat /\ InWorld
      BY <2>1 DEF Resolve, DilemmaInv
    <3>2. Played(votes, round)
      BY <2>1, RoundPlayed
    <3>3. PICK T : votes \in Seq(T)
      BY DEF DilemmaInv
    <3>4. votes = [b \in DOMAIN votes |-> votes[b]]
      BY <3>3
    <3>5. votes # None
      BY <3>1, <3>2, <3>4, VotesAreVotes DEF Played
    <3> QED
      BY <3>1, <3>5 DEF Shown
  <2>2. CASE Vote \/ UNCHANGED vars
    BY <2>2 DEF Vote, vars, Shown
  <2> QED
    BY <2>1, <2>2 DEF Next
<1> QED
  BY <1>1, <1>2, DilemmaAlways, PTL DEF Spec

(* Within two games of the defector is everybody. *)
LEMMA EverybodyIsNear ==
  ASSUME NEW cell \in Cells, InCell(cell), NEW a \in 1 .. 5
  PROVE  /\ world.neighbours[a] # {}
         /\ a # cell.defector =>
              \E b \in world.neighbours[a] :
                b = cell.defector \/ b \in world.neighbours[cell.defector]
<1>0. a = 1 \/ a = 2 \/ a = 3 \/ a = 4 \/ a = 5
  OBVIOUS
<1>1. CASE cell.topology = "complete"
  <2>1. \A c \in 1 .. 5 : world.neighbours[c] = (1 .. 5) \ {c}
    BY <1>1, Places
  <2>2. cell.defector \in {1, 2}
    BY CellFacts
  <2> QED
    BY <1>0, <2>1, <2>2
<1>2. CASE cell.topology = "ring"
  <2>1. /\ world.neighbours[1] = {2, 5} /\ world.neighbours[2] = {1, 3}
        /\ world.neighbours[3] = {2, 4} /\ world.neighbours[4] = {3, 5}
        /\ world.neighbours[5] = {1, 4}
    BY <1>2, Places
  <2>2. CASE cell.defector = 1
    BY <1>0, <2>1, <2>2
  <2>3. CASE cell.defector = 2
    BY <1>0, <2>1, <2>3
  <2> QED
    BY <2>2, <2>3, CellFacts
<1>3. CASE cell.topology = "star"
  <2>1. world.neighbours[1] = 2 .. 5 /\ \A c \in 2 .. 5 : world.neighbours[c] = {1}
    BY <1>3, Places
  <2>2. CASE cell.defector = 1
    BY <1>0, <2>1, <2>2
  <2>3. CASE cell.defector = 2
    BY <1>0, <2>1, <2>3
  <2> QED
    BY <2>2, <2>3, CellFacts
<1> QED
  BY <1>1, <1>2, <1>3, CellFacts

(* One defector among its games makes a linked policy defect at all of them: *)
(* the next round's spread. *)
LEMMA LinkedSpreads ==
  ASSUME NEW cell \in Cells, InCell(cell), InWorld, cell.policy = "linked", NEW k \in Nat, k > 0,
         NEW a \in 1 .. 5, a # cell.defector
  PROVE  a \in Spread(cell, k + 1) <=> \E b \in world.neighbours[a] : b \in Spread(cell, k)
<1>0. cell.defector \in {1, 2} /\ Agents = 1 .. 5
  BY CellFacts
<1>1. cell.defector \in 1 .. 5 /\ Agents = 1 .. 5
  BY <1>0
<1>2. world.neighbours[a] \subseteq 1 .. 5 /\ world.neighbours[a] # {}
  BY Degrees, EverybodyIsNear
<1>3. CASE k = 1
  <2>1. /\ Spread(cell, k) = {cell.defector}
        /\ Spread(cell, k + 1) = {cell.defector} \cup world.neighbours[cell.defector]
    BY <1>3 DEF Spread
  <2>2. a \in world.neighbours[cell.defector] <=> cell.defector \in world.neighbours[a]
    BY <1>1, WorldFacts
  <2> QED
    BY <2>1, <2>2
<1>4. CASE k = 2
  <2>1. /\ Spread(cell, k) = {cell.defector} \cup world.neighbours[cell.defector]
        /\ Spread(cell, k + 1) = 1 .. 5
    BY <1>4 DEF Spread
  <2> QED
    BY <2>1, EverybodyIsNear
<1>5. CASE k > 2
  <2>1. Spread(cell, k) = 1 .. 5 /\ Spread(cell, k + 1) = 1 .. 5
    BY <1>5 DEF Spread
  <2> QED
    BY <1>2, <2>1
<1> QED
  BY <1>3, <1>4, <1>5

(* A quorum of one half breaks around the hub of a star only. *)
LEMMA QuorumSpreads ==
  ASSUME NEW cell \in Cells, InCell(cell), cell.policy = "quorum", NEW k \in Nat, k > 0,
         NEW a \in 1 .. 5, a # cell.defector, NEW c,
         c = Cardinality({b \in world.neighbours[a] : b \notin Spread(cell, k)})
  PROVE  /\ c \in Nat
         /\ a \in Spread(cell, k + 1) <=> c * 2 < Around(cell)[a]
<1> DEFINE N == world.neighbours[a]
           M == {b \in N : b \notin Spread(cell, k)}
<1>1. /\ IsFiniteSet(N) /\ Cardinality(N) = Around(cell)[a] /\ N \subseteq (1 .. 5) \ {a}
      /\ cell.defector \in {1, 2}
  BY Degrees, CellFacts
<1>2. c \in Nat
  BY <1>1, FS_Subset, FS_CardinalityType
<1>3. CASE Hub(cell)
  <2>1. cell.topology = "star" /\ cell.defector = 1
    BY <1>3 DEF Hub
  <2>2. N = {1} /\ Around(cell)[a] = 1
    BY <2>1, Places DEF Around
  <2>3. 1 \in Spread(cell, k) /\ a \in Spread(cell, k + 1)
    BY <1>3, <2>1 DEF Spread
  <2>4. M = {}
    BY <2>2, <2>3
  <2>5. c = 0
    BY <2>4, FS_EmptySet
  <2> QED
    BY <1>2, <2>2, <2>3, <2>5
<1>4. CASE ~ Hub(cell)
  <2>1. Spread(cell, k) = {cell.defector} /\ Spread(cell, k + 1) = {cell.defector}
    BY <1>4 DEF Spread
  <2>2. CASE cell.defector \notin N
    <3>1. M = N
      BY <2>1, <2>2
    <3>2. c = Around(cell)[a]
      BY <1>1, <3>1
    <3> QED
      BY <1>2, <2>1, <3>2
  <2>3. CASE cell.defector \in N
    <3>1. M = N \ {cell.defector}
      BY <2>1
    <3>2. Cardinality(N \ {cell.defector}) = Cardinality(N) - 1
      BY <1>1, <2>3, FS_RemoveElement
    <3>3. c = Around(cell)[a] - 1
      BY <1>1, <3>1, <3>2
    <3>4. Around(cell)[a] >= 2
      <4>1. CASE cell.topology \in {"complete", "ring"}
        BY <4>1 DEF Around
      <4>2. CASE cell.topology = "star"
        <5>1. cell.defector = 2
          BY <1>1, <1>4, <4>2 DEF Hub
        <5>2. a = 1
          <6>1. a \in 2 .. 5 => N = {1}
            BY <4>2, Places
          <6> QED
            BY <2>3, <5>1, <6>1
        <5> QED
          BY <4>2, <5>2 DEF Around
      <4> QED
        BY <4>1, <4>2, CellFacts
    <3>5. PICK n : n = Around(cell)[a]
      OBVIOUS
    <3>6. n = c + 1 /\ n >= 2
      <4>1. n \in Nat
        BY <3>5 DEF Around
      <4> HIDE DEF M, N
      <4> QED
        BY <1>2, <3>3, <3>4, <3>5, <4>1
    <3>7. ~ (c * 2 < n)
      BY <1>2, <3>6
    <3> QED
      BY <1>2, <2>1, <3>5, <3>7
  <2> QED
    BY <2>2, <2>3
<1> QED
  BY <1>2, <1>3, <1>4

(* What a policy votes, if the round before was as planned *)
LEMMA VotesAsPlanned ==
  ASSUME DilemmaInv, Shown, SpreadInv, NEW cell \in Cells, InCell(cell),
         NEW a \in 1 .. 5, NEW vote \in VotesOf(a), NEW b \in Addressees(a)
  PROVE  vote[b] = "D" <=> Defects(cell, round + 1, a, b)
<1>1. /\ InWorld /\ round \in Nat /\ Agents = 1 .. 5 /\ a \in Agents
      /\ last = None <=> round = 0
  BY CellFacts DEF DilemmaInv, Shown
<1>2. round > 0 => /\ last = ledger[round].moves /\ Played(last, round - 1)
                   /\ AsPlanned(cell, last, round)
  BY <1>1 DEF DilemmaInv, SpreadInv
<1>3. /\ cell.policy \in {"targeted", "linked", "quorum"}
      /\ policies[a].name = IF a = cell.defector THEN "alld" ELSE Policies[cell.policy]
      /\ policies[a].explores = FALSE
      /\ policies[a].num = 1 /\ policies[a].den = 2
      /\ world.mode = IF cell.policy = "quorum" THEN "neighbourhood" ELSE "pairwise"
      /\ cell.defector \in 1 .. 5
  <2>1. cell.defector \in {1, 2}
    BY CellFacts
  <2>2. cell.defector \in 1 .. 5
    BY <2>1
  <2> QED
    BY <2>2, CellFacts
<1>4. /\ world.neighbours[a] \subseteq 1 .. 5 /\ \A c \in world.neighbours[a] : a \in world.neighbours[c]
  BY <1>1, WorldFacts
<1>5. CASE a = cell.defector
  <2>1. vote \in Uniform(a, {"D"})
    BY <1>3, <1>5 DEF VotesOf
  <2>2. vote[b] = "D"
    BY <2>1 DEF Uniform
  <2>3. Defects(cell, round + 1, a, b)
    BY <1>3, <1>5 DEF Defects, Spread
  <2> QED
    BY <2>2, <2>3
<1>6. CASE a # cell.defector /\ cell.policy = "targeted"
  <2>1. policies[a].name = "tft_pairwise" /\ Addressees(a) = world.neighbours[a]
    BY <1>3, <1>6 DEF Policies, Addressees
  <2>2. vote[b] \in Mirrored(a, b)
    BY <1>3, <2>1 DEF VotesOf, Explored
  <2>3. CASE round = 0
    BY <1>1, <1>6, <2>2, <2>3 DEF Mirrored, Defects
  <2>4. CASE round # 0
    <3>1. vote[b] = last[b][a] /\ a \in Addressees(b) /\ b \in 1 .. 5
      BY <1>1, <1>3, <1>4, <1>6, <2>1, <2>2, <2>4 DEF Mirrored, Against, Addressees
    <3>2. vote[b] = "D" <=> Defects(cell, round, b, a)
      BY <1>1, <1>2, <2>4, <3>1 DEF AsPlanned
    <3> QED
      BY <1>1, <1>6, <2>4, <3>2 DEF Defects
  <2> QED
    BY <2>3, <2>4
<1>7. CASE a # cell.defector /\ cell.policy = "linked"
  <2>1. policies[a].name = "tft_linked" /\ Addressees(a) = world.neighbours[a]
    BY <1>3, <1>7 DEF Policies, Addressees
  <2>2. vote[b] \in Linked(a)
    BY <1>3, <2>1 DEF VotesOf, Explored, Uniform
  <2>3. Defects(cell, round + 1, a, b) <=> a \in Spread(cell, round + 1)
    BY <1>7 DEF Defects
  <2>4. CASE round = 0
    BY <1>1, <1>7, <2>2, <2>3, <2>4 DEF Linked, Spread
  <2>5. CASE round # 0
    <3>1. vote[b] = "D" <=> \E c \in world.neighbours[a] : last[c][a] = "D"
      BY <1>1, <2>2, <2>5 DEF Linked, Against
    <3>2. ASSUME NEW c \in world.neighbours[a]
          PROVE  last[c][a] = "D" <=> c \in Spread(cell, round)
      <4>1. c \in 1 .. 5 /\ a \in Addressees(c)
        BY <1>3, <1>4, <1>7 DEF Addressees
      <4> QED
        BY <1>1, <1>2, <1>7, <2>5, <4>1 DEF AsPlanned, Defects
    <3>3. a \in Spread(cell, round + 1) <=> \E c \in world.neighbours[a] : c \in Spread(cell, round)
      BY <1>1, <1>7, <2>5, LinkedSpreads
    <3> QED
      BY <2>3, <3>1, <3>2, <3>3
  <2> QED
    BY <2>4, <2>5
<1>8. CASE a # cell.defector /\ cell.policy = "quorum"
  <2>1. policies[a].name = "tft_threshold" /\ \A c : Addressees(c) = 1 .. 5
    BY <1>1, <1>3, <1>8 DEF Policies, Addressees
  <2>2. vote[b] \in Quorum(a)
    BY <1>3, <2>1 DEF VotesOf, Explored, Uniform
  <2>3. Defects(cell, round + 1, a, b) <=> a \in Spread(cell, round + 1)
    BY <1>8 DEF Defects
  <2>4. CASE round = 0
    BY <1>1, <1>8, <2>2, <2>3, <2>4 DEF Quorum, Spread
  <2>5. CASE round # 0
    <3>1. Peers(a) = Around(cell)[a] /\ Peers(a) # 0
      <4>1. Peers(a) = Around(cell)[a]
        BY <1>1, PeersAreNeighbours, Degrees
      <4>2. Around(cell)[a] # 0
        BY DEF Around
      <4> QED
        BY <4>1, <4>2
    <3>2. CooperatingNeighbours(a)
            = Cardinality({c \in world.neighbours[a] : c \notin Spread(cell, round)})
      <4>1. ASSUME NEW c \in world.neighbours[a]
            PROVE  last[c][c] = "C" <=> c \notin Spread(cell, round)
        <5>1. c \in 1 .. 5 /\ c \in Addressees(c)
          BY <1>4, <2>1
        <5>2. last[c][c] \in Moves
          BY <1>1, <1>2, <2>5, <5>1 DEF Played
        <5>3. last[c][c] = "D" <=> c \in Spread(cell, round)
          BY <1>1, <1>2, <1>8, <2>5, <5>1 DEF AsPlanned, Defects
        <5> QED
          BY <5>2, <5>3 DEF Moves
      <4>2. {c \in world.neighbours[a] : last[c][c] = "C"}
              = {c \in world.neighbours[a] : c \notin Spread(cell, round)}
        BY <4>1
      <4> QED
        BY <4>2 DEF CooperatingNeighbours
    <3>3. PICK n : n = CooperatingNeighbours(a)
      OBVIOUS
    <3>4. n \in Nat /\ (a \in Spread(cell, round + 1) <=> n * 2 < Around(cell)[a])
      BY <1>1, <1>8, <2>5, <3>2, <3>3, QuorumSpreads
    <3>5. PICK p : p = Around(cell)[a] /\ p \in Nat
      BY DEF Around
    <3>6. vote[b] = IF n * 2 >= 1 * p THEN "C" ELSE "D"
      BY <1>1, <1>3, <2>2, <2>5, <3>1, <3>3, <3>5 DEF Quorum
    <3>7. n * 2 >= 1 * p <=> ~ (n * 2 < p)
      BY <3>4, <3>5
    <3> QED
      BY <2>3, <3>4, <3>5, <3>6, <3>7
  <2> QED
    BY <2>4, <2>5
<1> QED
  BY <1>3, <1>5, <1>6, <1>7, <1>8

(* Every recorded round of a cell was as planned. *)
LEMMA SpreadAlways == Spec => []SpreadInv
<1>1. Init => SpreadInv
  BY DEF SpreadInv, Init
<1>2. DilemmaInv /\ Shown /\ SpreadInv /\ [Next]_vars => SpreadInv'
  <2> SUFFICES ASSUME DilemmaInv, Shown, SpreadInv, [Next]_vars PROVE SpreadInv'
    OBVIOUS
  <2>1. UNCHANGED <<world, policies>>
    BY DEF Next, Vote, Resolve, vars
  <2>2. \A cell, moves, k : /\ InCell(cell)' = InCell(cell)
                            /\ AsPlanned(cell, moves, k) <=>
                                 \A a \in 1 .. 5 : \A b \in Addressees(a)' :
                                   moves[a][b] = "D" <=> Defects(cell, k, a, b)'
    BY <2>1, SameWorld DEF InCell, AsPlanned, Defects, Spread
  <2> SUFFICES ASSUME NEW cell \in Cells, InCell(cell), NEW k \in 1 .. round'
               PROVE  AsPlanned(cell, ledger'[k].moves, k)
    BY <2>2 DEF SpreadInv, AsPlanned
  <2>3. CASE Resolve
    <3>1. /\ round' = round + 1 /\ round \in Nat /\ \A j \in 1 .. round : ledger'[j] = ledger[j]
          /\ ledger'[round + 1].moves = votes
      BY <2>3, RoundsAreRecorded
    <3>2. CASE k \in 1 .. round
      BY <3>1, <3>2 DEF SpreadInv
    <3>3. CASE k = round + 1
      <4>1. \A a \in 1 .. 5 : votes[a] \in VotesOf(a)
        <5>1. Agents = 1 .. Len(votes)
          BY <2>3, WorldFacts DEF DilemmaInv, Resolve
        <5> QED
          BY <5>1, CellFacts DEF DilemmaInv
      <4>2. \A a \in 1 .. 5 : \A b \in Addressees(a) :
              votes[a][b] = "D" <=> Defects(cell, round + 1, a, b)
        BY <4>1, VotesAsPlanned
      <4>3. ledger'[k].moves = votes
        BY <3>1, <3>3
      <4> QED
        BY <3>3, <4>2, <4>3 DEF AsPlanned
    <3> QED
      BY <3>1, <3>2, <3>3
  <2>4. CASE Vote \/ UNCHANGED vars
    <3>1. UNCHANGED <<ledger, round>>
      BY <2>4 DEF Vote, vars
    <3> QED
      BY <3>1 DEF SpreadInv
  <2> QED
    BY <2>3, <2>4 DEF Next
<1> QED
  BY <1>1, <1>2, DilemmaAlways, ShownAlways, PTL DEF Spec

-----------------------------------------------------------------------------
(* The rates of a cell *)

(* A sum over five agents *)
LEMMA TotalOfFive ==
  ASSUME NEW f \in [1 .. 5 -> Int]
  PROVE  Total(f, 1 .. 5) = f[1] + f[2] + f[3] + f[4] + f[5]
<1> DEFINE e(n) == [k \in 1 .. n |-> f[k]]
<1>1. ASSUME NEW n \in 0 .. 4
      PROVE  Total(e(n + 1), 1 .. n + 1) = Total(e(n), 1 .. n) + f[n + 1]
  <2>1. n \in Nat /\ 1 .. n + 1 \subseteq 1 .. 5 /\ 1 .. n \subseteq 1 .. n + 1 /\ n + 1 \in 1 .. n + 1
    OBVIOUS
  <2>2. /\ e(n + 1) \in [1 .. n + 1 -> Int] /\ e(n) \in [1 .. n -> Int]
        /\ \A k \in 1 .. n : e(n + 1)[k] = e(n)[k]
        /\ e(n + 1)[n + 1] = f[n + 1]
    BY <2>1
  <2>3. PICK g, h : g = e(n + 1) /\ h = e(n)
    OBVIOUS
  <2>4. /\ g \in [1 .. n + 1 -> Int] /\ h \in [1 .. n -> Int] /\ \A k \in 1 .. n : g[k] = h[k]
        /\ g[n + 1] = f[n + 1]
    BY <2>2, <2>3
  <2>5. Total(g, 1 .. n + 1) = Total(h, 1 .. n) + g[n + 1]
    BY <2>1, <2>4, TotalGrows
  <2> QED
    BY <2>3, <2>4, <2>5
<1>2. Total(e(0), 1 .. 0) = 0
  <2>0. 1 .. 0 = {}
    OBVIOUS
  <2>1. PICK g : g = [k \in {} |-> f[k]]
    OBVIOUS
  <2>4. g = e(0) /\ g \in [{} -> Int]
    BY <2>0, <2>1
  <2>2. PICK h : Sums(h, g, {}) /\ Total(g, {}) = h[{}]
    BY <2>4, FS_EmptySet, TotalSums
  <2>3. Total(g, {}) = 0
    BY <2>2 DEF Sums
  <2> QED
    BY <2>0, <2>3, <2>4
<1>3. e(5) = f
  OBVIOUS
<1> HIDE DEF e
<1>4. Total(e(1), 1 .. 1) = 0 + f[1]
  <2>1. PICK n \in 0 .. 4 : n = 0
    OBVIOUS
  <2>2. n + 1 = 1
    BY <2>1
  <2> QED
    BY <1>1, <1>2, <2>1, <2>2
<1>5. Total(e(2), 1 .. 2) = 0 + f[1] + f[2]
  <2>1. PICK n \in 0 .. 4 : n = 1
    OBVIOUS
  <2>2. n + 1 = 2
    BY <2>1
  <2> QED
    BY <1>1, <1>4, <2>1, <2>2
<1>6. Total(e(3), 1 .. 3) = 0 + f[1] + f[2] + f[3]
  <2>1. PICK n \in 0 .. 4 : n = 2
    OBVIOUS
  <2>2. n + 1 = 3
    BY <2>1
  <2> QED
    BY <1>1, <1>5, <2>1, <2>2
<1>7. Total(e(4), 1 .. 4) = 0 + f[1] + f[2] + f[3] + f[4]
  <2>1. PICK n \in 0 .. 4 : n = 3
    OBVIOUS
  <2>2. n + 1 = 4
    BY <2>1
  <2> QED
    BY <1>1, <1>6, <2>1, <2>2
<1>8. Total(e(5), 1 .. 5) = 0 + f[1] + f[2] + f[3] + f[4] + f[5]
  <2>1. PICK n \in 0 .. 4 : n = 4
    OBVIOUS
  <2>2. n + 1 = 5
    BY <2>1
  <2> QED
    BY <1>1, <1>7, <2>1, <2>2
<1> QED
  BY <1>3, <1>8

(* A set of pairs is counted row by row. *)
LEMMA PairsOfFive ==
  ASSUME NEW P, P \subseteq (1 .. 5) \X (1 .. 5), NEW F \in [1 .. 5 -> SUBSET (1 .. 5)],
         \A a \in 1 .. 5 : \A b \in 1 .. 5 : <<a, b>> \in P <=> b \in F[a],
         NEW c \in [1 .. 5 -> Nat], \A a \in 1 .. 5 : Cardinality(F[a]) = c[a]
  PROVE  Cardinality(P) = c[1] + c[2] + c[3] + c[4] + c[5]
<1>1. IsFiniteSet(1 .. 5) /\ \A a \in 1 .. 5 : IsFiniteSet(F[a])
  <2>3. \A a \in 1 .. 5 : F[a] \subseteq 1 .. 5
    OBVIOUS
  <2> QED
    BY <2>3, OneToFive, FS_Subset
<1>2. P = PairsOf(F, 1 .. 5)
  <2>1. ASSUME NEW e \in P PROVE e \in PairsOf(F, 1 .. 5)
    <3>1. PICK a \in 1 .. 5, b \in 1 .. 5 : e = <<a, b>>
      OBVIOUS
    <3> QED
      BY <3>1 DEF PairsOf
  <2>2. ASSUME NEW e \in PairsOf(F, 1 .. 5) PROVE e \in P
    <3>1. PICK a \in 1 .. 5 : \E b \in F[a] : e = <<a, b>>
      BY DEF PairsOf
    <3>2. PICK b \in F[a] : e = <<a, b>>
      BY <3>1
    <3>3. b \in 1 .. 5
      OBVIOUS
    <3> QED
      BY <3>2, <3>3
  <2> QED
    BY <2>1, <2>2
<1>3. Cardinality(PairsOf(F, 1 .. 5)) = Total([a \in 1 .. 5 |-> Cardinality(F[a])], 1 .. 5)
  BY <1>1, PairsAddUp
<1>4. [a \in 1 .. 5 |-> Cardinality(F[a])] = c
  OBVIOUS
<1>5. c \in [1 .. 5 -> Int]
  OBVIOUS
<1> QED
  BY <1>2, <1>3, <1>4, <1>5, TotalOfFive

(* How many neighbours a cooperates with in round k *)
Kept(cell, k) ==
  [a \in 1 .. 5 |->
     IF cell.policy = "linked" THEN IF a \in Spread(cell, k) THEN 0 ELSE Around(cell)[a]
     ELSE IF a = cell.defector THEN 0
     ELSE IF k > 1 /\ cell.defector \in world.neighbours[a] THEN Around(cell)[a] - 1
     ELSE Around(cell)[a]]

(* is the row that is counted. *)
LEMMA RowsKept ==
  ASSUME NEW cell \in Cells, InCell(cell), cell.policy # "quorum", NEW k \in Nat, NEW a \in 1 .. 5
  PROVE  /\ Cardinality({b \in world.neighbours[a] : ~ Defects(cell, k, a, b)}) = Kept(cell, k)[a]
         /\ Kept(cell, k)[a] \in Nat
<1> DEFINE N == world.neighbours[a]
           M == {b \in N : ~ Defects(cell, k, a, b)}
<1>1. IsFiniteSet(N) /\ Cardinality(N) = Around(cell)[a] /\ N \subseteq (1 .. 5) \ {a}
  BY Degrees
<1>2. IsFiniteSet(M)
  BY <1>1, FS_Subset
<1>3. Cardinality(M) \in Nat
  BY <1>2, FS_CardinalityType
<1>4. M = {} \/ M = N \/ (cell.defector \in N /\ M = N \ {cell.defector})
  BY DEF Defects
<1>5. CASE cell.policy = "linked"
  <2>1. CASE a \in Spread(cell, k)
    <3>1. M = {}
      BY <1>5, <2>1 DEF Defects
    <3> QED
      BY <1>5, <2>1, <3>1, FS_EmptySet DEF Kept
  <2>2. CASE a \notin Spread(cell, k)
    <3>1. M = N
      BY <1>5, <2>2 DEF Defects
    <3> QED
      BY <1>1, <1>3, <1>5, <2>2, <3>1 DEF Kept
  <2> QED
    BY <2>1, <2>2
<1>6. CASE cell.policy = "targeted"
  <2>1. CASE a = cell.defector
    <3>1. M = {}
      BY <1>6, <2>1 DEF Defects
    <3> QED
      BY <1>6, <2>1, <3>1, FS_EmptySet DEF Kept
  <2>2. CASE a # cell.defector /\ k > 1 /\ cell.defector \in N
    <3>1. M = N \ {cell.defector}
      BY <1>6, <2>2 DEF Defects
    <3>2. Cardinality(N \ {cell.defector}) = Cardinality(N) - 1
      BY <1>1, <2>2, FS_RemoveElement
    <3>3. Kept(cell, k)[a] = Around(cell)[a] - 1
      BY <1>6, <2>2 DEF Kept
    <3> QED
      BY <1>1, <1>3, <3>1, <3>2, <3>3
  <2>3. CASE a # cell.defector /\ ~ (k > 1 /\ cell.defector \in N)
    <3>1. M = N
      BY <1>6, <2>3 DEF Defects
    <3>2. Kept(cell, k)[a] = Around(cell)[a]
      BY <1>6, <2>3 DEF Kept
    <3> QED
      BY <1>1, <1>3, <3>1, <3>2
  <2> QED
    BY <2>1, <2>2, <2>3
<1> QED
  BY <1>5, <1>6, CellFacts

InAll(f) == f[1] + f[2] + f[3] + f[4] + f[5]

(* The votes of a round and the cooperative ones among them *)
LEMMA PairwiseCounts ==
  ASSUME NEW cell \in Cells, InCell(cell), cell.policy # "quorum", NEW k \in Nat, NEW moves,
         AsPlanned(cell, moves, k), Played(moves, k - 1)
  PROVE  /\ Cardinality(Counted) = InAll(Around(cell))
         /\ Cardinality({e \in Counted : moves[e[1]][e[2]] = "C"}) = InAll(Kept(cell, k))
<1>1. /\ world.mode = "pairwise" /\ Agents = 1 .. 5 /\ \A a : Addressees(a) = world.neighbours[a]
      /\ \A a \in 1 .. 5 : world.neighbours[a] \subseteq 1 .. 5
  <2>1. world.mode = "pairwise" /\ Agents = 1 .. 5
    BY CellFacts
  <2>2. ASSUME NEW a \in 1 .. 5 PROVE world.neighbours[a] \subseteq 1 .. 5
    BY Degrees
  <2> QED
    BY <2>1, <2>2 DEF Addressees
<1>2. Counted = {e \in (1 .. 5) \X (1 .. 5) : e[2] \in world.neighbours[e[1]]}
  BY <1>1 DEF Counted
<1>3. Cardinality(Counted) = InAll(Around(cell))
  <2>1. PICK F \in [1 .. 5 -> SUBSET (1 .. 5)] : \A a \in 1 .. 5 : F[a] = world.neighbours[a]
    <3>1. [a \in 1 .. 5 |-> world.neighbours[a]] \in [1 .. 5 -> SUBSET (1 .. 5)]
      BY <1>1
    <3> QED
      BY <3>1
  <2>2. \A a \in 1 .. 5 : \A b \in 1 .. 5 : <<a, b>> \in Counted <=> b \in F[a]
    BY <1>2, <2>1
  <2>3. \A a \in 1 .. 5 : Cardinality(F[a]) = Around(cell)[a]
    BY <2>1, Degrees
  <2>4. Around(cell) \in [1 .. 5 -> Nat] /\ Counted \subseteq (1 .. 5) \X (1 .. 5)
    BY <1>2 DEF Around
  <2> QED
    BY <2>2, <2>3, <2>4, PairsOfFive DEF InAll
<1>4. Cardinality({e \in Counted : moves[e[1]][e[2]] = "C"}) = InAll(Kept(cell, k))
  <2> DEFINE P == {e \in Counted : moves[e[1]][e[2]] = "C"}
  <2>1. PICK F \in [1 .. 5 -> SUBSET (1 .. 5)] :
          \A a \in 1 .. 5 : F[a] = {b \in world.neighbours[a] : ~ Defects(cell, k, a, b)}
    <3> DEFINE G == [a \in 1 .. 5 |-> {b \in world.neighbours[a] : ~ Defects(cell, k, a, b)}]
    <3>1. G \in [1 .. 5 -> SUBSET (1 .. 5)]
      BY <1>1
    <3>2. \A a \in 1 .. 5 : G[a] = {b \in world.neighbours[a] : ~ Defects(cell, k, a, b)}
      OBVIOUS
    <3> HIDE DEF G
    <3> QED
      BY <3>1, <3>2
  <2>2. ASSUME NEW a \in 1 .. 5, NEW b \in 1 .. 5 PROVE <<a, b>> \in P <=> b \in F[a]
    <3>1. <<a, b>> \in P <=> b \in world.neighbours[a] /\ moves[a][b] = "C"
      BY <1>2
    <3>2. b \in world.neighbours[a] =>
            moves[a][b] \in Moves /\ (moves[a][b] = "D" <=> Defects(cell, k, a, b))
      BY <1>1 DEF AsPlanned, Played
    <3>3. b \in F[a] <=> b \in world.neighbours[a] /\ ~ Defects(cell, k, a, b)
      BY <2>1
    <3> QED
      BY <3>1, <3>2, <3>3 DEF Moves
  <2>3. \A a \in 1 .. 5 : Cardinality(F[a]) = Kept(cell, k)[a] /\ Kept(cell, k)[a] \in Nat
    BY <2>1, RowsKept
  <2>4. Kept(cell, k) \in [1 .. 5 -> Nat]
    <3>1. Kept(cell, k) = [a \in 1 .. 5 |-> Kept(cell, k)[a]]
      BY DEF Kept
    <3> HIDE DEF Kept
    <3>2. PICK h : h = Kept(cell, k)
      OBVIOUS
    <3> QED
      BY <2>3, <3>1, <3>2
  <2>5. P \subseteq (1 .. 5) \X (1 .. 5)
    BY <1>2
  <2> HIDE DEF P
  <2>6. Cardinality(P) = InAll(Kept(cell, k))
    BY <2>2, <2>3, <2>4, <2>5, PairsOfFive DEF InAll
  <2> QED
    BY <2>6 DEF P
<1> QED
  BY <1>3, <1>4

(* What the design foretells of a cell, by stage *)
Stage(k, first, second, rest) == IF k = 1 THEN first ELSE IF k = 2 THEN second ELSE rest

(* expected_curve, by cell *)
LEMMA Curves ==
  ASSUME NEW cell \in Cells, NEW k \in 1 .. 8
  PROVE  ExpectedCurve(cell)[k] =
           IF cell.policy = "quorum"
             THEN IF Hub(cell) THEN Stage(k, <<4, 5>>, <<0, 1>>, <<0, 1>>) ELSE <<4, 5>>
           ELSE IF Hub(cell) THEN Stage(k, <<1, 2>>, <<0, 1>>, <<0, 1>>)
           ELSE IF cell.policy = "targeted"
             THEN IF cell.topology = "star" THEN Stage(k, <<7, 8>>, <<3, 4>>, <<3, 4>>)
                  ELSE Stage(k, <<4, 5>>, <<3, 5>>, <<3, 5>>)
           ELSE IF cell.topology = "star" THEN Stage(k, <<7, 8>>, <<3, 8>>, <<0, 1>>)
           ELSE IF cell.topology = "ring" THEN Stage(k, <<4, 5>>, <<2, 5>>, <<0, 1>>)
           ELSE Stage(k, <<4, 5>>, <<0, 1>>, <<0, 1>>)
<1>1. cell.topology \in {"complete", "ring", "star"} /\ cell.policy \in {"targeted", "linked", "quorum"}
  BY DEF Cells, Policies
<1> QED
  BY <1>1 DEF ExpectedCurve, Rounds, Hub, Stage

(* The cooperative votes of each stage, graph by graph *)
LEMMA KeptOnComplete ==
  ASSUME NEW cell \in Cells, InCell(cell), cell.topology = "complete", cell.policy # "quorum",
         NEW k \in 1 .. 8
  PROVE  /\ InAll(Around(cell)) = 20
         /\ InAll(Kept(cell, k)) =
              Stage(k, 16, IF cell.policy = "targeted" THEN 12 ELSE 0,
                           IF cell.policy = "targeted" THEN 12 ELSE 0)
<1>1. \A a \in 1 .. 5 : Around(cell)[a] = 4 /\ world.neighbours[a] = (1 .. 5) \ {a}
  BY Places DEF Around
<1>2. cell.defector \in {1, 2} /\ cell.policy \in {"targeted", "linked"}
  BY CellFacts
<1>3. CASE cell.policy = "targeted"
  <2>1. \A a \in 1 .. 5 : Kept(cell, k)[a] = IF a = cell.defector THEN 0 ELSE IF k > 1 THEN 3 ELSE 4
    BY <1>1, <1>2, <1>3 DEF Kept
  <2> QED
    BY <1>1, <1>2, <1>3, <2>1 DEF InAll, Stage
<1>4. CASE cell.policy = "linked"
  <2>1. Spread(cell, k) = IF k = 1 THEN {cell.defector} ELSE 1 .. 5
    BY <1>1, <1>2, <1>4 DEF Spread
  <2>2. \A a \in 1 .. 5 : Kept(cell, k)[a] = IF a = cell.defector \/ k > 1 THEN 0 ELSE 4
    BY <1>1, <1>2, <1>4, <2>1 DEF Kept
  <2> QED
    BY <1>1, <1>2, <1>4, <2>2 DEF InAll, Stage
<1> QED
  BY <1>2, <1>3, <1>4

LEMMA KeptOnRing ==
  ASSUME NEW cell \in Cells, InCell(cell), cell.topology = "ring", cell.policy # "quorum",
         NEW k \in 1 .. 8
  PROVE  /\ InAll(Around(cell)) = 10
         /\ InAll(Kept(cell, k)) =
              Stage(k, 8, IF cell.policy = "targeted" THEN 6 ELSE 4,
                          IF cell.policy = "targeted" THEN 6 ELSE 0)
<1>1. \A a \in 1 .. 5 : Around(cell)[a] = 2
  BY DEF Around
<1>2. /\ world.neighbours[1] = {2, 5} /\ world.neighbours[2] = {1, 3}
      /\ world.neighbours[3] = {2, 4} /\ world.neighbours[4] = {3, 5}
      /\ world.neighbours[5] = {1, 4}
  BY Places
<1>3. cell.defector \in {1, 2} /\ cell.policy \in {"targeted", "linked"}
  BY CellFacts
<1> DEFINE Near == IF cell.defector = 1 THEN {2, 5} ELSE {1, 3}
<1>4. \A a \in 1 .. 5 : cell.defector \in world.neighbours[a] <=> a \in Near
  <2> SUFFICES ASSUME NEW a \in 1 .. 5
               PROVE  cell.defector \in world.neighbours[a] <=> a \in Near
    OBVIOUS
  <2>1. a = 1 \/ a = 2 \/ a = 3 \/ a = 4 \/ a = 5
    OBVIOUS
  <2> QED
    BY <1>2, <1>3, <2>1
<1>5. world.neighbours[cell.defector] = Near
  BY <1>2, <1>3
<1>6. CASE cell.policy = "targeted"
  <2>1. \A a \in 1 .. 5 : Kept(cell, k)[a] =
          IF a = cell.defector THEN 0 ELSE IF k > 1 /\ a \in Near THEN 1 ELSE 2
    BY <1>1, <1>4, <1>6 DEF Kept
  <2> QED
    BY <1>1, <1>3, <1>6, <2>1 DEF InAll, Stage
<1>7. CASE cell.policy = "linked"
  <2>1. Spread(cell, k) = IF k = 1 THEN {cell.defector}
                          ELSE IF k = 2 THEN {cell.defector} \cup Near ELSE 1 .. 5
    BY <1>5, <1>7 DEF Spread
  <2>2. \A a \in 1 .. 5 : Kept(cell, k)[a] =
          IF a = cell.defector \/ (k = 2 /\ a \in Near) \/ k > 2 THEN 0 ELSE 2
    BY <1>1, <1>7, <2>1 DEF Kept
  <2> QED
    BY <1>1, <1>3, <1>7, <2>2 DEF InAll, Stage
<1> QED
  BY <1>3, <1>6, <1>7

LEMMA KeptOnStar ==
  ASSUME NEW cell \in Cells, InCell(cell), cell.topology = "star", cell.policy # "quorum",
         NEW k \in 1 .. 8
  PROVE  /\ InAll(Around(cell)) = 8
         /\ InAll(Kept(cell, k)) =
              IF Hub(cell) THEN Stage(k, 4, 0, 0)
              ELSE Stage(k, 7, IF cell.policy = "targeted" THEN 6 ELSE 3,
                               IF cell.policy = "targeted" THEN 6 ELSE 0)
<1>1. \A a \in 1 .. 5 : Around(cell)[a] = IF a = 1 THEN 4 ELSE 1
  BY DEF Around
<1>2. world.neighbours[1] = 2 .. 5 /\ \A a \in 2 .. 5 : world.neighbours[a] = {1}
  BY Places
<1>3. cell.defector \in {1, 2} /\ cell.policy \in {"targeted", "linked"}
  BY CellFacts
<1> DEFINE Near == IF cell.defector = 1 THEN 2 .. 5 ELSE {1}
<1>4. \A a \in 1 .. 5 : cell.defector \in world.neighbours[a] <=> a \in Near
  BY <1>2, <1>3
<1>5. world.neighbours[cell.defector] = Near
  BY <1>2, <1>3
<1>6. Hub(cell) <=> cell.defector = 1
  BY DEF Hub
<1>7. InAll(Around(cell)) = 8
  BY <1>1 DEF InAll
<1>8. CASE cell.policy = "targeted"
  <2>1. \A a \in 1 .. 5 : Kept(cell, k)[a] =
          IF a = cell.defector THEN 0
          ELSE (IF a = 1 THEN 4 ELSE 1) - (IF k > 1 /\ a \in Near THEN 1 ELSE 0)
    BY <1>1, <1>4, <1>8 DEF Kept
  <2> QED
    BY <1>3, <1>6, <1>7, <1>8, <2>1 DEF InAll, Stage
<1>9. CASE cell.policy = "linked"
  <2>1. Spread(cell, k) = IF k = 1 THEN {cell.defector}
                          ELSE IF k = 2 THEN {cell.defector} \cup Near ELSE 1 .. 5
    BY <1>5, <1>9 DEF Spread
  <2>2. \A a \in 1 .. 5 : Kept(cell, k)[a] =
          IF a = cell.defector \/ (k = 2 /\ a \in Near) \/ k > 2 THEN 0
          ELSE IF a = 1 THEN 4 ELSE 1
    BY <1>1, <1>9, <2>1 DEF Kept
  <2> QED
    BY <1>3, <1>6, <1>7, <1>9, <2>2 DEF InAll, Stage
<1> QED
  BY <1>3, <1>8, <1>9

(* In neighbourhood mode everybody has a neighbour and one vote. *)
LEMMA QuorumCounts ==
  ASSUME NEW cell \in Cells, InCell(cell), cell.policy = "quorum", NEW k \in 1 .. 8, NEW moves,
         AsPlanned(cell, moves, k), Played(moves, k - 1)
  PROVE  /\ Cardinality(Counted) = 5
         /\ Cardinality({e \in Counted : moves[e[1]][e[2]] = "C"})
              = IF k > 1 /\ Hub(cell) THEN 0 ELSE 4
<1>1. /\ world.mode = "neighbourhood" /\ Agents = 1 .. 5 /\ cell.defector \in {1, 2}
      /\ \A a : Addressees(a) = 1 .. 5
  <2>1. world.mode = "neighbourhood" /\ Agents = 1 .. 5 /\ cell.defector \in {1, 2}
    BY CellFacts
  <2> QED
    BY <2>1 DEF Addressees
<1>2. Active = 1 .. 5
  <2>1. ASSUME NEW a \in 1 .. 5 PROVE Degree(a) > 0
    <3>1. Degree(a) = Around(cell)[a]
      BY Degrees
    <3> QED
      BY <3>1 DEF Around
  <2> QED
    BY <1>1, <2>1 DEF Active
<1>3. Counted = {<<a, a>> : a \in 1 .. 5}
  BY <1>1, <1>2 DEF Counted
<1> DEFINE T == {e \in Counted : moves[e[1]][e[2]] = "C"}
           Cs == IF k > 1 /\ Hub(cell) THEN {} ELSE (1 .. 5) \ {cell.defector}
<1>4. \A a \in 1 .. 5 : moves[a][a] = "C" <=> a \in Cs
  <2> SUFFICES ASSUME NEW a \in 1 .. 5 PROVE moves[a][a] = "C" <=> a \in Cs
    OBVIOUS
  <2>1. moves[a][a] \in Moves
    BY <1>1 DEF Played
  <2>2. moves[a][a] = "D" <=> a \in Spread(cell, k)
    BY <1>1 DEF AsPlanned, Defects
  <2>3. Spread(cell, k) = IF k > 1 /\ Hub(cell) THEN 1 .. 5 ELSE {cell.defector}
    BY DEF Spread
  <2> QED
    BY <2>1, <2>2, <2>3 DEF Moves
<1>5. IsFiniteSet(1 .. 5) /\ Cardinality(1 .. 5) = 5
  BY OneToFive
<1>6. Cardinality(Counted) = 5
  <2> DEFINE f == [a \in 1 .. 5 |-> <<a, a>>]
  <2>1. /\ f \in [1 .. 5 -> Counted]
        /\ \A x \in 1 .. 5 : \A y \in 1 .. 5 : f[x] = f[y] => x = y
        /\ \A z \in Counted : \E x \in 1 .. 5 : f[x] = z
    BY <1>3
  <2>2. PICK S : S = 1 .. 5
    OBVIOUS
  <2> HIDE DEF f
  <2>3. IsFiniteSet(S) /\ Cardinality(S) = 5
    BY <1>5, <2>2
  <2>4. /\ f \in [S -> Counted]
        /\ \A x \in S : \A y \in S : f[x] = f[y] => x = y
        /\ \A z \in Counted : \E x \in S : f[x] = z
    BY <2>1, <2>2
  <2> QED
    BY <2>3, <2>4, SameSize
<1>7. IsFiniteSet(Cs) /\ Cardinality(Cs) = IF k > 1 /\ Hub(cell) THEN 0 ELSE 4
  <2>1. cell.defector \in 1 .. 5
    BY <1>1
  <2>2. /\ IsFiniteSet((1 .. 5) \ {cell.defector})
        /\ Cardinality((1 .. 5) \ {cell.defector}) = Cardinality(1 .. 5) - 1
    BY <1>5, <2>1, FS_RemoveElement
  <2> QED
    BY <1>5, <2>2, FS_EmptySet
<1>8. Cardinality(T) = Cardinality(Cs)
  <2> DEFINE h == [a \in Cs |-> <<a, a>>]
  <2>1. /\ h \in [Cs -> T]
        /\ \A x \in Cs : \A y \in Cs : h[x] = h[y] => x = y
        /\ \A z \in T : \E x \in Cs : h[x] = z
    BY <1>3, <1>4
  <2> HIDE DEF h, T, Cs
  <2> QED
    BY <1>7, <2>1, SameSize
<1> QED
  BY <1>6, <1>7, <1>8

-----------------------------------------------------------------------------
(* The law of proportional tit-for-tat *)

(* What is remembered of a fixed defector, and of the first round *)
LawInv ==
  last # None =>
    \A a \in Agents : \A b \in Addressees(a) :
      /\ policies[a].name = "alld" => last[a][b] = "D"
      /\ round = 1 /\ policies[a].name = "ptft" /\ ~ policies[a].explores => last[a][b] = "C"

(* It is remembered. *)
LEMMA LawAlways == Spec => []LawInv
<1>1. Init => LawInv
  BY DEF Init, LawInv
<1>2. DilemmaInv /\ Shown /\ LawInv /\ [Next]_vars => LawInv'
  <2> SUFFICES ASSUME DilemmaInv, Shown, LawInv, [Next]_vars PROVE LawInv'
    OBVIOUS
  <2>1. UNCHANGED <<world, policies>>
    BY DEF Next, Vote, Resolve, vars
  <2>2. Agents' = Agents /\ \A a : Addressees(a)' = Addressees(a)
    BY <2>1, SameWorld
  <2>3. CASE Resolve
    <3>1. last' = votes /\ round' = round + 1 /\ round \in Nat
      BY <2>3 DEF Resolve, DilemmaInv
    <3>2. ASSUME NEW a \in Agents, NEW b \in Addressees(a)
          PROVE  /\ policies[a].name = "alld" => votes[a][b] = "D"
                 /\ round = 0 /\ policies[a].name = "ptft" /\ ~ policies[a].explores
                      => votes[a][b] = "C"
      <4>1. votes[a] \in VotesOf(a)
        <5>1. a \in 1 .. Len(votes)
          BY <2>3, WorldFacts DEF DilemmaInv, Resolve
        <5> QED
          BY <5>1 DEF DilemmaInv
      <4>2. CASE policies[a].name = "alld"
        BY <4>1, <4>2 DEF VotesOf, Uniform
      <4>3. CASE round = 0 /\ policies[a].name = "ptft" /\ ~ policies[a].explores
        <5>1. votes[a] \in Uniform(a, Explored(a, Proportional(a)))
          BY <4>1, <4>3 DEF VotesOf
        <5>2. Explored(a, Proportional(a)) = {"C"}
          BY <4>3 DEF Explored, Proportional, Shown
        <5> QED
          BY <4>3, <5>1, <5>2 DEF Uniform
      <4> QED
        BY <4>2, <4>3
    <3> QED
      BY <2>1, <2>2, <3>1, <3>2 DEF LawInv
  <2>4. CASE Vote \/ UNCHANGED vars
    <3>1. UNCHANGED <<last, round>>
      BY <2>4 DEF Vote, vars
    <3> QED
      BY <2>1, <2>2, <3>1 DEF LawInv
  <2> QED
    BY <2>3, <2>4 DEF Next
<1> QED
  BY <1>1, <1>2, DilemmaAlways, ShownAlways, PTL DEF Spec

-----------------------------------------------------------------------------
(* The theorems *)

(* Nobody is punished for what happened outside its own games, on any       *)
(* graph and whatever the policies that choose freely do: a defection       *)
(* travels along games only, one hop a round, from an agent that defects of *)
(* its own accord (nipd_policies.py:1-20, graph_nipd_policies.py:28-83).    *)
THEOREM DefectionAlwaysWithinReach == Spec => []DefectionStaysWithinReach
<1>1. DilemmaInv => DefectionStaysWithinReach
  <2> SUFFICES ASSUME DilemmaInv, NEW k \in DOMAIN ledger, NEW a \in Agents,
                      NEW b \in DOMAIN ledger[k].moves[a], ledger[k].moves[a][b] = "D"
               PROVE  <<a, b>> \in Reach[k - 1]
    BY DEF DefectionStaysWithinReach
  <2>1. DOMAIN ledger = 1 .. round
    BY LenProperties DEF DilemmaInv
  <2>2. Played(ledger[k].moves, k - 1)
    BY <2>1 DEF DilemmaInv
  <2> QED
    BY <2>2 DEF Played
<1> QED
  BY <1>1, DilemmaAlways, PTL

(* Targeted tit-for-tat is exploited by each opponent for one round at      *)
(* most: over any number of rounds, on any graph and with any payoffs its   *)
(* score, divided or not, trails what its opponents took from it by T - S   *)
(* for each one that defected last (nipd_policies.py:91-105,                *)
(* graph_nipd.py:171-206).                                                  *)
THEOREM TftAlwaysExploitedAtMostOnce == Spec => []TftIsExploitedAtMostOnce
<1>1. TftInv => TftIsExploitedAtMostOnce
  <2> SUFFICES ASSUME TftInv, world.mode = "pairwise", last # None, NEW a \in Agents, Targeted(a)
               PROVE  LET opponents == world.neighbours[a]
                          taken == MapThenSumSet(LAMBDA b : Earned(b, a), opponents)
                          unpaid == {b \in opponents : last[b][a] = "D"}
                      IN  Divisor(a) * scores[a]
                            = Scale * (taken - (Pay.T - Pay.S) * Cardinality(unpaid))
    BY DEF TftIsExploitedAtMostOnce, Targeted
  <2>1. Taken(a) = MapThenSumSet(LAMBDA b : Earned(b, a), world.neighbours[a])
    BY DEF Taken
  <2>2. Unpaid(a) = {b \in world.neighbours[a] : last[b][a] = "D"}
    BY DEF Unpaid
  <2> QED
    BY <2>1, <2>2 DEF TftInv
<1> QED
  BY <1>1, TftAlways, PTL

(* The rate of each round and the rates of the agents are about the same    *)
(* votes, and no round divides by zero: in any world, with any policies. In *)
(* the eighteen cells of the graph experiment the rate of each of the eight *)
(* rounds is the fraction the design committed to before execution          *)
(* (metrics/cooperation.py:32-49, graph_nipd.py:178-198,                    *)
(* graph_experiment.py:80-93).                                              *)
THEOREM RatesAlwaysAsForetold == Spec => []RatesAreAsForetold
<1>1. DilemmaInv /\ CountInv /\ SpreadInv => RatesAreAsForetold
  <2> SUFFICES ASSUME DilemmaInv, CountInv, SpreadInv PROVE RatesAreAsForetold
    OBVIOUS
  <2>1. DOMAIN ledger = 1 .. round /\ round \in Nat /\ round <= world.rounds
    BY LenProperties DEF DilemmaInv
  <2>2. \A k \in DOMAIN ledger : Recounted(k)
    BY <2>1 DEF CountInv
  <2>3. ASSUME NEW cell \in Cells, InCell(cell), NEW k \in DOMAIN ledger,
               NEW rate, rate = ExpectedCurve(cell)[k]
        PROVE  ledger[k].cooperative * rate[2] = rate[1] * ledger[k].total
    <3>1. k \in 1 .. 8 /\ k \in Nat
      <4>1. world.rounds = 8
        BY <2>3, CellFacts
      <4> QED
        BY <2>1, <2>3, <4>1
    <3>2. AsPlanned(cell, ledger[k].moves, k) /\ Played(ledger[k].moves, k - 1)
      BY <2>1, <2>3 DEF SpreadInv, DilemmaInv
    <3>3. /\ ledger[k].total = Cardinality(Counted)
          /\ ledger[k].cooperative
               = Cardinality({e \in Counted : ledger[k].moves[e[1]][e[2]] = "C"})
      BY <2>2, <2>3 DEF Recounted
    <3>4. cell.topology \in {"complete", "ring", "star"} /\ cell.policy \in {"targeted", "linked", "quorum"}
      BY <2>3, CellFacts
    <3>5. CASE cell.policy = "quorum"
      <4>1. ledger[k].total = 5 /\ ledger[k].cooperative = IF k > 1 /\ Hub(cell) THEN 0 ELSE 4
        BY <2>3, <3>1, <3>2, <3>3, <3>5, QuorumCounts
      <4>2. rate = IF k > 1 /\ Hub(cell) THEN <<0, 1>> ELSE <<4, 5>>
        BY <2>3, <3>1, <3>5, Curves DEF Stage
      <4> QED
        BY <4>1, <4>2
    <3>6. CASE cell.policy # "quorum"
      <4>1. ledger[k].total = InAll(Around(cell)) /\ ledger[k].cooperative = InAll(Kept(cell, k))
        BY <2>3, <3>1, <3>2, <3>3, <3>6, PairwiseCounts
      <4>2. CASE cell.topology = "complete"
        BY <2>3, <3>1, <3>4, <3>6, <4>1, <4>2, Curves, KeptOnComplete DEF Stage, Hub
      <4>3. CASE cell.topology = "ring"
        BY <2>3, <3>1, <3>4, <3>6, <4>1, <4>3, Curves, KeptOnRing DEF Stage, Hub
      <4>4. CASE cell.topology = "star"
        BY <2>3, <3>1, <3>4, <3>6, <4>1, <4>4, Curves, KeptOnStar DEF Stage
      <4> QED
        BY <3>4, <4>2, <4>3, <4>4
    <3> QED
      BY <3>5, <3>6
  <2> QED
    BY <2>2, <2>3 DEF RatesAreAsForetold, InCell
<1> QED
  BY <1>1, DilemmaAlways, CountAlways, SpreadAlways, PTL

(* Whoever cooperated, on any graph and with any fixed defectors of the     *)
(* designs, proportional tit-for-tat draws with the probabilities of the    *)
(* published transition, and the play starts where the law does             *)
(* (sparse_ptft_exact.py:60-75, graph_nipd_policies.py:36-56).            *)
THEOREM PlayAlwaysDrawsFromTheLaw == Spec => []PlayDrawsFromTheLaw
<1>1. DilemmaInv /\ Shown /\ LawInv => PlayDrawsFromTheLaw
  <2> SUFFICES ASSUME DilemmaInv, Shown, LawInv, Declared, last # None
               PROVE  /\ Cooperators \in States /\ (round = 1 => Cooperators = Dynamic)
                      /\ \A a \in Dynamic : Fraction(Proportion(a).num, Proportion(a).den)
                                              = Probability(Cooperators, a)
    BY DEF PlayDrawsFromTheLaw
  <2>1. /\ InWorld /\ round \in Nat /\ world.mode = "neighbourhood" /\ Dynamic \subseteq Agents
        /\ \A a : Addressees(a) = Agents
    BY DEF DilemmaInv, Declared, Addressees, Dynamic
  <2>2. Played(last, round - 1)
    BY <2>1 DEF DilemmaInv, Shown
  <2>3. \A a \in Agents : last[a][a] \in Moves
    BY <2>1, <2>2 DEF Played
  <2>4. \A a \in Fixed : last[a][a] = "D"
    BY <2>1 DEF Fixed, LawInv
  <2>5. Cooperators \in States
    <3>1. \A a \in Cooperators : a \in Dynamic
      BY <2>4 DEF Cooperators, Dynamic
    <3> QED
      BY <3>1 DEF States
  <2>6. ASSUME round = 1 PROVE Cooperators = Dynamic
    <3>1. \A a \in Dynamic : last[a][a] = "C"
      BY <2>1, <2>6 DEF Declared, LawInv
    <3>2. Dynamic \subseteq Cooperators
      BY <2>1, <3>1 DEF Cooperators
    <3> QED
      BY <2>5, <3>2 DEF States
  <2>7. ASSUME NEW a \in Dynamic
        PROVE  Fraction(Proportion(a).num, Proportion(a).den) = Probability(Cooperators, a)
    <3>1. a \in Agents /\ Peers(a) = Degree(a)
      BY <2>1, PeersAreNeighbours DEF Degree
    <3>2. policies[a].include_self = Includes
      BY DEF Declared
    <3>3. Mine(a) = IF Includes THEN 1 ELSE 0
      BY <3>2 DEF Mine
    <3>4. CooperatingNeighbours(a) = Cardinality(world.neighbours[a] \cap Cooperators)
      <4>1. world.neighbours[a] \subseteq Agents
        BY <2>1, <3>1, WorldFacts
      <4>2. {b \in world.neighbours[a] : last[b][b] = "C"} = world.neighbours[a] \cap Cooperators
        BY <4>1 DEF Cooperators
      <4> QED
        BY <4>2 DEF CooperatingNeighbours
    <3>5. (last[a][a] = "C") <=> a \in Cooperators
      BY <3>1 DEF Cooperators
    <3> QED
      BY <3>1, <3>3, <3>4, <3>5 DEF Proportion, Probability
  <2> QED
    BY <2>5, <2>6, <2>7
<1> QED
  BY <1>1, DilemmaAlways, ShownAlways, LawAlways, PTL
==============================================================================
