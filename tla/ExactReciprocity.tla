-------------------------- MODULE ExactReciprocity --------------------------
(***************************************************************************)
(* The exact law of proportional tit-for-tat among fixed defectors, as it  *)
(* is computed twice beside the simulator: for who cooperates on a graph   *)
(* (src/experiments/sparse-ptft) and for how many do in a population       *)
(* (src/studies/002-nipd-sensitivity/study002_markov.py).                  *)
(*                                                                         *)
(* A state is the set of cooperators.  A Fraction is <<numerator,          *)
(* denominator>> in lowest terms.                                          *)
(***************************************************************************)
EXTENDS DilemmaProperties, SequencesExt

Gcd[a \in Nat, b \in Nat] == IF b = 0 THEN a ELSE Gcd[b, a % b]
Fraction(n, d) ==
  LET g == Gcd[IF n < 0 THEN -n ELSE n, d] IN <<n \div g, d \div g>>
Times(x, y) ==
  LET p == Fraction(x[1], y[2]) q == Fraction(y[1], x[2]) IN <<p[1] * q[1], p[2] * q[2]>>
Plus(x, y) ==
  LET g == Gcd[x[2], y[2]]
  IN Fraction(x[1] * (y[2] \div g) + y[1] * (x[2] \div g), x[2] * (y[2] \div g))
Whole(n) == <<n, 1>>
Minus(x, y) == Plus(x, Times(Whole(-1), y))
SumOf(f) == FoldFunction(Plus, Whole(0), f)
ProductOf(f) == FoldFunction(Times, Whole(1), f)

-----------------------------------------------------------------------------
(* cells: adjacency and fixed defectors of the eight designs               *)
CompleteGraph(n) == [a \in 1 .. n |-> (1 .. n) \ {a}]
Cycle == <<{2, 4}, {1, 3}, {2, 4}, {1, 3}>>
Star == <<{2, 3, 4}, {1}, {1}, {1}>>

Designs ==
  {<<CompleteGraph(3), {3}>>, <<CompleteGraph(5), {5}>>, <<CompleteGraph(5), {4, 5}>>,
   <<Cycle, {4}>>, <<Star, {1}>>, <<Star, {4}>>, <<Cycle, {}>>, <<Cycle, 1 .. 4>>}

(* Designs whose count of cooperators is no chain of its own (EXACT.json). *)
Rejected(graph, fixed, includes) ==
  \/ graph = Cycle /\ (fixed = {4} \/ (fixed = {} /\ ~includes))
  \/ graph = Star /\ fixed = {4}

Fixed == {a \in Agents : policies[a].name = "alld"}
Dynamic == Agents \ Fixed
Includes == \E a \in Dynamic : policies[a].include_self
States == SUBSET Dynamic

Declared ==
  /\ world.mode = "neighbourhood" /\ <<world.neighbours, Fixed>> \in Designs
  /\ \A a \in Dynamic : /\ policies[a].name = "ptft" /\ ~policies[a].explores
                        /\ policies[a].include_self = Includes

(* probabilities: of the next broadcast of an actor that is not fixed      *)
Probability(s, a) ==
  LET own == IF Includes THEN 1 ELSE 0
  IN Fraction(Cardinality(world.neighbours[a] \cap s) + (IF a \in s THEN own ELSE 0), Degree(a) + own)

TransitionMatrix ==
  [s \in States |-> [t \in States |->
     ProductOf([a \in Dynamic |-> IF a \in t THEN Probability(s, a)
                                  ELSE Minus(Whole(1), Probability(s, a))])]]

(* count_projection *)
CountLaw(row) ==
  [k \in 0 .. Cardinality(Dynamic) |->
     SumOf([t \in {x \in States : Cardinality(x) = k} |-> row[t]])]
Lumpable(matrix) ==
  \A s, t \in States : Cardinality(s) = Cardinality(t) => CountLaw(matrix[s]) = CountLaw(matrix[t])

(* benchmark: the weight of each state, and along the paths that lead to   *)
(* it the sum and the sum of squares of the cooperators so far             *)
Start ==
  LET m == Cardinality(Dynamic) IN
  [s \in States |-> IF s = Dynamic THEN [p |-> Whole(1), a |-> Whole(m), b |-> Whole(m * m)]
                    ELSE [p |-> Whole(0), a |-> Whole(0), b |-> Whole(0)]]

Onward(matrix, path) ==
  [t \in States |->
     LET k == Cardinality(t)
         from(w(_)) == SumOf([s \in States |-> Times(matrix[s][t], w(path[s]))])
         p == from(LAMBDA x : x.p)
         a == from(LAMBDA x : x.a)
     IN [p |-> p, a |-> Plus(a, Times(Whole(k), p)),
         b |-> Plus(from(LAMBDA x : x.b),
                    Plus(Times(Whole(2 * k), a), Times(Whole(k * k), p)))]]

Paths(matrix) ==
  FoldLeft(LAMBDA paths, t : Append(paths, Onward(matrix, Last(paths))), <<Start>>,
           [t \in 2 .. world.rounds |-> t])

-----------------------------------------------------------------------------
(* Study 002: the count of cooperators among m of n agents                 *)
Power[x \in Int \X Int, k \in Nat] == IF k = 0 THEN Whole(1) ELSE Times(x, Power[x, k - 1])

Binomial(trials, p) ==
  [k \in 0 .. trials |->
     Times(Whole(Cardinality({x \in SUBSET (1 .. trials) : Cardinality(x) = k})),
           Times(Power[p, k], Power[Minus(Whole(1), p), trials - k]))]

CountMatrix(n, m) ==
  [x \in 0 .. m |->
     IF Includes THEN Binomial(m, Fraction(x, n))
     ELSE LET again == Binomial(x, Fraction(x - 1, n - 1))
              anew == Binomial(m - x, Fraction(x, n - 1))
          IN [k \in 0 .. m |-> SumOf([i \in {j \in 0 .. x : k - j \in 0 .. m - x} |->
                                       Times(again[i], anew[k - i])])]]

Distributions(matrix, m) ==
  FoldLeft(LAMBDA laws, t : Append(laws,
             [k \in 0 .. m |-> SumOf([x \in 0 .. m |-> Times(Last(laws)[x], matrix[x][k])])]),
           <<[k \in 0 .. m |-> Whole(IF k = m THEN 1 ELSE 0)]>>, [t \in 2 .. world.rounds |-> t])

(* _mean_variance: the covariance of two rounds decays by the conditional  *)
(* mean's factor for each round between them                               *)
CrossTerms(variances, decay) ==
  FoldRight(LAMBDA v, acc : [cross |-> Plus(acc.cross, Times(v, acc.future)),
                             future |-> Times(decay, Plus(Whole(1), acc.future))],
            variances, [cross |-> Whole(0), future |-> Whole(0)]).cross

-----------------------------------------------------------------------------
Moment(law, power) == SumOf([k \in DOMAIN law |-> Times(law[k], Whole(k ^ power))])
Variance(law) == Minus(Moment(law, 2), Times(Moment(law, 1), Moment(law, 1)))

(* _verify_complete *)
MatchesTheCountLaw(matrix) ==
  LET n == Len(world.neighbours)
      m == Cardinality(Dynamic)
      counts == CountMatrix(n, m)
      decay == IF Includes THEN Fraction(m, n) ELSE Fraction(m - 1, n - 1)
      laws == Distributions(counts, m)
      paths == Paths(matrix)
      ending == Last(paths)
      total == SumOf([s \in States |-> ending[s].a])
      variance == Minus(SumOf([s \in States |-> ending[s].b]), Times(total, total))
      spreads == [t \in DOMAIN laws |-> Variance(laws[t])]
  IN /\ \A s \in States : CountLaw(matrix[s]) = counts[Cardinality(s)]
     /\ \A t \in DOMAIN paths : CountLaw([s \in States |-> paths[t][s].p]) = laws[t]
     /\ total = SumOf([t \in DOMAIN laws |-> Moment(laws[t], 1)])
     /\ Minus(variance, SumOf(spreads)) = Times(Whole(2), CrossTerms(spreads, decay))

(* The witness of build_report: two cooperators on the cycle next to each  *)
(* other or apart, with the fourth agent fixed and nobody counting itself. *)
Witnessed(matrix) ==
  /\ CountLaw(matrix[{1, 2}]) = [k \in 0 .. 3 |-> Fraction(IF k \in {0, 3} THEN 1 ELSE 3, 8)]
  /\ CountLaw(matrix[{1, 3}]) = [k \in 0 .. 3 |-> Whole(IF k = 1 THEN 1 ELSE 0)]

Cooperators == {a \in Agents : last[a][a] = "C"}

(* Whoever cooperated, the policy draws with the probabilities of the      *)
(* law's transition, and from the state the law starts in                  *)
(* (sparse_ptft_exact.py:60-75, graph_nipd_policies.py:36-56).           *)
PlayDrawsFromTheLaw ==
  Declared /\ last # None =>
    /\ Cooperators \in States /\ (round = 1 => Cooperators = Dynamic)
    /\ \A a \in Dynamic :
         Fraction(Proportion(a).num, Proportion(a).den) = Probability(Cooperators, a)

(* What is published as the exact law is the law of the play.  And the two *)
(* computations of it agree: on complete graphs the projected chain, its   *)
(* moments and the variance with all covariances are those that Study 002  *)
(* derives from binomials and a decay, and on sparse graphs the projection *)
(* is refused exactly where who cooperates matters beyond how many do      *)
(* (sparse_ptft_exact.py:60-176, generate.py:43-86, study002_markov.py:    *)
(* 41-109).                                                                *)
PlayFollowsTheExactLaw ==
  /\ PlayDrawsFromTheLaw
  /\ Declared /\ last = None /\ votes = << >> =>
       LET matrix == TransitionMatrix IN
       /\ Lumpable(matrix) <=> ~Rejected(world.neighbours, Fixed, Includes)
       /\ world.neighbours = CompleteGraph(Len(world.neighbours)) => MatchesTheCountLaw(matrix)
       /\ (world.neighbours = Cycle /\ Fixed = {4} /\ ~Includes) => Witnessed(matrix)
=============================================================================
