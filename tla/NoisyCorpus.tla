----------------------------- MODULE NoisyCorpus -----------------------------
(***************************************************************************)
(* The noisy-corpus experiment (src/experiments/noisy-corpus): three       *)
(* sources report on one slot, each rightly or wrongly, under distinct     *)
(* labels or one.  Two models of error reweigh the same 64 episodes, and   *)
(* closed forms foretell every action, figure and expectation.             *)
(***************************************************************************)
EXTENDS ExperimentWorlds

Truths == {"p", "q"}
Reports == [Agents -> Truths]
Rules == {"conditional", "skeptical"}
Labels == {"distinct", "collapsed"}
Rounds == 8

Cells == [truth : Truths, reports : Reports, rule : Rules, labels : Labels]

Policies(cell) ==
  [a \in Agents |-> Policy(cell.rule, IF cell.rule = "skeptical" THEN 2 ELSE 1, <<0, 1>>, 0)]

World(cell, accountability) ==
  [candidates |-> [s \in {"s1"} |-> {"p", "q"}],
   truth |-> [s \in {"s1"} |-> cell.truth],
   facts |-> [e \in 1 .. 3 |->
     Item(IF cell.labels = "distinct" THEN <<"src-1", "src-2", "src-3">>[e] ELSE "src-1",
          "s1", cell.reports[e], "supports")],
   holders |-> <<{1}, {2}, {3}>>,
   inspect |-> 3, verify |-> 2, rounds |-> Rounds, weights |-> UsualWeights,
   institution |-> [accountability |-> accountability, topology |-> "shared_ledger"],
   audit |-> Unaudited]

(* execute, for the cells under one kind of labels *)
CellsOf(labels) == {c \in Cells : c.labels = labels}
Stages(labels) == <<Behavior(CellsOf(labels)), Fixed(CellsOf(labels))>>
EpisodeWorld(e) == World(e.cell, IF e.kind = "fixed" THEN "attributable" ELSE "aggregate")

-----------------------------------------------------------------------------
(* The closed forms *)

Unanimous(cell) == \A a \in Agents : cell.reports[a] = cell.reports[1]
Accepting(cell) == cell.rule = "conditional" \/ (cell.labels = "distinct" /\ Unanimous(cell))

ActionSchedule(cell) ==
  [n \in 1 .. Rounds |-> [a \in Agents |->
     CASE n <= 3 -> [do |-> "inspect", item |-> n]
       [] n = 4 /\ Accepting(cell) ->
            [do |-> "propose", slot |-> "s1", proposition |-> cell.reports[1],
             cited |-> {e \in 1 .. 3 : cell.reports[e] = cell.reports[1]}]
       [] n \in {5, 6} /\ Accepting(cell) ->
            [do |-> "verify", claim |-> <<<<2, 1, 1>>, <<3, 3, 2>>>>[n - 4][a]]
       [] OTHER -> [do |-> "withhold"]]]

(* utilities in thirds, contributions of 24 actions *)
EpisodeMetrics(cell, accountability) ==
  LET right == cell.truth = cell.reports[1] IN
  IF ~Accepting(cell)
  THEN [correct |-> 0, wrong |-> 0, quality |-> 0, effort |-> 9, contributions |-> 9, credit |-> 0,
        utility |-> <<-9, -9, -9>>]
  ELSE [correct |-> IF right THEN 1 ELSE 0, wrong |-> IF right THEN 0 ELSE 1,
        quality |-> IF right THEN 12 ELSE -12, effort |-> 24, contributions |-> 18,
        credit |-> IF right THEN 7 ELSE -7,
        utility |-> CASE accountability = "aggregate" /\ right -> <<-5, -5, -5>>
                      [] accountability = "aggregate" /\ ~right -> <<-43, -43, -43>>
                      [] accountability = "attributable" /\ right -> <<-3, -6, -6>>
                      [] accountability = "attributable" /\ ~right -> <<-45, -42, -42>>]

Metrics(r) ==
  [correct |-> r.correct, wrong |-> r.wrong, quality |-> r.quality, effort |-> Total(r.effort),
   contributions |-> Contributions(r), credit |-> Total(r.credit) \div 3, utility |-> r.utility]

-----------------------------------------------------------------------------
(* The populations of worlds: models of error at a rate of E twentieths    *)

Models == {"independent", "correlated"}
Rates == {0, 2, 5, 10, 15, 20}
Whole == 2 * 20 * 20 * 20     \* the denominator of the masses

SourceMass(truth, report, E) == IF report # truth THEN E ELSE 20 - E

WorldMass(truth, reports, model, E) ==
  IF model = "independent"
  THEN SourceMass(truth, reports[1], E) * SourceMass(truth, reports[2], E)
         * SourceMass(truth, reports[3], E)
  ELSE IF \A a \in Agents : reports[a] = reports[1]
       THEN 400 * SourceMass(truth, reports[1], E) ELSE 0

(* probability_audit: masses sum to one, the truths are balanced, and each *)
(* source errs at the declared rate                                        *)
ProbabilitiesAgree ==
  \A model \in Models, E \in Rates :
    LET mass(which(_, _)) ==
          MapThenSumSet(LAMBDA w : IF which(w[1], w[2]) THEN WorldMass(w[1], w[2], model, E) ELSE 0,
                        Truths \X Reports)
    IN /\ mass(LAMBDA t, rs : TRUE) = Whole
       /\ \A truth \in Truths : 2 * mass(LAMBDA t, rs : t = truth) = Whole
       /\ \A a \in Agents : 20 * mass(LAMBDA t, rs : rs[a] # t) = E * Whole

(* masses of a right and of a wrong acceptance *)
Acceptance(model, rule, labels, E) ==
  LET right == 20 - E IN
  IF rule = "skeptical" /\ labels = "collapsed" THEN [correct |-> 0, wrong |-> 0]
  ELSE IF rule = "skeptical" /\ model = "independent"
       THEN [correct |-> 2 * right * right * right, wrong |-> 2 * E * E * E]
       ELSE [correct |-> 800 * right, wrong |-> 800 * E]

ExpectedMetrics(model, rule, labels, E) ==
  LET c == Acceptance(model, rule, labels, E).correct
      w == Acceptance(model, rule, labels, E).wrong
  IN [correct |-> c, wrong |-> w, quality |-> 12 * (c - w), effort |-> 9 * Whole + 15 * (c + w),
      contributions |-> 9 * (Whole + c + w), credit |-> 7 * (c - w),
      utility |-> 19 * (c - w) - 9 * Whole - 15 * (c + w)]

(* conditioned on one truth, or over both *)
Conditions == {Truths} \cup {{t} : t \in Truths}
WeightedMetrics(R, model, E, rule, labels, condition) ==
  LET cells == {c \in Cells : c.rule = rule /\ c.labels = labels /\ c.truth \in condition}
      mean(figure(_)) ==
        MapThenSumSet(LAMBDA c : WorldMass(c.truth, c.reports, model, E) * (2 \div Cardinality(condition))
                                   * figure(Metrics(R[c])), cells)
  IN [correct |-> mean(LAMBDA m : m.correct), wrong |-> mean(LAMBDA m : m.wrong),
      quality |-> mean(LAMBDA m : m.quality), effort |-> mean(LAMBDA m : m.effort),
      contributions |-> mean(LAMBDA m : m.contributions), credit |-> mean(LAMBDA m : m.credit),
      utility |-> mean(LAMBDA m : Total(m.utility)) \div 3]

-----------------------------------------------------------------------------
(* The checks.  R: the records there are of the cells, F: those of the     *)
(* same actions done under attributable accountability                     *)

Flipped(cell) == [cell EXCEPT !.truth = IF @ = "p" THEN "q" ELSE "p"]

TruthIsHidden(R) ==
  \A c \in DOMAIN R : Flipped(c) \in DOMAIN R =>
    /\ Observations(R[c]) = Observations(R[Flipped(c)])
    /\ Actions(R[c]) = Actions(R[Flipped(c)])
    /\ R[c].quality = - R[Flipped(c)].quality /\ R[c].effort = R[Flipped(c)].effort

FollowsClosedForm(R) ==
  \A c \in DOMAIN R : /\ Actions(R[c]) = ActionSchedule(c)
                      /\ Metrics(R[c]) = EpisodeMetrics(c, "aggregate")

LabelsOf(R) == {c.labels : c \in DOMAIN R}
ExpectationsAgree(R) ==
  \A model \in Models, E \in Rates, rule \in Rules, labels \in LabelsOf(R), condition \in Conditions :
    WeightedMetrics(R, model, E, rule, labels, condition) = ExpectedMetrics(model, rule, labels, E)

Quality(R, model, E, rule) == WeightedMetrics(R, model, E, rule, "distinct", Truths).quality

(* screening costs quality while sources err seldom, and only then *)
ScreeningCosts(R) ==
  "distinct" \in LabelsOf(R) => \A E \in Rates :
    LET delta == Quality(R, "independent", E, "skeptical") - Quality(R, "independent", E, "conditional")
    IN CASE E \in {2, 5} -> delta < 0 [] E = 15 -> delta > 0 [] OTHER -> delta = 0

(* errors made together, corroboration detects none *)
CorrelationDefeatsScreening(R) ==
  "distinct" \in LabelsOf(R) => \A E \in Rates :
    WeightedMetrics(R, "correlated", E, "skeptical", "distinct", Truths)
      = WeightedMetrics(R, "correlated", E, "conditional", "distinct", Truths)

CollapsedLabelsSilence(R) ==
  \A c \in DOMAIN R : c.rule = "skeptical" /\ c.labels = "collapsed" => R[c].correct + R[c].wrong = 0

AccountingLeavesTheTaskAlone(R, F) ==
  \A c \in DOMAIN F : /\ SameTask(R[c], F[c]) /\ Total(R[c].credit) = Total(F[c].credit)
                      /\ Metrics(F[c]) = EpisodeMetrics(c, "attributable")

RecordsAgree(R, F) ==
  /\ TruthIsHidden(R) /\ FollowsClosedForm(R) /\ CollapsedLabelsSilence(R)
  /\ AccountingLeavesTheTaskAlone(R, F)

Predictions(R, F) ==
  /\ RecordsAgree(R, F) /\ ProbabilitiesAgree /\ ExpectationsAgree(R)
  /\ ScreeningCosts(R) /\ CorrelationDefeatsScreening(R)
=============================================================================
