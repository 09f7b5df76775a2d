---------------------------- MODULE RuleAblation ----------------------------
(***************************************************************************)
(* The ec-rule-ablation experiment (src/experiments/ec-rule-ablation): the *)
(* four components of the skeptical rule, switched one by one in six       *)
(* contexts.  The worlds are those of QualitySafeguards; the outcome of    *)
(* every variant, and where components interact, is foretold.              *)
(*                                                                         *)
(* A variant is the set of components that are on: S screens evidence, H   *)
(* shares contradictions, C challenges claims, R reads what is cited.      *)
(***************************************************************************)
EXTENDS ExperimentWorlds

QS == INSTANCE QualitySafeguards

Contexts == {"corroborated-private", "conflicted-private", "echo-private",
             "conflicted-ledger", "defender-private", "unread-private"}
Truths == {"accurate", "misleading"}
Factors == {"S", "H", "C", "R"}
Rounds == 14

Cells == [context : Contexts, truth : Truths, variant : SUBSET Factors]

Profile(context) ==
  CASE context = "defender-private" -> <<"U", "U", "A">>
    [] context = "unread-private" -> <<"U", "F", "A">>
    [] OTHER -> <<"A", "A", "A">>

Common(rule) == Policy(rule, 2, <<1, 1>>, 9)

AblationPolicy(variant) ==
  [Common("ablation") EXCEPT !.screen = "S" \in variant, !.contradictions = "H" \in variant,
                             !.challenge = "C" \in variant, !.read_citation = "R" \in variant]

AgentPolicy(cell, a) ==
  CASE Profile(cell.context)[a] = "A" -> AblationPolicy(cell.variant)
    [] Profile(cell.context)[a] = "U" -> Contributor
    [] Profile(cell.context)[a] = "F" -> Freerider

Structure(context) ==
  CASE context \in {"conflicted-private", "conflicted-ledger", "defender-private"} -> "conflicted"
    [] context = "echo-private" -> "echo"
    [] OTHER -> "corroborated"

(* In the last context there is one slot, and a3 can cite what it has no   *)
(* budget left to read.                                                    *)
World(cell, accountability) ==
  LET whole == QS!World(QS!Cell(cell.truth, Structure(cell.context),
                 IF cell.context = "conflicted-ledger" THEN "shared_ledger" ELSE "private",
                 accountability, "skeptical", QS!CCC))
      only(f) == [s \in {"s1"} |-> f[s]]
  IN IF cell.context # "unread-private" THEN whole
     ELSE [whole EXCEPT !.candidates = only(@), !.truth = only(@), !.inspect = 2,
                        !.facts = SubSeq(@, 1, 3), !.holders = <<{3}, {3}, {1}>>]

(* execute, for the cells of one context: what was done under names, where *)
(* the evidence is accurate, is done again anonymously                     *)
Stages(context) ==
  LET part == {c \in Cells : c.context = context}
  IN <<Behavior(part), Fixed({c \in part : c.truth = "accurate"})>>

EpisodeWorld(e) == World(e.cell, IF e.kind = "fixed" THEN "aggregate" ELSE "attributable")

-----------------------------------------------------------------------------
(* R: the records there are of the cells of a context, F: those of the     *)
(* same actions done anonymously                                           *)
(*                                                                         *)
(* The table of outcomes: accepted slots, effort, credit in the accurate   *)
(* world, and contributions of 42 actions.                                 *)

ExpectedOutcome(context, variant) ==
  LET screen == "S" \in variant
      rest == variant \ {"R"}
  IN CASE context = "corroborated-private" -> <<2, 48, 14, 39>>
       [] context = "echo-private" -> IF screen THEN <<0, 24, 0, 24>> ELSE <<2, 48, 14, 39>>
       [] context = "unread-private" -> IF "R" \in variant THEN <<0, 8, 0, 8>> ELSE <<1, 10, 5, 9>>
       [] context = "conflicted-ledger" ->
            IF screen THEN <<0, 18, 0, 18>>
            ELSE IF "C" \in variant THEN <<0, 48, 0, 42>> ELSE <<2, 42, 14, 33>>
       [] context = "conflicted-private" ->
            (CASE rest = {} -> <<2, 41, 14, 32>> [] rest = {"C"} -> <<2, 40, 14, 33>>
              [] rest = {"H"} -> <<2, 48, 14, 39>> [] rest = {"H", "C"} -> <<0, 42, 0, 42>>
              [] rest = {"S"} -> <<1, 26, 5, 24>> [] rest = {"S", "C"} -> <<0, 30, 0, 28>>
              [] rest \in {{"S", "H"}, {"S", "H", "C"}} -> <<0, 24, 0, 24>>)
       [] context = "defender-private" ->
            (CASE rest = {} -> <<2, 41, 14, 32>> [] rest = {"C"} -> <<2, 40, 14, 33>>
              [] rest = {"H"} -> <<2, 48, 14, 39>> [] rest = {"H", "C"} -> <<1, 47, 7, 40>>
              [] rest = {"S"} -> <<2, 30, 10, 26>> [] rest = {"S", "C"} -> <<0, 34, 0, 30>>
              [] rest = {"S", "H"} -> <<2, 36, 10, 32>> [] rest = {"S", "H", "C"} -> <<0, 40, 0, 36>>)

Sign(truth) == IF truth = "accurate" THEN 1 ELSE -1

Figures(r) == [quality |-> r.quality, contribution |-> Contributions(r), effort |-> Total(r.effort),
               credit |-> Total(r.credit), utility |-> Total(r.utility),
               accepted |-> r.correct + r.wrong]

(* credit and utility in thirds *)
OutcomesAgree(R) ==
  \A c \in DOMAIN R :
    LET out == ExpectedOutcome(c.context, c.variant)
        signed(n) == Sign(c.truth) * n
    IN Figures(R[c]) =
         [quality |-> signed(12 * out[1]), contribution |-> out[4], effort |-> out[2],
          credit |-> 3 * signed(out[3]), utility |-> 3 * (signed(12 * out[1] + out[3]) - out[2]),
          accepted |-> out[1]]

ContextsOf(R) == {c.context : c \in DOMAIN R}
Flipped(cell) == [cell EXCEPT !.truth = "misleading"]

TruthIsHidden(R) ==
  \A c \in DOMAIN R : c.truth = "accurate" /\ Flipped(c) \in DOMAIN R =>
    LET good == R[c]
        bad == R[Flipped(c)]
    IN /\ Actions(good) = Actions(bad) /\ Observations(good) = Observations(bad)
       /\ good.effort = bad.effort /\ good.quality = - bad.quality
       /\ \A a \in Agents : good.credit[a] = - bad.credit[a]

-----------------------------------------------------------------------------
(* Contrasts: for the factors varied over a background of the others, the  *)
(* alternating sum over the corners                                        *)

Contrast(R, context, truth, varied, background, figure) ==
  MapThenSumSet(
    LAMBDA corner :
      (IF (Cardinality(varied) - Cardinality(corner)) % 2 = 0 THEN 1 ELSE -1)
        * Figures(R[[context |-> context, truth |-> truth, variant |-> corner \cup background]])[figure],
    SUBSET varied)

Backgrounds(varied) == SUBSET (Factors \ varied)
SwitchIgnored(R, context, truth, factor, background) ==
  LET cell(variant) == [context |-> context, truth |-> truth, variant |-> variant]
  IN Actions(R[cell(background)]) = Actions(R[cell(background \cup {factor})])

(* what a context makes idle; the echo never leaves the screen idle *)
Idle(context) ==
  CASE context = "corroborated-private" -> Factors
    [] context = "conflicted-ledger" -> {"H", "R"}
    [] context = "unread-private" -> {"S", "H", "C"}
    [] context = "echo-private" -> {"H", "C", "R"}
    [] OTHER -> {"R"}

NullsAreNull(R) ==
  \A context \in ContextsOf(R), truth \in Truths, factor \in Factors :
    \A background \in Backgrounds({factor}) :
      /\ factor \in Idle(context) => SwitchIgnored(R, context, truth, factor, background)
      /\ context = "echo-private" /\ factor = "S"
           => ~SwitchIgnored(R, context, truth, factor, background)

InteractionsAgree(R) ==
  \A truth \in Truths :
    LET quality(context, varied, background) ==
          Contrast(R, context, truth, varied, background, "quality")
    IN /\ "conflicted-ledger" \in ContextsOf(R) =>
            \A b \in Backgrounds({"S", "C"}) :
              quality("conflicted-ledger", {"S", "C"}, b) = 24 * Sign(truth)
       /\ "conflicted-private" \in ContextsOf(R) =>
            /\ \A b \in Backgrounds({"H", "C"}) :
                 quality("conflicted-private", {"H", "C"}, b)
                   = (IF "S" \in b THEN 12 ELSE -24) * Sign(truth)
            /\ \A b \in Backgrounds({"S", "H", "C"}) :
                 quality("conflicted-private", {"S", "H", "C"}, b) = 36 * Sign(truth)
       /\ "unread-private" \in ContextsOf(R) =>
            \A varied \in {v \in SUBSET Factors : Cardinality(v) > 1} :
              \A b \in Backgrounds(varied), figure \in DOMAIN Figures(R[CHOOSE c \in DOMAIN R : TRUE]) :
                Contrast(R, "unread-private", truth, varied, b, figure) = 0

AccountingLeavesTheTaskAlone(R, F) ==
  \A c \in DOMAIN F : SameTask(R[c], F[c])

(* endpoint_bridge: where all components are on, or all off, the older     *)
(* rules asked for the same observations would have done the same          *)
Original(variant) == IF variant = Factors THEN Common("skeptical") ELSE Common("conditional")
Bridged(cell) == IF cell.variant \in {{}, Factors} THEN {a \in Agents : Profile(cell.context)[a] = "A"}
                 ELSE {}

EndpointsAreTheOlderRules(R) ==
  \A c \in DOMAIN R : \A n \in DOMAIN R[c].rounds, a \in Bridged(c) :
    R[c].rounds[n].done[a] = R[c].rounds[n].original[a]

RecordsAgree(R, F) ==
  /\ TruthIsHidden(R) /\ EndpointsAreTheOlderRules(R) /\ OutcomesAgree(R)
  /\ AccountingLeavesTheTaskAlone(R, F)

Predictions(R, F) == RecordsAgree(R, F) /\ NullsAreNull(R) /\ InteractionsAgree(R)
=============================================================================
