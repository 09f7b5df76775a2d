---------------------------- MODULE AuditFeedback ----------------------------
(***************************************************************************)
(* The audit-feedback experiment (src/experiments/audit-feedback): three   *)
(* sources agree on one proposition, an audit publishes a finding on it at *)
(* a chosen round, and policies that veto what was found negative react.   *)
(* The experiment states in advance every action and figure of its 76      *)
(* episodes and the exact laws of their mixtures; this module states the   *)
(* worlds, what is foretold of them, and the checks made on the records.   *)
(*                                                                         *)
(* verdict and trace "none" and at 0 stand for JSON null.                  *)
(***************************************************************************)
EXTENDS ExperimentWorlds

Truths == {"p", "q"}
Verdicts == {"positive", "negative", "unavailable"}
Timings == 3 .. 6
Rounds == 8

Cells ==
  [kind : {"unaudited_behavior"}, truth : Truths, report : Truths,
   verdict : {"none"}, at : {0}, trace : {"none"}]
  \cup [kind : {"audited_behavior"}, truth : Truths, report : Truths,
        verdict : Verdicts, at : Timings, trace : {"none"}]
  \cup [kind : {"unaudited_fixed"}, truth : Truths, report : Truths,
        verdict : {"none"}, at : {0}, trace : {"B", "C", "D"}]
  \cup [kind : {"audited_fixed"}, truth : Truths, report : Truths,
        verdict : {"negative"}, at : {3, 4, 5}, trace : {"A"}]

Audited(cell) == cell.verdict # "none"
Literal(cell) == cell.kind \in {"unaudited_fixed", "audited_fixed"}

-----------------------------------------------------------------------------
(* What is foretold of an episode *)

TraceFor(verdict, at) ==
  IF verdict # "negative" THEN "A"
  ELSE CASE at = 3 -> "B" [] at = 4 -> "C" [] at = 5 -> "D" [] at = 6 -> "A"

ExpectedTrace(cell) == IF cell.trace # "none" THEN cell.trace ELSE TraceFor(cell.verdict, cell.at)

Tokens(trace) ==
  CASE trace = "A" -> <<"I1", "I2", "I3", "P", "V1", "V2", "W", "W">>
    [] trace = "B" -> <<"I1", "I2", "I3", "W", "W", "W", "W", "W">>
    [] trace = "C" -> <<"I1", "I2", "I3", "P", "W", "W", "W", "W">>
    [] trace = "D" -> <<"I1", "I2", "I3", "P", "V1", "W", "W", "W">>

LiteralAction(token, report, a) ==
  CASE token = "I1" -> [do |-> "inspect", item |-> 1]
    [] token = "I2" -> [do |-> "inspect", item |-> 2]
    [] token = "I3" -> [do |-> "inspect", item |-> 3]
    [] token = "P" -> [do |-> "propose", slot |-> "s1", proposition |-> report, cited |-> {1, 2, 3}]
    [] token = "V1" -> [do |-> "verify", claim |-> <<2, 1, 1>>[a]]
    [] token = "V2" -> [do |-> "verify", claim |-> <<3, 3, 2>>[a]]
    [] token = "W" -> [do |-> "withhold"]

LiteralSchedule(trace, report) ==
  [n \in 1 .. Rounds |-> [a \in Agents |-> LiteralAction(Tokens(trace)[n], report, a)]]

Sign(truth, report) == IF truth = report THEN 1 ELSE -1

(* The contribution is counted in actions: the table's fraction of 24. *)
LiteralOutcome(trace, truth, report) ==
  LET row == CASE trace = "A" -> <<8, 0, 18>> [] trace = "B" -> <<3, 2, 9>>
               [] trace = "C" -> <<4, 2, 12>> [] trace = "D" -> <<6, 1, 15>>
      accepted == trace \in {"A", "D"}
      signed == IF accepted THEN Sign(truth, report) ELSE 0
  IN [briefing |-> [s \in {"s1"} |->
        IF accepted THEN [claim |-> 1, proposition |-> report, proposer |-> 1,
                          provenance_ok |-> TRUE, net_support |-> 2] ELSE None],
      verify_left |-> [a \in Agents |-> row[2]],
      accepted |-> IF accepted THEN 1 ELSE 0,
      quality |-> 12 * signed,
      effort |-> [a \in Agents |-> row[1]],
      credit |-> [a \in Agents |-> 7 * signed],
      utility |-> [a \in Agents |-> 19 * signed - 3 * row[1]],
      contributions |-> row[3]]

-----------------------------------------------------------------------------
(* The worlds *)

(* the parameters under which the generator can publish this verdict only *)
Endpoint(truth, report, verdict) ==
  IF verdict = "unavailable" THEN [accuracy |-> <<1, 1>>, unavailable |-> <<1, 1>>]
  ELSE [accuracy |-> <<IF (verdict = "positive") = (truth = report) THEN 1 ELSE 0, 1>>,
        unavailable |-> <<0, 1>>]

AuditOf(cell) ==
  IF ~Audited(cell) THEN Unaudited
  ELSE [schedule |-> {[slot |-> "s1", proposition |-> cell.report, at |-> cell.at]},
        accuracy |-> Endpoint(cell.truth, cell.report, cell.verdict).accuracy,
        unavailable |-> Endpoint(cell.truth, cell.report, cell.verdict).unavailable]

SkepticalPolicy == Policy("skeptical", 2, <<0, 1>>, 0)
ActivePolicy(cell) == IF Audited(cell) THEN Policy("audit_veto", 2, <<0, 1>>, 0) ELSE SkepticalPolicy

World(cell) ==
  [candidates |-> [s \in {"s1"} |-> {"p", "q"}],
   truth |-> [s \in {"s1"} |-> cell.truth],
   facts |-> <<Item("src-1", "s1", cell.report, "supports"), Item("src-2", "s1", cell.report, "supports"),
               Item("src-3", "s1", cell.report, "supports")>>,
   holders |-> <<{1}, {2}, {3}>>,
   inspect |-> 3, verify |-> 2, rounds |-> Rounds, weights |-> UsualWeights,
   institution |-> [accountability |-> "aggregate", topology |-> "shared_ledger"],
   audit |-> AuditOf(cell)]

CastOf(cell) == IF Literal(cell) THEN Scripted ELSE [a \in Agents |-> ActivePolicy(cell)]
ScriptOf(cell) ==
  IF Literal(cell) THEN LiteralSchedule(ExpectedTrace(cell), cell.report) ELSE NoScript

(* The branches made of one episode: whom they fork, after which round,    *)
(* and whether the policies of the time before audits take over.           *)
BranchParent == [kind |-> "audited_behavior", truth |-> "q", report |-> "p",
                 verdict |-> "negative", at |-> 4, trace |-> "none"]
Branch(label, parent, fork, override) ==
  [kind |-> "branch", label |-> label, parent |-> parent, fork |-> fork, override |-> override]
BeforePublication == Branch("before_publication", BranchParent, 4, FALSE)
Branches == {BeforePublication, Branch("after_publication", BranchParent, 5, FALSE),
             Branch("old_policy_override", BranchParent, 4, TRUE)}
Nested == Branch("nested", BeforePublication, 6, FALSE)

(* execute, for the cells that audits at one time are compared of: the      *)
(* cells, then the branches of one of them, then the branch of a branch    *)
CellsOf(at) == {c \in Cells : c.at \in {0, at}}
Stages(at) ==
  <<Behavior(CellsOf(at))>> \o
    IF at = BranchParent.at THEN <<Behavior(Branches), Behavior({Nested})>> ELSE << >>

-----------------------------------------------------------------------------
(* The checks.  R: the records there are of cells and branches *)

Recorded(R) == Cells \cap DOMAIN R

OutcomeOf(r) ==
  [briefing |-> r.briefing, verify_left |-> [a \in Agents |-> r.budgets[a].verify],
   accepted |-> r.correct + r.wrong, quality |-> r.quality, effort |-> r.effort,
   credit |-> r.credit, utility |-> r.utility, contributions |-> Contributions(r)]

ActsAsForetold(R) ==
  \A c \in Recorded(R) : ~Literal(c) => Actions(R[c]) = LiteralSchedule(ExpectedTrace(c), c.report)

EndsAsForetold(R) ==
  \A c \in Recorded(R) : OutcomeOf(R[c]) = LiteralOutcome(ExpectedTrace(c), c.truth, c.report)

(* each audited episode and the unaudited one in which the same is done *)
AuditsLeaveTheTaskAlone(R) ==
  \A c, control \in Recorded(R) :
    /\ Audited(c) /\ ~Audited(control)
    /\ c.truth = control.truth /\ c.report = control.report
    /\ ExpectedTrace(c) = ExpectedTrace(control)
    => SameTask(R[c], R[control]) /\ OutcomeOf(R[c]) = OutcomeOf(R[control])

(* The nth round is round n - 1; the checkpoint it leaves is of round n. *)
Publishes(cell, r) ==
  LET finding == [target |-> [slot |-> "s1", proposition |-> cell.report, at |-> cell.at],
                  verdict |-> cell.verdict]
      released(when) == IF when THEN <<finding>> ELSE << >>
  IN \A n \in DOMAIN r.rounds :
       IF Audited(cell)
       THEN /\ \A a \in Agents : r.rounds[n].observed[a].audit = released(n - 1 >= cell.at)
            /\ r.rounds[n].left.reports = released(n > cell.at)
       ELSE /\ \A a \in Agents : r.rounds[n].observed[a].audit = None
            /\ r.rounds[n].left.reports = None

FirstDifference(f, g) ==
  LET differ == {n \in DOMAIN f : f[n] # g[n]} IN IF differ = {} THEN None ELSE Min(differ) - 1

(* two worlds that differ in the truth: nothing tells them apart before a  *)
(* finding does                                                            *)
TruthPair(R, left, right, fixed) ==
  {left, right} \subseteq DOMAIN R =>
  LET f == Observations(R[left])
      g == Observations(R[right])
      before == IF Audited(left) THEN left.at ELSE Rounds
      task(obs) == [n \in DOMAIN obs |-> [a \in Agents |-> obs[n][a].view]]
  IN /\ SubSeq(f, 1, before) = SubSeq(g, 1, before)
     /\ SubSeq(Actions(R[left]), 1, before) = SubSeq(Actions(R[right]), 1, before)
     /\ FirstDifference(f, g) =
          IF Audited(left) /\ left.verdict # "unavailable" THEN left.at ELSE None
     /\ fixed => Actions(R[left]) = Actions(R[right]) /\ task(f) = task(g)

Behaving(truth, report, verdict, at) ==
  [kind |-> IF verdict = "none" THEN "unaudited_behavior" ELSE "audited_behavior", truth |-> truth,
   report |-> report, verdict |-> verdict, at |-> at, trace |-> "none"]
Forced(cell) ==
  IF cell.verdict = "negative" /\ cell.at < 6 THEN [cell EXCEPT !.kind = "audited_fixed", !.trace = "A"]
  ELSE cell

TruthShowsInFindingsOnly(R) ==
  \A report \in Truths :
    /\ TruthPair(R, Behaving("p", report, "none", 0), Behaving("q", report, "none", 0), TRUE)
    /\ \A at \in Timings :
         /\ TruthPair(R, Behaving("p", report, "unavailable", at),
                         Behaving("q", report, "unavailable", at), TRUE)
         /\ \A accurate \in BOOLEAN :
              LET cell(truth) == Behaving(truth, report,
                    IF (truth = report) = accurate THEN "positive" ELSE "negative", at)
              IN /\ TruthPair(R, cell("p"), cell("q"), FALSE)
                 /\ TruthPair(R, Forced(cell("p")), Forced(cell("q")), TRUE)

-----------------------------------------------------------------------------
(* The exact laws: E tenths of source error, A twentieths of accuracy and  *)
(* U halves of unavailability; a mixture weighs the recorded endpoints in  *)
(* eight-hundredths.                                                       *)

Laws == [E : {0, 1, 5, 10}, A : {0, 10, 15, 18, 20}, U : {0, 1, 2}, at : Timings,
         view : {"mixed", "p", "q"}]

TruthMass(law, truth) == IF law.view = "mixed" THEN 1 ELSE IF law.view = truth THEN 2 ELSE 0
SourceMass(law, cell) == IF cell.truth = cell.report THEN 10 - law.E ELSE law.E
VerdictMass(law, cell) ==
  IF cell.verdict = "unavailable" THEN 20 * law.U
  ELSE (2 - law.U) * (IF (cell.verdict = "positive") = (cell.truth = cell.report)
                      THEN law.A ELSE 20 - law.A)
Weight(law, cell) == TruthMass(law, cell.truth) * SourceMass(law, cell) * VerdictMass(law, cell)

(* figures in four-hundredths, contributions in actions *)
Expectation(law) ==
  LET negative == (2 - law.U) * ((10 - law.E) * (20 - law.A) + law.E * law.A)
      early == law.at \in {3, 4}
      correct == IF early THEN (10 - law.E) * (20 * law.U + (2 - law.U) * law.A) ELSE 40 * (10 - law.E)
      wrong == IF early THEN law.E * (20 * law.U + (2 - law.U) * (20 - law.A)) ELSE 40 * law.E
      accepted == correct + wrong
      effort == CASE law.at = 3 -> 9 * 400 + 15 * accepted
                  [] law.at = 4 -> 12 * 400 + 12 * accepted
                  [] law.at = 5 -> 24 * 400 - 6 * negative
                  [] law.at = 6 -> 24 * 400
  IN [correct |-> correct, wrong |-> wrong, quality |-> 12 * (correct - wrong),
      credit |-> 7 * (correct - wrong), effort |-> effort,
      utility |-> 19 * (correct - wrong) - effort,
      contributions |-> CASE law.at = 3 -> 9 * (400 + accepted) [] law.at = 4 -> 6 * (800 + accepted)
                          [] law.at = 5 -> 18 * 400 - 3 * negative [] law.at = 6 -> 18 * 400,
      negative |-> negative, available_correct |-> 10 * (2 - law.U) * law.A]

(* what an unaudited episode gives, in tenths *)
BaselineQuality(law) == 12 * (10 - 2 * law.E)

Endpoints(law) == {c \in Cells : c.kind = "audited_behavior" /\ c.at = law.at}
Found(r) == Last(r.rounds).observed[1].audit[1].verdict
Correctly(R, c) == Found(R[c]) # "unavailable" /\ (Found(R[c]) = "positive") = (c.truth = c.report)

MixtureFollowsLaw(R, law) ==
  LET mass(which(_)) == MapThenSumSet(LAMBDA c : IF which(c) THEN Weight(law, c) ELSE 0, Endpoints(law))
      mean(figure(_)) == MapThenSumSet(LAMBDA c : Weight(law, c) * figure(R[c]), Endpoints(law))
      expected == Expectation(law)
  IN /\ mass(LAMBDA c : TRUE) = 800
     /\ mass(LAMBDA c : c.truth # c.report) = 80 * law.E
     /\ mass(LAMBDA c : Found(R[c]) = "unavailable") = 400 * law.U
     /\ mass(LAMBDA c : Found(R[c]) = "negative") = 2 * expected.negative
     /\ mass(LAMBDA c : Correctly(R, c)) = 2 * expected.available_correct
     /\ mean(LAMBDA r : r.correct) = 2 * expected.correct
     /\ mean(LAMBDA r : r.wrong) = 2 * expected.wrong
     /\ mean(LAMBDA r : r.quality) = 2 * expected.quality
     /\ mean(LAMBDA r : Total(r.credit)) = 3 * 2 * expected.credit
     /\ mean(LAMBDA r : Total(r.effort)) = 2 * expected.effort
     /\ mean(LAMBDA r : Total(r.utility)) = 3 * 2 * expected.utility
     /\ mean(Contributions) = 2 * expected.contributions

(* a twentieth in accuracy is a twentieth of the contrast's 240 *)
QualityGain(law) == IF law.at \in {3, 4} THEN 240 * (2 - law.U) * (law.A + 2 * law.E - 20) ELSE 0

BaselineFollowsLaw(R, law) ==
  LET bases == {c \in Cells : c.kind = "unaudited_behavior"}
      mean(figure(_)) ==
        MapThenSumSet(LAMBDA c : TruthMass(law, c.truth) * SourceMass(law, c) * figure(R[c]), bases)
  IN /\ mean(LAMBDA r : r.quality) = 2 * BaselineQuality(law)
     /\ mean(LAMBDA r : Total(r.effort)) = 20 * 24
     /\ 2 * Expectation(law).quality - 40 * mean(LAMBDA r : r.quality) = QualityGain(law)

MixturesFollowTheLaws(R) ==
  \A law \in {l \in Laws : Endpoints(l) \subseteq DOMAIN R} :
    MixtureFollowsLaw(R, law) /\ BaselineFollowsLaw(R, law)

-----------------------------------------------------------------------------
(* A branch shares its parent's rounds up to the fork and then goes the    *)
(* way foretold for whoever plays it.                                      *)
BranchesAsForetold(R) ==
  \A b \in (Branches \cup {Nested}) \cap DOMAIN R :
    LET trace == IF b.override THEN "A" ELSE "C"
    IN /\ SubSeq(R[b].rounds, 1, b.fork) = SubSeq(R[b.parent].rounds, 1, b.fork)
       /\ Actions(R[b]) = LiteralSchedule(trace, BranchParent.report)
       /\ OutcomeOf(R[b]) = LiteralOutcome(trace, BranchParent.truth, BranchParent.report)
       /\ Publishes(BranchParent, R[b])

RecordsAgree(R) ==
  /\ ActsAsForetold(R) /\ EndsAsForetold(R) /\ AuditsLeaveTheTaskAlone(R)
  /\ \A c \in Recorded(R) : Publishes(c, R[c])
  /\ TruthShowsInFindingsOnly(R) /\ BranchesAsForetold(R)

Predictions(R) == RecordsAgree(R) /\ MixturesFollowTheLaws(R)
=============================================================================
