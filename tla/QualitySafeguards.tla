-------------------------- MODULE QualitySafeguards --------------------------
(***************************************************************************)
(* The quality-safeguards experiment (src/experiments/quality-safeguards): *)
(* does a rule that asks for corroboration accept fewer falsehoods?  The   *)
(* same evidence is put before three rules in worlds where it is accurate  *)
(* or misleading, corroborated, conflicted or an echo of one source.       *)
(*                                                                         *)
(* A profile says who runs the cell's rule (C), rides free (F) or          *)
(* contributes whatever happens (U).                                       *)
(***************************************************************************)
EXTENDS ExperimentWorlds

Truths == {"accurate", "misleading"}
CoreStructures == {"corroborated", "conflicted"}
Topologies == {"private", "shared_ledger"}
Accountabilities == {"aggregate", "attributable"}
Rules == {"unconditional", "conditional", "skeptical"}
CCC == Everybody("C")
UUC == <<"U", "U", "C">>
Rounds == 14

Grid(structures, rules, profiles) ==
  [truth : Truths, structure : structures, topology : Topologies, accountability : Accountabilities,
   rule : rules, profile : profiles]

Cells == Grid(CoreStructures, Rules, Profiles) \cup Grid({"echo"}, Rules, {CCC})
           \cup Grid(CoreStructures, {"conditional", "skeptical"}, {UUC})

(* items 1 to 3 are about the first slot, 4 to 6 about the second *)
EvidenceItem(cell, e) ==
  LET letter == ((e - 1) % 3) + 1
  IN Item(IF cell.structure = "echo" THEN "src-a" ELSE <<"src-a", "src-b", "src-c">>[letter],
          IF e <= 3 THEN "s1" ELSE "s2", IF e <= 3 THEN "s1-p" ELSE "s2-p",
          IF cell.structure = "conflicted" /\ letter = 3 THEN "contradicts" ELSE "supports")

RulePolicy(rule) ==
  CASE rule = "unconditional" -> Contributor
    [] rule = "conditional" -> Policy("conditional", 1, <<1, 1>>, 9)
    [] rule = "skeptical" -> Policy("skeptical", 2, <<1, 1>>, 9)

AgentPolicy(cell, a) ==
  CASE cell.profile[a] = "F" -> Freerider
    [] cell.profile[a] = "U" -> Contributor
    [] cell.profile[a] = "C" -> RulePolicy(cell.rule)

World(cell) ==
  [candidates |-> [s \in {"s1", "s2"} |-> IF s = "s1" THEN {"s1-p", "s1-q"} ELSE {"s2-p", "s2-q"}],
   truth |-> [s \in {"s1", "s2"} |->
     IF cell.truth = "accurate" THEN (IF s = "s1" THEN "s1-p" ELSE "s2-p")
     ELSE (IF s = "s1" THEN "s1-q" ELSE "s2-q")],
   facts |-> [e \in 1 .. 6 |-> EvidenceItem(cell, e)],
   holders |-> <<{1}, {2}, {3}, {1}, {2}, {3}>>,
   inspect |-> 6, verify |-> 3, rounds |-> Rounds, weights |-> UsualWeights,
   institution |-> [accountability |-> cell.accountability, topology |-> cell.topology],
   audit |-> Unaudited]

(* execute, for the cells of one topology: what groups did anonymously is  *)
(* done again under their names *)
Attributed(cell) == [cell EXCEPT !.accountability = "attributable"]

Stages(topology) ==
  LET part == {c \in Cells : c.topology = topology}
  IN <<Behavior(part), Fixed({c \in part : c.accountability = "aggregate"})>>

EpisodeWorld(e) == World(IF e.kind = "fixed" THEN Attributed(e.cell) ELSE e.cell)

-----------------------------------------------------------------------------
(* The predictions.  R: the records there are of the cells of a topology:  *)
(* no prediction relates two; F: those of the same actions done under names*)

Sign(truth) == IF truth = "accurate" THEN 1 ELSE -1

Cell(truth, structure, topology, accountability, rule, profile) ==
  [truth |-> truth, structure |-> structure, topology |-> topology,
   accountability |-> accountability, rule |-> rule, profile |-> profile]

TopologiesOf(R) == {c.topology : c \in DOMAIN R}

(* pairs of cells that differ in one field only: the source, the target *)
Pairs(R, field, target, source) ==
  {<<c, [c EXCEPT ![field] = target]>> :
     c \in {d \in DOMAIN R : d[field] = source /\ [d EXCEPT ![field] = target] \in DOMAIN R}}

(* Corpora that differ in hidden truth only are treated alike. *)
TruthIsHidden(R) ==
  \A pair \in Pairs(R, "truth", "misleading", "accurate") :
    /\ Actions(R[pair[2]]) = Actions(R[pair[1]])
    /\ R[pair[2]].quality + R[pair[1]].quality = 0

(* what P2 to P6 say of single cells, t under topology o, accountability a *)
QualityIs(R, cell, quality) == cell \in DOMAIN R => R[cell].quality = quality

CorroborationPasses(R, t, o, a) ==
  LET cell(rule) == Cell(t, "corroborated", o, a, rule, CCC)
  IN /\ {cell("skeptical"), cell("conditional")} \subseteq DOMAIN R =>
          Actions(R[cell("skeptical")]) = Actions(R[cell("conditional")])
     /\ t = "misleading" /\ (o = "shared_ledger" \/ a = "attributable")
          => QualityIs(R, cell("skeptical"), -24)

ConflictIsRefused(R, t, o, a) ==
  /\ QualityIs(R, Cell(t, "conflicted", o, a, "skeptical", CCC), 0)
  /\ QualityIs(R, Cell(t, "conflicted", o, a, "conditional", CCC), 24 * Sign(t))

EchoIsRefused(R, t, o, a) ==
  /\ QualityIs(R, Cell(t, "echo", o, a, "skeptical", CCC), 0)
  /\ QualityIs(R, Cell(t, "echo", o, a, "unconditional", CCC), 24 * Sign(t))

(* whoever holds the contradiction rides free *)
ContradictionIsHidden(R, t, o, a) ==
  t = "misleading" => QualityIs(R, Cell(t, "conflicted", o, a, "skeptical", <<"C", "C", "F">>),
                                IF o = "private" THEN -12 ELSE 0)

OneSkepticDefends(R, t, o, a) ==
  LET lone(rule) == Cell(t, "conflicted", o, a, rule, UUC)
  IN IF o = "shared_ledger" THEN QualityIs(R, lone("skeptical"), 0)
     ELSE IF a = "aggregate" THEN QualityIs(R, lone("skeptical"), 12 * Sign(t))
     ELSE QualityIs(R, lone("skeptical"), 0) /\ QualityIs(R, lone("conditional"), 24 * Sign(t))

AttributionActivates(R) ==
  \A pair \in Pairs(R, "accountability", "attributable", "aggregate") :
    LET c == pair[1]
        source == R[pair[1]]
        target == R[pair[2]]
    IN /\ c.profile = CCC /\ c.structure \in CoreStructures =>
            target.quality - source.quality =
              IF c.structure = "corroborated" /\ c.topology = "private" /\ c.rule # "unconditional"
              THEN 24 * Sign(c.truth) ELSE 0
       /\ c.rule = "unconditional" => Actions(target) = Actions(source)

(* a screen pays exactly where structure tells the truth *)
AlignmentDecides(R) ==
  "private" \in TopologiesOf(R) => \A rule \in Rules :
    LET q(t, structure) == R[Cell(t, structure, "private", "attributable", rule, CCC)].quality
        aligned == q("accurate", "corroborated") + q("misleading", "conflicted")
        inverted == q("accurate", "conflicted") + q("misleading", "corroborated")
    IN <<aligned, inverted>> = IF rule = "skeptical" THEN <<24, -24>> ELSE <<0, 0>>

(* Riding free tempts somebody in every group, and in none is everybody's  *)
(* rule worth more than nobody's.                                          *)
NoGroupIsADilemma(R) ==
  \A t \in Truths, structure \in CoreStructures, a \in Accountabilities, rule \in Rules :
    \A o \in TopologiesOf(R) :
      LET profiles == [p \in Profiles |-> R[Cell(t, structure, o, a, rule, p)]]
      IN Tempted(profiles) /\ ~CooperationPays(profiles)

AccountingLeavesTheTaskAlone(R, F) ==
  \A c \in DOMAIN F : SameTask(R[c], F[c])

RecordsAgree(R, F) ==
  /\ TruthIsHidden(R) /\ AttributionActivates(R) /\ AccountingLeavesTheTaskAlone(R, F)
  /\ \A t \in Truths, o \in TopologiesOf(R), a \in Accountabilities :
       /\ CorroborationPasses(R, t, o, a) /\ ConflictIsRefused(R, t, o, a)
       /\ EchoIsRefused(R, t, o, a) /\ ContradictionIsHidden(R, t, o, a)
       /\ OneSkepticDefends(R, t, o, a)

Predictions(R, F) == RecordsAgree(R, F) /\ AlignmentDecides(R) /\ NoGroupIsADilemma(R)
=============================================================================
