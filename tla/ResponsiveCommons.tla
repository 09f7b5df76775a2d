-------------------------- MODULE ResponsiveCommons --------------------------
(***************************************************************************)
(* The responsive-commons experiment (src/experiments/responsive-commons): *)
(* does attribution change what a policy does that contributes only while  *)
(* it sees its peers contribute?  Each agent holds the one item about its  *)
(* own slot; the item supports the truth or the falsehood.                 *)
(***************************************************************************)
EXTENDS ExperimentWorlds

Corpora == {"accurate", "misleading"}
Topologies == {"private", "shared_ledger"}
Accountabilities == {"aggregate", "attributable"}
Rules == [control |-> [quorum |-> <<0, 1>>, warmup |-> 5],
          half5 |-> [quorum |-> <<1, 2>>, warmup |-> 5],
          all5 |-> [quorum |-> <<1, 1>>, warmup |-> 5],
          half9 |-> [quorum |-> <<1, 2>>, warmup |-> 9],
          all9 |-> [quorum |-> <<1, 1>>, warmup |-> 9]]
Rounds == 12

Cells == [corpus : Corpora, topology : Topologies, accountability : Accountabilities,
          rule : DOMAIN Rules, profile : Profiles]

SlotNames == <<"s1", "s2", "s3">>
True == <<"s1-true", "s2-true", "s3-true">>
False == <<"s1-false", "s2-false", "s3-false">>
SlotOf(s) == CHOOSE i \in Agents : SlotNames[i] = s

AgentPolicy(cell, a) ==
  IF cell.profile[a] = "F" THEN Freerider
  ELSE Policy("conditional", 1, Rules[cell.rule].quorum, Rules[cell.rule].warmup)

World(cell) ==
  [candidates |-> [s \in ToSet(SlotNames) |-> {True[SlotOf(s)], False[SlotOf(s)]}],
   truth |-> [s \in ToSet(SlotNames) |-> True[SlotOf(s)]],
   facts |-> [i \in Agents |->
     Item(<<"source1", "source2", "source3">>[i], SlotNames[i],
          IF cell.corpus = "accurate" THEN True[i] ELSE False[i], "supports")],
   holders |-> [i \in Agents |-> {i}],
   inspect |-> 3, verify |-> 3, rounds |-> Rounds, weights |-> UsualWeights,
   institution |-> [accountability |-> cell.accountability, topology |-> cell.topology],
   audit |-> Unaudited]

(* execute, for the cells of one rule *)
Attributed(cell) == [cell EXCEPT !.accountability = "attributable"]
Aggregates(cells) == {c \in cells : c.accountability = "aggregate"}

Stages(rule) ==
  LET part == {c \in Cells : c.rule = rule} IN <<Behavior(part), Fixed(Aggregates(part))>>

EpisodeWorld(e) == World(IF e.kind = "fixed" THEN Attributed(e.cell) ELSE e.cell)

-----------------------------------------------------------------------------
(* The checks and the committed readout.  R: the records there are of the  *)
(* cells of a rule, F: those of the same actions done under names          *)

Compared(R) == {c \in Aggregates(DOMAIN R) : Attributed(c) \in DOMAIN R}

AccountingLeavesTheTaskAlone(R, F) == \A c \in DOMAIN F : SameTask(R[c], F[c])

(* the response-free rule does not answer to names, nor does its group gain *)
ControlIgnoresAttribution(R) ==
  \A c \in Compared(R) : c.rule = "control" =>
    /\ Actions(R[c]) = Actions(R[Attributed(c)])
    /\ Total(R[c].utility) = Total(R[Attributed(c)].utility)

(* Attribution matters to one rule only, when all depend on it: names end  *)
(* the wait for a quorum that anonymous claims cannot show.  What it buys  *)
(* is as good as the evidence.                                             *)
Bottlenecks == {c \in Cells : c.rule = "all5" /\ c.profile = Everybody("C")}
AttributionEndsTheBottleneck(R) ==
  \A c \in Compared(R) :
    /\ Actions(R[c]) # Actions(R[Attributed(c)]) <=> c \in Bottlenecks
    /\ R[Attributed(c)].quality - R[c].quality =
         IF c \notin Bottlenecks THEN 0 ELSE IF c.corpus = "accurate" THEN 24 ELSE -24

(* certificate: the groups in which C1, and C2 too, holds *)
CertificatesAgree(R) ==
  \A c \in DOMAIN R :
    LET profiles == [p \in Profiles |-> R[[c EXCEPT !.profile = p]]]
    IN /\ Tempted(profiles)
       /\ CooperationPays(profiles) <=> /\ c.corpus = "accurate" /\ c.topology = "shared_ledger"
                                        /\ c.accountability = "attributable" \/ c.rule # "all5"

RecordsAgree(R, F) ==
  /\ AccountingLeavesTheTaskAlone(R, F) /\ ControlIgnoresAttribution(R)
  /\ AttributionEndsTheBottleneck(R)

Predictions(R, F) == RecordsAgree(R, F) /\ CertificatesAgree(R)
=============================================================================
