---------------------------- MODULE IncentiveAtlas ----------------------------
(***************************************************************************)
(* Study 001's world under its four institutions, and what its certificate *)
(* (src/studies/001-evidence-commons) and the incentive atlas              *)
(* (src/experiments/incentive-atlas) derive from the eight profiles of     *)
(* contributors and freeriders: who is tempted to ride free, and at which  *)
(* benefit b and credit r everybody's contributing pays.                   *)
(*                                                                         *)
(* The atlas plays one point of the plane and computes the others: a       *)
(* payoff is linear in b and r, its coefficients read off one record.  A   *)
(* rational point is given by b and r times their common denominator, and  *)
(* all weights are scaled with them.  Coefficients are in thirds.          *)
(***************************************************************************)
EXTENDS ExperimentWorlds

Topologies == {"private", "shared_ledger"}
Accountabilities == {"aggregate", "attributable"}
Rounds == 12

Point(b, r, scale) == [b |-> b, r |-> r, scale |-> scale]
Baseline == Point(12, 1, 1)
Probes == {Point(0, 0, 1), Point(31, 2, 2), Point(32, 1, 1), Point(218, 3, 6), Point(3, 4, 1),
           Point(0, 7, 1)}
Designs == <<Point(40, 0, 1), Point(33, 1, 1), Point(12, 4, 1), Point(0, 7, 1)>>

Cells == [topology : Topologies, accountability : Accountabilities, profile : Profiles,
          at : {Baseline} \cup Probes]

Evidence ==
  LET stale(item) == [item EXCEPT !.freshness = "stale"]
  IN <<Item("ministry", "s1", "s1_true", "supports"), Item("registry", "s2", "s2_true", "supports"),
       Item("survey", "s3", "s3_true", "supports"), stale(Item("archive", "s1", "s1_true", "supports")),
       Item("blog", "s2", "s2_false", "supports"), Item("ministry2", "s2", "s2_false", "contradicts"),
       Item("wire", "s4", "s4_true", "supports"), stale(Item("forward", "s4", "s4_false", "supports")),
       Item("survey2", "s3", "s3_true", "supports"), Item("watchdog", "s4", "s4_false", "contradicts")>>

AgentPolicy(cell, a) == IF cell.profile[a] = "C" THEN Contributor ELSE Freerider

Truth == [s1 |-> "s1_true", s2 |-> "s2_true", s3 |-> "s3_true", s4 |-> "s4_true"]
Falsehood == [s1 |-> "s1_false", s2 |-> "s2_false", s3 |-> "s3_false", s4 |-> "s4_false"]

World(cell) ==
  [candidates |-> [s \in DOMAIN Truth |-> {Truth[s], Falsehood[s]}],
   truth |-> Truth,
   facts |-> Evidence,
   holders |-> <<{1}, {2}, {1}, {2}, {3}, {2}, {2}, {1}, {3}, {3}>>,
   inspect |-> 6, verify |-> 3, rounds |-> Rounds,
   weights |-> Weights(cell.at.b, cell.at.r, cell.at.scale),
   institution |-> [accountability |-> cell.accountability, topology |-> cell.topology],
   audit |-> Unaudited]

Stages(topology) == <<Behavior({c \in Cells : c.topology = topology})>>

-----------------------------------------------------------------------------
(* The derivation.  R: the records there are of one topology *)

RecordOf(R, a, profile, point) ==
  R[[topology |-> (CHOOSE c \in DOMAIN R : TRUE).topology, accountability |-> a,
     profile |-> profile, at |-> point]]
AtBaseline(R, a) == [p \in Profiles |-> RecordOf(R, a, p, Baseline)]

(* benefits are paid for what is correct only; what is wrong costs the same *)
Coefficients(r) ==
  [a \in Agents |-> <<r.correct, r.credit[a], -12 * r.wrong - 3 * r.effort[a]>>]
Minus(u, v) == <<u[1] - v[1], u[2] - v[2], u[3] - v[3]>>
TotalOf(payoff) == [i \in 1 .. 3 |-> payoff[1][i] + payoff[2][i] + payoff[3][i]]
Value(vector, q) == vector[1] * q.b + vector[2] * q.r + vector[3] * q.scale

Deviations == {<<p, a>> \in Profiles \X Agents : p[a] = "C"}
Gain(payoffs, d) ==
  Minus(payoffs[[d[1] EXCEPT ![d[2]] = "F"]][d[2]], payoffs[d[1]][d[2]])
Lone == [a \in Agents |-> IF a = 1 THEN "C" ELSE "F"]

Payoffs(R, a) == [p \in Profiles |-> Coefficients(AtBaseline(R, a)[p])]
Stake(payoffs) == Minus(TotalOf(payoffs[Everybody("C")]), TotalOf(payoffs[Everybody("F")]))

IsPrivate(R) == (CHOOSE c \in DOMAIN R : TRUE).topology = "private"

(* derive: the lone contributor always gains by leaving, and the stakes    *)
DerivedAsByHand(R) ==
  \A a \in Accountabilities :
    LET payoffs == Payoffs(R, a) IN
    /\ Gain(payoffs, <<Lone, 1>>) = <<0, 0, 3 * (IF IsPrivate(R) THEN 7 ELSE 9)>>
    /\ Stake(payoffs) = IF IsPrivate(R) THEN <<3, 21, -117>> ELSE <<6, 42, -135>>

(* and accountability changes no action, no briefing and no total *)
InvariantUnderAccounting(R) ==
  \A c \in DOMAIN R : [c EXCEPT !.accountability = "attributable"] \in DOMAIN R =>
    LET left == R[c]
        right == R[[c EXCEPT !.accountability = "attributable"]]
    IN /\ Actions(left) = Actions(right) /\ left.briefing = right.briefing
       /\ TotalOf(Coefficients(left)) = TotalOf(Coefficients(right))

(* verify_point: played at another point, the same is done, for what the   *)
(* coefficients say                                                        *)
PointsAreAsPredicted(R) ==
  \A c \in DOMAIN R : [c EXCEPT !.at = Baseline] \in DOMAIN R =>
    LET old == R[[c EXCEPT !.at = Baseline]] IN
    /\ Actions(R[c]) = Actions(old) /\ R[c].briefing = old.briefing
    /\ \A a \in Agents : R[c].utility[a] = Value(Coefficients(old)[a], c.at)

(* evaluate: the half-planes, and who leaves the group of contributors *)
Queries == Probes \cup ToSet(Designs)
  \cup {Baseline, Point(15501, 1000, 1000), Point(32001, 1000, 1000), Point(0, 39, 7), Point(0, 45, 14)}

Exits(payoffs, q) ==
  Cardinality({a \in Agents : Value(Gain(payoffs, <<Everybody("C"), a>>), q) > 0})

RegionsAreHalfPlanes(R) ==
  /\ \A a \in Accountabilities, q \in Queries :
       LET payoffs == Payoffs(R, a) IN
       /\ \E d \in Deviations : Value(Gain(payoffs, d), q) > 0
       /\ Value(Stake(payoffs), q) > 0 <=> IF IsPrivate(R) THEN q.b + 7 * q.r > 39 * q.scale
                                           ELSE 2 * q.b + 14 * q.r > 45 * q.scale
  /\ [i \in DOMAIN Designs |-> Exits(Payoffs(R, "attributable"), Designs[i])]
       = IF IsPrivate(R) THEN <<3, 3, 3, 0>> ELSE <<3, 3, 2, 0>>

-----------------------------------------------------------------------------
(* Study 001's certificate: somebody is always tempted, contributing never *)
(* pays for all, and accounting redistributes in half of the profiles.     *)

Gains(R, a) == {AtBaseline(R, a)[[d[1] EXCEPT ![d[2]] = "F"]].utility[d[2]]
                  - AtBaseline(R, a)[d[1]].utility[d[2]] : d \in Deviations}
Range3(R, a) == <<Min(Gains(R, a)), Max(Gains(R, a))>>

CertificateAgrees(R) ==
  /\ <<Range3(R, "aggregate"), Range3(R, "attributable")>> =
       IF IsPrivate(R) THEN <<<<-26, 88>>, <<-36, 69>>>> ELSE <<<<-6, 58>>, <<-18, 45>>>>
  /\ \A a \in Accountabilities :
       /\ Tempted(AtBaseline(R, a)) /\ ~CooperationPays(AtBaseline(R, a))
       /\ Total(AtBaseline(R, a)[Everybody("C")].utility) = IF IsPrivate(R) THEN -60 ELSE -21
       /\ Total(AtBaseline(R, a)[Everybody("F")].utility) = 0
  /\ \A p \in Profiles : SameTask(AtBaseline(R, "aggregate")[p], AtBaseline(R, "attributable")[p])
  /\ Cardinality({p \in Profiles : AtBaseline(R, "aggregate")[p].credit
                                     # AtBaseline(R, "attributable")[p].credit}) = 4

RecordsAgree(R) == InvariantUnderAccounting(R) /\ PointsAreAsPredicted(R)

Predictions(R) ==
  /\ RecordsAgree(R) /\ DerivedAsByHand(R) /\ RegionsAreHalfPlanes(R) /\ CertificateAgrees(R)
=============================================================================
