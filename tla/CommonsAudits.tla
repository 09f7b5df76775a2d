---------------------------- MODULE CommonsAudits ----------------------------
(***************************************************************************)
(* Scheduled public audits of the Evidence Commons                         *)
(* (domain/world/audited_evidence_commons.py, domain/audit.py): before a   *)
(* round is observed, the mechanism publishes a finding on every candidate *)
(* that is due.  A finding may be wrong or unavailable; which of these, a  *)
(* keyed draw decides, so a draw is a choice among what has probability.   *)
(*                                                                         *)
(* Under an institution without audits reports is None and rounds are      *)
(* open at once.  A checkpoint is taken when a round has closed, so a      *)
(* branch starts with its next round unopened.                             *)
(***************************************************************************)
EXTENDS EvidenceCommons, SequencesExt

CONSTANTS
  Schedule,       \* targets: slot, proposition, and the round to publish at
  Accuracy,       \* probabilities <<numerator, denominator>>
  Unavailable

Verdicts == {"positive", "negative", "unavailable"}

Probability(p) == p[1] \in 0 .. p[2] /\ p[2] > 0

ValidSchedule ==
  /\ IsFiniteSet(Schedule)
  /\ \A t \in Schedule : t.proposition \in Candidates[t.slot] /\ t.at \in 0 .. MaxRounds - 1
  /\ \A t, u \in Schedule : t.slot = u.slot /\ t.proposition = u.proposition => t = u

ASSUME ScheduleAssumption == ValidSchedule /\ Probability(Accuracy) /\ Probability(Unavailable)

VARIABLES
  reports,     \* findings in the order of publication, or None
  opened       \* has the round been prepared?

Audited == reports # None
Published == {reports[n].target : n \in DOMAIN reports}
Exactly(targets) == Published = targets /\ Len(reports) = Cardinality(targets)

Earlier == {t \in Schedule : t.at < round}
ThroughNext == {t \in Schedule : t.at <= round + 1}
ThroughNow == {t \in Schedule : t.at <= round}

(* rng.randrange(denominator) < numerator *)
Draws(p) == {hit \in BOOLEAN : IF hit THEN p[1] > 0 ELSE p[1] < p[2]}

Samples(t) ==
  {IF unavailable THEN "unavailable"
   ELSE IF (Truth[t.slot] = t.proposition) = correct THEN "positive" ELSE "negative" :
     unavailable \in Draws(Unavailable), correct \in Draws(Accuracy)}

(* The findings due are published together; their order among themselves,  *)
(* that of slots and propositions, no reader depends on.                   *)
Publish(due) ==
  \E verdict \in [due -> Verdicts] :
    /\ \A t \in due : verdict[t] \in Samples(t)
    /\ reports' = reports \o [n \in 1 .. Cardinality(due) |->
         [target |-> SetToSeq(due)[n], verdict |-> verdict[SetToSeq(due)[n]]]]

(* Any other set of findings is refused, and the run fails. *)
Prepare ==
  /\ Audited /\ ~opened /\ round < MaxRounds
  /\ \/ Exactly(ThroughNow) /\ UNCHANGED reports
     \/ Exactly(Earlier) /\ ~Exactly(ThroughNow) /\ Publish(ThroughNow \ Earlier)
  /\ opened' = TRUE

(* what observe shows of the audits, to everybody alike *)
NegativeTargets ==
  IF Audited THEN {<<reports[n].target.slot, reports[n].target.proposition>> :
                     n \in {m \in DOMAIN reports : reports[m].verdict = "negative"}}
  ELSE {}

-----------------------------------------------------------------------------
(* Property *)

(* Whatever has been played, a round is observed with exactly the findings *)
(* that are due, each published once, and a checkpoint holds none of its   *)
(* future: observe and prepare_round refuse anything else, and the run, or *)
(* every branch from that checkpoint, would fail                           *)
(* (audited_evidence_commons.py:50-99, audit.py:183-198).                  *)
AuditsFollowTheSchedule ==
  Audited => Exactly({t \in Schedule : t.at < round \/ (opened /\ t.at = round)})
=============================================================================
