--------------------------- MODULE ExperimentWorlds ---------------------------
(***************************************************************************)
(* What the experiments on the Evidence Commons (src/experiments/) have in *)
(* common: three agents, one table of costs and credits, the shape of a    *)
(* world and of its players, and the records that are kept of an episode.  *)
(*                                                                         *)
(* A record keeps the rounds of an episode, each with what was observed,   *)
(* what was done and the checkpoint it left, and the figures of its end.   *)
(* Utilities are counted in thirds, so they are integral.  A probability   *)
(* is a numerator and a denominator; sums of probabilities are numerators  *)
(* over a common denominator, named where they are formed.                 *)
(***************************************************************************)
EXTENDS Integers, Sequences, FiniteSets, FiniteSetsExt, SequencesExt

CONSTANT None

Agents == 1 .. 3

(* benefit b and credits times r, all weights in units of 1/scale *)
Weights(b, r, scale) ==
  [cost |-> [inspect |-> scale, share |-> scale, propose |-> scale, verify |-> 2 * scale,
             challenge |-> scale],
   pay |-> [benefit |-> b, penalty |-> 12 * scale, propose_correct |-> 3 * r,
            propose_wrong |-> -3 * r, verify_correct |-> 2 * r, verify_wrong |-> -2 * r]]
UsualWeights == Weights(12, 1, 1)

Item(source, slot, proposition, stance) ==
  [source |-> source, slot |-> slot, proposition |-> proposition, stance |-> stance,
   freshness |-> "fresh"]

Policy(rule, min_sources, quorum, warmup) ==
  [rule |-> rule, share |-> TRUE, warmup |-> warmup, quorum |-> quorum,
   min_sources |-> min_sources, screen |-> TRUE, contradictions |-> TRUE, challenge |-> TRUE,
   read_citation |-> TRUE]

Contributor == Policy("contributor", 1, <<0, 1>>, 0)
Freerider == Policy("freerider", 1, <<0, 1>>, 0)

(* A ReplayPolicy's agent has no rule: it does what is written for it. *)
Scripted == [a \in Agents |-> None]
NoScript == << >>
Unaudited == [schedule |-> {}, accuracy |-> <<1, 1>>, unavailable |-> <<0, 1>>]

(* An entry is one episode of an experiment: a cell's policies at work, or  *)
(* the actions recorded of them done again. *)
Behavior(cells) == [kind : {"behavior"}, cell : cells]
Fixed(cells) == [kind : {"fixed"}, cell : cells]

-----------------------------------------------------------------------------
(* Records *)

Actions(r) == [n \in DOMAIN r.rounds |-> r.rounds[n].done]
Observations(r) == [n \in DOMAIN r.rounds |-> r.rounds[n].observed]

Total(f) == f[1] + f[2] + f[3]
Contributions(r) ==
  Cardinality({<<n, a>> \in (DOMAIN r.rounds) \X Agents : r.rounds[n].done[a].do # "withhold"})

(* what an accounting rule may not touch while the actions are the same *)
SameTask(r, s) ==
  /\ Actions(r) = Actions(s) /\ r.briefing = s.briefing /\ r.effort = s.effort
  /\ r.quality = s.quality /\ Total(r.utility) = Total(s.utility)

(* the strategies C and F over one world: is some C tempted, and are all   *)
(* better off when nobody gives in?                                        *)
Profiles == [Agents -> {"C", "F"}]
Everybody(strategy) == [a \in Agents |-> strategy]

Tempted(R) ==
  \E p \in Profiles, a \in Agents :
    p[a] = "C" /\ R[[p EXCEPT ![a] = "F"]].utility[a] > R[p].utility[a]
CooperationPays(R) == Total(R[Everybody("C")].utility) > Total(R[Everybody("F")].utility)
=============================================================================
