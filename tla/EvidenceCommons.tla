--------------------------- MODULE EvidenceCommons ---------------------------
(***************************************************************************)
(* The Evidence Commons mechanism (domain/world/evidence_commons.py):      *)
(* agents inspect and share evidence, propose, verify and challenge claims *)
(* about slots of a briefing, and are paid for the briefing and for their  *)
(* part in it.                                                             *)
(*                                                                         *)
(* A round is submitted at once and applied agent by agent in sorted       *)
(* order, so a step here is one agent's action: its guard is               *)
(* validate_action on the state the round opened with, its effect one      *)
(* iteration of the loop of resolve on the state reached so far.  What an  *)
(* agent submits is chosen only when it is applied, which is the same as   *)
(* choosing at the opening: the guard reads nothing newer.                 *)
(*                                                                         *)
(* Agents and items are numbers in the order of their ids, a claim is its  *)
(* place in claim_order.  Withhold stands for Abstain too: resolve treats  *)
(* them alike.  Money is counted in N-ths of a credit unit, so it is       *)
(* integral.                                                               *)
(***************************************************************************)
EXTENDS Integers, Sequences, FiniteSets, FiniteSetsExt

CONSTANTS
  NumAgents,
  Slots,
  Candidates,     \* Candidates[s]: propositions that may fill slot s
  Truth,          \* Truth[s]: the one that is true
  Evidence,       \* evidence items
  Facts,          \* Facts[e]: source, slot, proposition, stance, freshness
  Holders,        \* Holders[e]: agents who hold e at the start
  InspectBudget, VerifyBudget,
  Cost,           \* effort of inspect, share, propose, verify, challenge
  Pay,            \* benefit, penalty, and credits of accepted claims
  MaxRounds,
  Touched,        \* bound: items of the actions tried in free play
  MaxClaims,      \* bound: claims up to which free play proposes
  MaxCited,       \* bound: items an action of free play cites
  None

Agents == 1 .. NumAgents
Institutions == [accountability : {"aggregate", "attributable"},
                 topology : {"private", "shared_ledger"}]
Citations == {cited \in SUBSET Touched : Cardinality(cited) <= MaxCited}
Propositions == UNION {Candidates[s] : s \in Slots}

(* what ECWorldSpec and ECParams accept *)
ValidWorld ==
  /\ \A s \in Slots : Truth[s] \in Candidates[s]
  /\ Facts \in [Evidence -> [source : STRING, slot : Slots, proposition : Propositions,
                             stance : {"supports", "contradicts"},
                             freshness : {"fresh", "stale"}]]
  /\ \A e \in Evidence : Facts[e].proposition \in Candidates[Facts[e].slot]
  /\ Holders \in [Evidence -> SUBSET Agents]

Params ==
  /\ InspectBudget \in Nat /\ VerifyBudget \in Nat
  /\ Cost \in [{"inspect", "share", "propose", "verify", "challenge"} -> Nat]
  /\ Pay \in [{"benefit", "penalty", "propose_correct", "propose_wrong",
               "verify_correct", "verify_wrong"} -> Int]
  /\ Pay.benefit >= 0 /\ Pay.penalty >= 0

ASSUME RosterAssumption == NumAgents \in Nat \ {0} /\ MaxRounds \in Nat
ASSUME WorldAssumption == ValidWorld /\ Params
ASSUME TouchedAssumption == Evidence \subseteq Nat /\ Touched \subseteq Evidence
ASSUME NoneAssumption == None \notin Nat

VARIABLES
  institution,
  round,
  turn,        \* the agent whose action is applied next
  budgets,     \* budgets[a]: what is left to inspect and to verify
  effort,
  visible,     \* visible[e]: agents who can access e
  inspected,   \* inspected[a]: items whose facts a has learnt
  claims,      \* in claim_order
  seen,        \* visible, when the round opened
  known        \* claims, when the round opened: the first so many

vars == <<institution, round, turn, budgets, effort, visible, inspected, claims, seen, known>>
opening == <<institution, round, seen, known>>

Init ==
  /\ institution \in Institutions
  /\ round = 0 /\ turn = 1
  /\ budgets = [a \in Agents |-> [inspect |-> InspectBudget, verify |-> VerifyBudget]]
  /\ effort = [a \in Agents |-> 0]
  /\ visible = [e \in Evidence |-> IF institution.topology = "shared_ledger" THEN Agents
                                   ELSE Holders[e]]
  /\ inspected = [a \in Agents |-> {}]
  /\ claims = << >>
  /\ seen = visible /\ known = 0

-----------------------------------------------------------------------------
(* validate_action, on the opening state; an agent's own budgets and       *)
(* verifications are still those of the opening when its turn comes.       *)

CanAccess(a, e) == a \in seen[e]

Verifiers(c) == {c.verifications[n].agent : n \in DOMAIN c.verifications}
Challengers(c) == {c.challenges[n].agent : n \in DOMAIN c.challenges}

(* A name that says a fault ("...Again") is a mutated form, used by no     *)
(* specification.                                                          *)
MayInspect(a, e) == budgets[a].inspect > 0 /\ CanAccess(a, e)
MayShare(a, e) == institution.topology = "private" /\ CanAccess(a, e)
MayPropose(a, s, p, cited) == p \in Candidates[s] /\ \A e \in cited : CanAccess(a, e)
MayVerify(a, k) ==
  /\ budgets[a].verify > 0 /\ k <= known
  /\ claims[k].proposer # a
  /\ a \notin Verifiers(claims[k])

MayChallenge(a, k, cited) ==
  /\ k <= known
  /\ a \notin Challengers(claims[k])
  /\ \A e \in cited : CanAccess(a, e)

-----------------------------------------------------------------------------
(* Adjudication, on the state reached so far *)

Bears(e, c, stance) ==
  /\ Facts[e].freshness = "fresh" /\ Facts[e].stance = stance
  /\ Facts[e].slot = c.slot /\ Facts[e].proposition = c.proposition

SupportedWhatever(access, a, c) == c.cited # {}
Supported(access, a, c) == \E e \in c.cited : a \in access[e] /\ Bears(e, c, "supports")
Contradicted(access, a, c, cited) ==
  \E e \in cited : a \in access[e] /\ Bears(e, c, "contradicts")

Count(list, P(_)) == Cardinality({n \in DOMAIN list : P(list[n])})
NetSupport(c) ==
  Count(c.verifications, LAMBDA v : v.supported) - Count(c.challenges, LAMBDA h : h.valid)

-----------------------------------------------------------------------------
(* resolve, one agent at a time *)

Spend(a, what) == effort' = [effort EXCEPT ![a] = @ + Cost[what]]

Withhold(a) == UNCHANGED <<budgets, effort, visible, inspected, claims>>

Inspect(a, e) ==
  /\ MayInspect(a, e)
  /\ budgets' = [budgets EXCEPT ![a].inspect = @ - 1]
  /\ Spend(a, "inspect")
  /\ inspected' = [inspected EXCEPT ![a] = @ \cup {e}]
  /\ UNCHANGED <<visible, claims>>

Share(a, e) ==
  /\ MayShare(a, e)
  /\ Spend(a, "share")
  /\ visible' = [visible EXCEPT ![e] = Agents]
  /\ UNCHANGED <<budgets, inspected, claims>>

Propose(a, s, p, cited) ==
  /\ MayPropose(a, s, p, cited)
  /\ Spend(a, "propose")
  /\ claims' = Append(claims, [slot |-> s, proposition |-> p, proposer |-> a,
                               cited |-> cited, verifications |-> << >>, challenges |-> << >>])
  /\ UNCHANGED <<budgets, visible, inspected>>

VerifyWithProposersAccess(a, k) ==
  /\ MayVerify(a, k)
  /\ budgets' = [budgets EXCEPT ![a].verify = @ - 1]
  /\ Spend(a, "verify")
  /\ claims' = [claims EXCEPT ![k].verifications = Append(@,
       [agent |-> a, supported |-> Supported(visible, claims[k].proposer, claims[k])])]
  /\ UNCHANGED <<visible, inspected>>

Verify(a, k) ==
  /\ MayVerify(a, k)
  /\ budgets' = [budgets EXCEPT ![a].verify = @ - 1]
  /\ Spend(a, "verify")
  /\ claims' = [claims EXCEPT ![k].verifications = Append(@,
       [agent |-> a, supported |-> Supported(visible, a, claims[k])])]
  /\ UNCHANGED <<visible, inspected>>

Challenge(a, k, cited) ==
  /\ MayChallenge(a, k, cited)
  /\ Spend(a, "challenge")
  /\ claims' = [claims EXCEPT ![k].challenges = Append(@,
       [agent |-> a, valid |-> Contradicted(visible, a, claims[k], cited)])]
  /\ UNCHANGED <<budgets, visible, inspected>>

Act(a) ==
  \/ Withhold(a)
  \/ \E e \in Touched : Inspect(a, e) \/ Share(a, e)
  \/ Len(claims) < MaxClaims /\ \E s \in Slots, p \in Propositions, cited \in Citations :
       Propose(a, s, p, cited)
  \/ \E k \in DOMAIN claims :
       Verify(a, k) \/ \E cited \in Citations : Challenge(a, k, cited)

ApplyNext ==
  /\ round < MaxRounds /\ turn <= NumAgents
  /\ Act(turn)
  /\ turn' = turn + 1
  /\ UNCHANGED opening

CloseRound ==
  /\ round < MaxRounds /\ turn > NumAgents
  /\ round' = round + 1 /\ turn' = 1
  /\ seen' = visible /\ known' = Len(claims)
  /\ UNCHANGED <<institution, budgets, effort, visible, inspected, claims>>

Next == ApplyNext \/ CloseRound

Spec == Init /\ [][Next]_vars

(* What the mechanism lets an agent do, without the bounds of free play *)
AnyAct(a) ==
  \/ Withhold(a)
  \/ \E e \in Evidence : Inspect(a, e) \/ Share(a, e)
  \/ \E s \in Slots, p \in Propositions, cited \in SUBSET Evidence : Propose(a, s, p, cited)
  \/ \E k \in DOMAIN claims :
       Verify(a, k) \/ \E cited \in SUBSET Evidence : Challenge(a, k, cited)

ApplyAny ==
  /\ round < MaxRounds /\ turn <= NumAgents
  /\ AnyAct(turn)
  /\ turn' = turn + 1
  /\ UNCHANGED opening

CommonsNext == ApplyAny \/ CloseRound

CommonsSpec == Init /\ [][CommonsNext]_vars

-----------------------------------------------------------------------------
(* observe.  "my_credit" is left out: no step changes it from 0. *)

EvidenceViewShowingAnybodysFacts(a, e) ==
  [item |-> e, public |-> visible[e] = Agents,
   facts |-> IF \E b \in Agents : e \in inspected[b] THEN Facts[e] ELSE None]

EvidenceView(a, e) ==
  [item |-> e, public |-> visible[e] = Agents,
   facts |-> IF e \in inspected[a] THEN Facts[e] ELSE None]

ClaimView(a, c) ==
  [what |-> <<c.slot, c.proposition, c.cited>>, net_support |-> NetSupport(c),
   sizes |-> <<Len(c.verifications), Len(c.challenges)>>,
   names |-> IF institution.accountability = "attributable"
             THEN <<c.proposer, Verifiers(c), Challengers(c)>> ELSE None,
   mine |-> <<c.proposer = a, a \in Verifiers(c), a \in Challengers(c)>>]

Observation(a) ==
  [round |-> round, budgets |-> budgets[a], effort |-> effort[a],
   evidence |-> {EvidenceView(a, e) : e \in {x \in Evidence : a \in visible[x]}},
   claims |-> [k \in DOMAIN claims |-> ClaimView(a, claims[k])]]

-----------------------------------------------------------------------------
(* final_briefing and final_rewards *)

Contenders(s) == {k \in DOMAIN claims : claims[k].slot = s /\ NetSupport(claims[k]) >= 1}

(* the highest net support, the earliest claim among equals *)
Winner(s) ==
  IF Contenders(s) = {} THEN None
  ELSE CHOOSE k \in Contenders(s) : \A j \in Contenders(s) :
         \/ NetSupport(claims[k]) > NetSupport(claims[j])
         \/ NetSupport(claims[k]) = NetSupport(claims[j]) /\ k <= j

Filled == {s \in Slots : Winner(s) # None}
Accepted(s) == claims[Winner(s)]
Correct(s) == Accepted(s).proposition = Truth[s]
ProvenanceOk(c) ==
  \E e \in c.cited : /\ Facts[e].freshness = "fresh" /\ Facts[e].stance = "supports"
                     /\ Facts[e].proposition = c.proposition

Quality == MapThenSumSet(LAMBDA s : IF Correct(s) THEN Pay.benefit ELSE - Pay.penalty, Filled)

CreditFor(a, s) ==
  (IF Accepted(s).proposer # a THEN 0
   ELSE IF Correct(s) THEN Pay.propose_correct ELSE Pay.propose_wrong)
  + Count(Accepted(s).verifications, LAMBDA v : v.agent = a /\ v.supported)
    * (IF Correct(s) THEN Pay.verify_correct ELSE Pay.verify_wrong)

Credit(a) == MapThenSumSet(LAMBDA s : CreditFor(a, s), Filled)

UtilityUnderPoolingUndivided(accountability, a) ==
  NumAgents * (IF accountability = "aggregate" THEN MapThenSumSet(Credit, Agents) ELSE Credit(a))
  + Quality - NumAgents * effort[a]

(* in N-ths: N times credit, or the pooled credit's equal share *)
Utility(accountability, a) ==
  (IF accountability = "aggregate" THEN MapThenSumSet(Credit, Agents) ELSE NumAgents * Credit(a))
  + Quality - NumAgents * effort[a]

(* what a certificate compares between institutions *)
Briefing == [s \in Slots |-> IF Winner(s) = None THEN None ELSE Accepted(s).proposition]
TotalUtility == MapThenSumSet(LAMBDA a : Utility(institution.accountability, a), Agents)

-----------------------------------------------------------------------------
(* Properties *)

Claims == [slot : Slots, proposition : Propositions, proposer : Agents,
           cited : SUBSET Evidence,
           verifications : Seq([agent : Agents, supported : BOOLEAN]),
           challenges : Seq([agent : Agents, valid : BOOLEAN])]

TypeOK ==
  /\ institution \in Institutions
  /\ round \in 0 .. MaxRounds /\ turn \in 1 .. NumAgents + 1
  /\ budgets \in [Agents -> [inspect : 0 .. InspectBudget, verify : 0 .. VerifyBudget]]
  /\ effort \in [Agents -> Nat]
  /\ visible \in [Evidence -> SUBSET Agents] /\ seen \in [Evidence -> SUBSET Agents]
  /\ inspected \in [Agents -> SUBSET Evidence]
  /\ claims \in Seq(Claims) /\ known \in 0 .. Len(claims)

Distinct(list) == \A m, n \in DOMAIN list : list[m].agent = list[n].agent => m = n

(* Nobody supports a claim twice or supports its own, and nobody contests  *)
(* one twice, over any number of rounds: support cannot be inflated by one *)
(* agent, nor acceptance by a claim's author (evidence_commons.py:47-50).  *)
SupportIsNotInflated ==
  \A k \in DOMAIN claims :
    /\ Distinct(claims[k].verifications) /\ Distinct(claims[k].challenges)
    /\ claims[k].proposer \notin Verifiers(claims[k])

(* What the briefing accepts, somebody else than its author has found      *)
(* supported by an item that this agent can still access, and the sealed   *)
(* provenance audit agrees with the adjudication made during the episode   *)
(* (evidence_commons.py:404-416 against 434-468).                          *)
AcceptedClaimsHaveProvenance ==
  \A s \in Filled :
    /\ ProvenanceOk(Accepted(s))
    /\ \E a \in Verifiers(Accepted(s)) \ {Accepted(s).proposer} :
         Supported(visible, a, Accepted(s))

(* A round is applied in the order of the agents' ids, but as far as       *)
(* adjudication goes it is simultaneous: a verification recorded as        *)
(* supported would have been on the opening state too, unless the claim    *)
(* cites an item shared in this very round                                 *)
(* (evidence_commons.py:315-316, 404-416).                                 *)
OrderMattersOnlyThroughShares ==
  \A k \in DOMAIN claims : \A n \in DOMAIN claims[k].verifications :
    claims[k].verifications[n].supported =>
      \/ Supported(seen, claims[k].verifications[n].agent, claims[k])
      \/ \E e \in claims[k].cited : visible[e] # seen[e] /\ visible[e] = Agents

(* What an agent observes of others changes only by what they do in        *)
(* public: who inspects, withholds or spends is not to be seen             *)
(* (evidence_commons.py:184-242).                                          *)
PrivateActsAreUnobserved ==
  [][\A a \in Agents :
       a # turn /\ round' = round /\ visible' = visible /\ claims' = claims
         => Observation(a)' = Observation(a)]_vars

=============================================================================
