--------------------------- MODULE CommonsPolicies ---------------------------
(***************************************************************************)
(* The scripted policies of the Evidence Commons                           *)
(* (agents/scripted/ec_policies.py, ec_ablation.py and ec_audit.py),       *)
(* playing its mechanism.  A policy keeps no memory: it is a function of   *)
(* what its agent observes when the round opens, so any of them may be     *)
(* asked in any state, as when a branch puts a new policy into an old run. *)
(*                                                                         *)
(* A rule is a list of things to do in order of priority.  Here each is    *)
(* the set of its first candidate, or empty, and ?? reads "or else".       *)
(* Whoever cast leaves to None may do anything legal, like a model.  A     *)
(* name that says a fault ("...Summed") is a mutated form.                 *)
(***************************************************************************)
EXTENDS CommonsAudits

CONSTANTS
  Casts,          \* who plays: functions from Agents to Policies or None
  AuditedCasts,   \* bound: those of them that play under audits too
  Settings        \* bound: the policies the properties ask

Rules == {"contributor", "freerider", "verifier", "misinformer",
          "conditional", "skeptical", "ablation", "audit_veto"}

(* The parameters of all rules together; a rule reads its own. *)
Policies ==
  [rule : Rules, share : BOOLEAN, warmup : Nat, quorum : {p \in Nat \X Nat : Probability(p)},
   min_sources : Nat \ {0}, screen : BOOLEAN, contradictions : BOOLEAN,
   challenge : BOOLEAN, read_citation : BOOLEAN]

ASSUME CastsAssumption ==
  /\ \A c \in Casts : c \in [Agents -> Policies \cup {None}]
  /\ AuditedCasts \subseteq Casts /\ Settings \subseteq Policies

VARIABLES
  cast,
  submitted    \* what the policies chose, once the round's first action is applied

playVars == <<vars, reports, opened, cast, submitted>>

-----------------------------------------------------------------------------
(* Helpers on an agent's observation *)

A ?? B == IF A # {} THEN A ELSE B
FirstOf(candidates, Do(_)) == IF candidates = {} THEN {} ELSE {Do(Min(candidates))}

Uninspected(a) == {e \in Evidence : a \in visible[e]} \ inspected[a]
Supporting(a) == {e \in inspected[a] : Facts[e].stance = "supports"}
Fresh(a) == {e \in inspected[a] : Facts[e].freshness = "fresh"}
FreshSupport(a) == Supporting(a) \cap Fresh(a)
FreshAgainst(a) == Fresh(a) \ Supporting(a)

(* what: a claim or the facts of an item *)
About(items, what) ==
  {e \in items : Facts[e].slot = what.slot /\ Facts[e].proposition = what.proposition}

InspectingBeyondBudget(a) == FirstOf(Uninspected(a), LAMBDA e : [do |-> "inspect", item |-> e])

Inspecting(a) ==
  FirstOf(IF budgets[a].inspect > 0 THEN Uninspected(a) ELSE {},
          LAMBDA e : [do |-> "inspect", item |-> e])

Sharing(p, items) ==
  FirstOf({e \in items : p.share /\ institution.topology = "private" /\ visible[e] # Agents},
          LAMBDA e : [do |-> "share", item |-> e])

(* one claim per slot, and none that somebody has made already *)
Proposing(a, support) ==
  FirstOf({e \in support :
             \A k \in DOMAIN claims :
               claims[k].slot = Facts[e].slot =>
                 claims[k].proposer # a /\ claims[k].proposition # Facts[e].proposition},
          LAMBDA e : [do |-> "propose", slot |-> Facts[e].slot,
                      proposition |-> Facts[e].proposition, cited |-> About(support, Facts[e])])

Verifying(a, worthwhile) ==
  FirstOf({k \in worthwhile : /\ budgets[a].verify > 0
                              /\ claims[k].proposer # a /\ a \notin Verifiers(claims[k])},
          LAMBDA k : [do |-> "verify", claim |-> k])

Challenging(a, items) ==
  FirstOf({k \in DOMAIN claims : /\ claims[k].proposer # a /\ a \notin Challengers(claims[k])
                                 /\ About(items, claims[k]) # {}},
          LAMBDA k : [do |-> "challenge", claim |-> k, cited |-> About(items, claims[k])])

-----------------------------------------------------------------------------
(* The quorum and the screen *)

Peers(a, c) == ({c.proposer} \cup Verifiers(c)) \ {a}

(* counted from the numbers an anonymous claim shows *)
AnonymousPeers(a, c) ==
  (IF c.proposer # a THEN 1 ELSE 0)
    + Len(c.verifications) - (IF a \in Verifiers(c) THEN 1 ELSE 0)

Identified(a) ==
  IF institution.accountability = "attributable"
  THEN UNION {Peers(a, claims[k]) : k \in DOMAIN claims} ELSE {}

VisiblePeersSummed(a) ==
  Max({Cardinality(Identified(a)),
       MapThenSumSet(LAMBDA k : AnonymousPeers(a, claims[k]), DOMAIN claims)})

VisiblePeers(a) ==
  Max({Cardinality(Identified(a))} \cup {AnonymousPeers(a, claims[k]) : k \in DOMAIN claims})

Quorate(p, a) ==
  \/ round < p.warmup
  \/ VisiblePeers(a) * p.quorum[2] >= p.quorum[1] * (NumAgents - 1)

PassesScreenCountingItems(p, a, what) ==
  LET inSlot == {e \in Fresh(a) : Facts[e].slot = what.slot}
      same(e) == Facts[e].proposition = what.proposition
  IN /\ \A e \in inSlot : same(e) <=> Facts[e].stance = "supports"
     /\ Cardinality({e \in inSlot : same(e)}) >= p.min_sources

(* enough sources for it; nothing against it, nothing for a rival *)
PassesScreen(p, a, what) ==
  LET inSlot == {e \in Fresh(a) : Facts[e].slot = what.slot}
      same(e) == Facts[e].proposition = what.proposition
  IN /\ \A e \in inSlot : same(e) <=> Facts[e].stance = "supports"
     /\ Cardinality({Facts[e].source : e \in {x \in inSlot : same(x)}}) >= p.min_sources

Screened(p, a, items) == {e \in items : PassesScreen(p, a, Facts[e])}
ScreenedClaims(p, a) == {k \in DOMAIN claims : PassesScreen(p, a, claims[k])}

(* claims whose citation the agent has read itself and found in support *)
ReadCitations(a) ==
  {k \in DOMAIN claims : claims[k].cited \cap About(FreshSupport(a), claims[k]) # {}}

-----------------------------------------------------------------------------
(* The rules *)

Contributor(p, a) ==
  Inspecting(a) ?? Sharing(p, FreshSupport(a))
    ?? Proposing(a, FreshSupport(a)) ?? Verifying(a, DOMAIN claims)

Freerider == {}

(* of several refutations a dictionary keeps the last *)
Latest(items) == {e \in items : e = Max(About(items, Facts[e]))}

Verifier(a) ==
  Inspecting(a) ?? Challenging(a, Latest(FreshAgainst(a))) ?? Verifying(a, DOMAIN claims)

Misinformer(a) == Inspecting(a) ?? Proposing(a, Supporting(a))

Conditional(p, a) == IF Quorate(p, a) THEN Contributor(p, a) ELSE {}

Skeptical(p, a) ==
  IF ~Quorate(p, a) THEN {} ELSE
  Inspecting(a) ?? Sharing(p, Fresh(a)) ?? Challenging(a, FreshAgainst(a))
    ?? Proposing(a, Screened(p, a, FreshSupport(a)))
    ?? Verifying(a, ScreenedClaims(p, a) \cap ReadCitations(a))

AblationScreeningProposalsOnly(p, a) ==
  IF ~Quorate(p, a) THEN {} ELSE
  Inspecting(a) ?? Sharing(p, IF p.contradictions THEN Fresh(a) ELSE FreshSupport(a))
    ?? Challenging(a, IF p.challenge THEN FreshAgainst(a) ELSE {})
    ?? Proposing(a, IF p.screen THEN Screened(p, a, FreshSupport(a)) ELSE FreshSupport(a))
    ?? Verifying(a, IF p.read_citation THEN ReadCitations(a) ELSE DOMAIN claims)

Ablation(p, a) ==
  IF ~Quorate(p, a) THEN {} ELSE
  Inspecting(a) ?? Sharing(p, IF p.contradictions THEN Fresh(a) ELSE FreshSupport(a))
    ?? Challenging(a, IF p.challenge THEN FreshAgainst(a) ELSE {})
    ?? Proposing(a, IF p.screen THEN Screened(p, a, FreshSupport(a)) ELSE FreshSupport(a))
    ?? Verifying(a, (IF p.screen THEN ScreenedClaims(p, a) ELSE DOMAIN claims)
                      \cap (IF p.read_citation THEN ReadCitations(a) ELSE DOMAIN claims))

AuditVetoOfProposalsOnly(p, a) ==
  {x \in Skeptical(p, a) :
     x.do = "propose" => <<x.slot, x.proposition>> \notin NegativeTargets}

(* Only the claim action chosen is vetoed; the rest of the rule is not     *)
(* asked for another one.                                                  *)
AuditVeto(p, a) ==
  {x \in Skeptical(p, a) :
     /\ x.do = "propose" => <<x.slot, x.proposition>> \notin NegativeTargets
     /\ x.do = "verify" =>
          <<claims[x.claim].slot, claims[x.claim].proposition>> \notin NegativeTargets}

Choice(p, a) ==
  CHOOSE x \in (CASE p.rule = "contributor" -> Contributor(p, a)
                  [] p.rule = "freerider"   -> Freerider
                  [] p.rule = "verifier"    -> Verifier(a)
                  [] p.rule = "misinformer" -> Misinformer(a)
                  [] p.rule = "conditional" -> Conditional(p, a)
                  [] p.rule = "skeptical"   -> Skeptical(p, a)
                  [] p.rule = "ablation"    -> Ablation(p, a)
                  [] p.rule = "audit_veto"  -> AuditVeto(p, a)) ?? {[do |-> "withhold"]} : TRUE

-----------------------------------------------------------------------------
(* Play *)

PlayInit ==
  /\ Init
  /\ cast \in Casts
  /\ reports \in {None} \cup (IF cast \in AuditedCasts THEN {<< >>} ELSE {})
  /\ opened = ~Audited
  /\ submitted = << >>

OpenRound == Prepare /\ UNCHANGED <<vars, cast, submitted>>

Submissions ==
  IF turn = 1 THEN [a \in {x \in Agents : cast[x] # None} |-> Choice(cast[a], a)] ELSE submitted

Perform(a, x) ==
  \/ x.do = "withhold" /\ Withhold(a)
  \/ x.do = "inspect" /\ Inspect(a, x.item)
  \/ x.do = "share" /\ Share(a, x.item)
  \/ x.do = "propose" /\ Propose(a, x.slot, x.proposition, x.cited)
  \/ x.do = "verify" /\ Verify(a, x.claim)
  \/ x.do = "challenge" /\ Challenge(a, x.claim, x.cited)

ApplyOwn ==
  /\ opened /\ turn <= NumAgents /\ cast[turn] = None
  /\ ApplyNext
  /\ submitted' = Submissions /\ UNCHANGED <<reports, opened, cast>>

ApplyChosen ==
  /\ round < MaxRounds /\ turn <= NumAgents
  /\ opened /\ cast[turn] # None
  /\ Perform(turn, Submissions[turn])
  /\ turn' = turn + 1 /\ submitted' = Submissions
  /\ UNCHANGED opening /\ UNCHANGED <<reports, opened, cast>>

Adjourn ==
  /\ CloseRound
  /\ opened' = ~Audited /\ submitted' = << >>
  /\ UNCHANGED <<reports, cast>>

PlayNext == OpenRound \/ ApplyOwn \/ ApplyChosen \/ Adjourn

PlaySpec == PlayInit /\ [][PlayNext]_playVars

-----------------------------------------------------------------------------
(* Properties *)

Legal(a, x) ==
  CASE x.do = "inspect"   -> MayInspect(a, x.item)
    [] x.do = "share"     -> MayShare(a, x.item)
    [] x.do = "propose"   -> MayPropose(a, x.slot, x.proposition, x.cited)
    [] x.do = "verify"    -> MayVerify(a, x.claim)
    [] x.do = "challenge" -> MayChallenge(a, x.claim, x.cited)
    [] OTHER              -> TRUE

Opening == opened /\ turn = 1 /\ round < MaxRounds

(* A policy that sees only its observation never proposes what the         *)
(* mechanism refuses, in any state that any players have led to: an        *)
(* illegal proposal costs the whole run under the fail policy              *)
(* (ec_policies.py:54-329 against evidence_commons.py:246-296).            *)
PoliciesActLegally ==
  Opening => \A p \in Settings, a \in Agents : Legal(a, Choice(p, a))

(* The quorum is never overstated: what an agent counts are distinct peers *)
(* that did propose or verify, all of them when it can tell who is who.    *)
(* Anonymous counts rest on nobody verifying twice or verifying its own,   *)
(* over any number of rounds (ec_policies.py:173-192).                     *)
PeerCountIsALowerBound ==
  Opening => \A a \in Agents :
    LET real == UNION {Peers(a, claims[k]) : k \in DOMAIN claims}
    IN /\ VisiblePeers(a) <= Cardinality(real)
       /\ institution.accountability = "attributable" => VisiblePeers(a) = Cardinality(real)
=============================================================================
