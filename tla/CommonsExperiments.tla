-------------------------- MODULE CommonsExperiments --------------------------
(***************************************************************************)
(* The six experiments on the Evidence Commons, executed and collected:   *)
(* every cell of a design is played on the mechanism by its policies, then *)
(* the same actions are done again under the other accountability, then    *)
(* checkpoints are branched; what the experiment foretold is held against  *)
(* the records when all are there (execute, collect and predictions of     *)
(* each script under src/experiments/).                                    *)
(*                                                                         *)
(* The designs are executed in parts, between which no prediction relates  *)
(* cells.  A policy that asked for an illegal action would leave an        *)
(* episode stuck: the design says "fail", and no record could be collected.*)
(***************************************************************************)
EXTENDS ExperimentWorlds

AF == INSTANCE AuditFeedback
NC == INSTANCE NoisyCorpus
QS == INSTANCE QualitySafeguards
RC == INSTANCE ResponsiveCommons
RA == INSTANCE RuleAblation
IA == INSTANCE IncentiveAtlas

CONSTANT Parts     \* the parts executed: experiment, and which of its cells

VARIABLES
  institution, round, turn, budgets, effort, visible, inspected, claims, seen, known,
  reports, opened, cast, submitted,     \* of CommonsPolicies
  part,
  entry,        \* the episode under way, or None
  watched,      \* what was observed when the round opened
  history,      \* the rounds of this episode
  records       \* of the entries whose episodes have completed

episode == <<institution, round, turn, budgets, effort, visible, inspected, claims, seen, known,
             reports, opened, cast, submitted>>
vars == <<episode, part, entry, watched, history, records>>

C(w) == INSTANCE CommonsPolicies WITH
  NumAgents <- 3, Slots <- DOMAIN w.candidates, Candidates <- w.candidates, Truth <- w.truth,
  Evidence <- DOMAIN w.facts, Facts <- w.facts, Holders <- w.holders,
  InspectBudget <- w.inspect, VerifyBudget <- w.verify, MaxRounds <- w.rounds,
  Cost <- w.weights.cost, Pay <- w.weights.pay,
  Touched <- {}, MaxClaims <- 0, MaxCited <- 0,
  Schedule <- w.audit.schedule, Accuracy <- w.audit.accuracy, Unavailable <- w.audit.unavailable,
  Casts <- {}, AuditedCasts <- {}, Settings <- {}

-----------------------------------------------------------------------------
(* The entries of a part, stage after stage *)

Stages(p) ==
  CASE p.experiment = "audit" -> AF!Stages(p.of)
    [] p.experiment = "noisy" -> NC!Stages(p.of)
    [] p.experiment = "quality" -> QS!Stages(p.of)
    [] p.experiment = "responsive" -> RC!Stages(p.of)
    [] p.experiment = "atlas" -> IA!Stages(p.of)
    [] p.experiment = "ablation" -> RA!Stages(p.of)

Pending == {n \in DOMAIN Stages(part) : Stages(part)[n] \ DOMAIN records # {}}
Completed == Pending = {}

RootCell(cell) == IF cell \in AF!Branches \cup {AF!Nested} THEN AF!BranchParent ELSE cell

WorldOf(p, e) ==
  CASE p.experiment = "audit" -> AF!World(RootCell(e.cell))
    [] p.experiment = "noisy" -> NC!EpisodeWorld(e)
    [] p.experiment = "quality" -> QS!EpisodeWorld(e)
    [] p.experiment = "responsive" -> RC!EpisodeWorld(e)
    [] p.experiment = "atlas" -> IA!World(e.cell)
    [] p.experiment = "ablation" -> RA!EpisodeWorld(e)

CastOf(p, e) ==
  IF e.kind = "fixed" THEN Scripted
  ELSE CASE p.experiment = "audit" ->
              IF e.cell = RootCell(e.cell) THEN AF!CastOf(e.cell)
              ELSE [a \in Agents |-> IF e.cell.override THEN AF!SkepticalPolicy
                                     ELSE AF!ActivePolicy(AF!BranchParent)]
         [] p.experiment = "noisy" -> NC!Policies(e.cell)
         [] p.experiment = "quality" -> [a \in Agents |-> QS!AgentPolicy(e.cell, a)]
         [] p.experiment = "responsive" -> [a \in Agents |-> RC!AgentPolicy(e.cell, a)]
         [] p.experiment = "atlas" -> [a \in Agents |-> IA!AgentPolicy(e.cell, a)]
         [] p.experiment = "ablation" -> [a \in Agents |-> RA!AgentPolicy(e.cell, a)]

(* what a ReplayPolicy plays: the recorded actions, or literal ones *)
Recorded(cell) == records[[kind |-> "behavior", cell |-> cell]]
ScriptOf(e) == IF e.kind = "fixed" THEN Actions(Recorded(e.cell)) ELSE AF!ScriptOf(e.cell)

-----------------------------------------------------------------------------
(* Checkpoints and records *)

Checkpoint == [institution |-> institution, round |-> round, budgets |-> budgets, effort |-> effort,
               visible |-> visible, inspected |-> inspected, claims |-> claims, reports |-> reports]

Fresh(w) ==
  [institution |-> w.institution, round |-> 0,
   budgets |-> [a \in Agents |-> [inspect |-> w.inspect, verify |-> w.verify]],
   effort |-> [a \in Agents |-> 0],
   visible |-> [e \in DOMAIN w.facts |-> IF w.institution.topology = "shared_ledger" THEN Agents
                                         ELSE w.holders[e]],
   inspected |-> [a \in Agents |-> {}], claims |-> << >>,
   reports |-> IF w.audit = Unaudited THEN None ELSE << >>]

IsBranch(e) == part.experiment = "audit" /\ e.cell # RootCell(e.cell)

(* What the experiments compare of what was observed: all that an agent    *)
(* sees, the findings published, and, where components of a rule are       *)
(* switched, what the older rule would have done.                          *)
Watched(w) ==
  CASE part.experiment \in {"audit", "noisy"} ->
         [a \in Agents |-> [view |-> C(w)!Observation(a), audit |-> reports]]
    [] part.experiment = "ablation" -> [a \in Agents |-> [view |-> C(w)!Observation(a)]]
    [] OTHER -> << >>

Original(w) ==
  IF part.experiment = "ablation" /\ entry.kind = "behavior"
  THEN [a \in RA!Bridged(entry.cell) |-> C(w)!Choice(RA!Original(entry.cell.variant), a)]
  ELSE << >>

BriefingEntry(w, s) ==
  IF C(w)!Winner(s) = None THEN None
  ELSE [claim |-> C(w)!Winner(s), proposition |-> C(w)!Accepted(s).proposition,
        proposer |-> C(w)!Accepted(s).proposer,
        provenance_ok |-> C(w)!ProvenanceOk(C(w)!Accepted(s)),
        net_support |-> C(w)!NetSupport(C(w)!Accepted(s))]

Pooled(w) == MapThenSumSet(LAMBDA a : C(w)!Credit(a), Agents)

Record(w) ==
  [rounds |-> history,
   briefing |-> [s \in DOMAIN w.candidates |-> BriefingEntry(w, s)],
   budgets |-> budgets,
   correct |-> Cardinality({s \in C(w)!Filled : C(w)!Correct(s)}),
   wrong |-> Cardinality({s \in C(w)!Filled : ~C(w)!Correct(s)}),
   quality |-> C(w)!Quality,
   effort |-> effort,
   credit |-> [a \in Agents |-> IF institution.accountability = "aggregate" THEN Pooled(w)
                                ELSE 3 * C(w)!Credit(a)],
   utility |-> [a \in Agents |-> C(w)!Utility(institution.accountability, a)]]

-----------------------------------------------------------------------------
(* The execution *)

Idle ==
  /\ institution = None /\ round = 0 /\ turn = 1 /\ budgets = << >> /\ effort = << >>
  /\ visible = << >> /\ inspected = << >> /\ claims = << >> /\ seen = << >> /\ known = 0
  /\ reports = None /\ opened = FALSE /\ cast = << >> /\ submitted = << >>

Init ==
  /\ Idle /\ part \in Parts /\ entry = None
  /\ watched = << >> /\ history = << >> /\ records = << >>

Resume(from, players) ==
  /\ institution' = from.institution /\ round' = from.round /\ turn' = 1
  /\ budgets' = from.budgets /\ effort' = from.effort
  /\ visible' = from.visible /\ seen' = from.visible /\ inspected' = from.inspected
  /\ claims' = from.claims /\ known' = Len(from.claims)
  /\ reports' = from.reports /\ opened' = (from.reports = None)
  /\ cast' = players /\ submitted' = << >> /\ watched' = << >>

(* The next episode: of the first stage that is not complete, any. *)
Begin ==
  /\ entry = None /\ ~Completed
  /\ LET e == CHOOSE e \in Stages(part)[Min(Pending)] : e \notin DOMAIN records
         whole == IF IsBranch(e) THEN Recorded(e.cell.parent).rounds ELSE << >>
     IN /\ entry' = e
        /\ history' = IF IsBranch(e) THEN SubSeq(whole, 1, e.cell.fork) ELSE << >>
        /\ Resume(IF IsBranch(e) THEN whole[e.cell.fork].left ELSE Fresh(WorldOf(part, e)),
                  CastOf(part, e))
  /\ UNCHANGED <<part, records>>

OpenRound(w) == C(w)!OpenRound /\ UNCHANGED watched

Watch(w) ==
  watched' = IF turn = 1 THEN [observed |-> Watched(w), original |-> Original(w)] ELSE watched

ApplyChosen(w) == C(w)!ApplyChosen /\ Watch(w)

ApplyScripted(w) ==
  /\ opened /\ round < w.rounds /\ turn <= 3 /\ cast[turn] = None
  /\ C(w)!Perform(turn, ScriptOf(entry)[round + 1][turn])
  /\ turn' = turn + 1
  /\ submitted' = ScriptOf(entry)[round + 1]
  /\ Watch(w)
  /\ UNCHANGED <<institution, round, seen, known, reports, opened, cast>>

Adjourn(w) ==
  /\ C(w)!Adjourn
  /\ watched' = << >>
  /\ history' = Append(history,
       [observed |-> watched.observed, original |-> watched.original, done |-> submitted,
        left |-> IF part.experiment = "audit" THEN [Checkpoint EXCEPT !.round = round + 1] ELSE None])

File(w) ==
  /\ round = w.rounds
  /\ records' = (entry :> Record(w)) @@ records
  /\ entry' = None /\ history' = << >>
  /\ UNCHANGED <<episode, watched>>

Play ==
  /\ entry # None
  /\ \E w \in {WorldOf(part, entry)} :
       \/ /\ OpenRound(w) \/ ApplyChosen(w) \/ ApplyScripted(w)
          /\ UNCHANGED <<entry, history, records>>
       \/ Adjourn(w) /\ UNCHANGED <<entry, records>>
       \/ File(w)
  /\ UNCHANGED part

Done == Completed /\ UNCHANGED vars

Next == Begin \/ Play \/ Done

Spec == Init /\ [][Next]_vars

-----------------------------------------------------------------------------
(* Properties *)

OfKind(kind) ==
  [c \in {e.cell : e \in {x \in DOMAIN records : x.kind = kind}} |->
     records[[kind |-> kind, cell |-> c]]]
Results == OfKind("behavior")
Replays == OfKind("fixed")

Between(experiment) == part.experiment = experiment /\ entry = None

(* Contributors who inspect leave an exact trace: with findings that are   *)
(* published or withheld, correct or not, their actions, what the group    *)
(* accepts and the expectation over every law of audit errors are the      *)
(* closed form's; truth shows in the findings only, and a branch from a    *)
(* checkpoint is the parent until its fork (audit_closed_form.py:41-178).  *)
AuditFeedbackIsAsForetold ==
  Between("audit") => AF!RecordsAgree(Results) /\ (Completed => AF!Predictions(Results))

(* Over every corpus of three noisy items, the policies accept what the    *)
(* closed form says, so that accuracy and quality in expectation are its   *)
(* polynomials in the noise, with equal mass for equal corpora             *)
(* (noisy-corpus/closed_form.py:11-74).                                    *)
NoisyCorpusIsAsForetold ==
  Between("noisy") => /\ NC!RecordsAgree(Results, Replays)
                      /\ Completed => NC!Predictions(Results, Replays)

(* The three designs that set one decision rule against another come out   *)
(* as announced: an independent citation is required where it protects,    *)
(* attribution removes the bottleneck of anonymous quorums and matters to  *)
(* nothing else, and of the four switched components those act that were   *)
(* said to, with the older rules at both ends. The same actions under the  *)
(* other accountability leave the task as it was                           *)
(* (quality_safeguards.py:280-341, responsive_commons.py:274-312,          *)
(* ablation_readout.py:31-155).                                            *)
RuleComparisonsAreAsForetold ==
  /\ Between("quality") => /\ QS!RecordsAgree(Results, Replays)
                           /\ Completed => QS!Predictions(Results, Replays)
  /\ Between("responsive") => /\ RC!RecordsAgree(Results, Replays)
                              /\ Completed => RC!Predictions(Results, Replays)
  /\ Between("ablation") => /\ RA!RecordsAgree(Results, Replays)
                            /\ Completed => RA!Predictions(Results, Replays)

(* The incentive classes of the atlas derived by hand, from coefficients   *)
(* of effort and credit, are those of the episodes as played, and who is   *)
(* credited changes what pays but never what is done (atlas.py:158-197).   *)
IncentiveAtlasIsAsDerived ==
  Between("atlas") => IA!RecordsAgree(Results) /\ (Completed => IA!Predictions(Results))
=============================================================================
