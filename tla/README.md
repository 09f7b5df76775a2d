# Collaborative Hill Lab: verification project

TLA+ models of the Collaborative Hill laboratory, the TLC runs that check
them, and proofs that TLAPS checks. Paths are relative to the repository; where
no directory is given, Python files are under `src/collaborative_hill/`.

- [1. The system](#1-the-system): parts, state, interactions, hazards
- [2. Modules and code](#2-modules-and-code): what stands for what
- [3. Runs](#3-runs): what each shows, its bounds, its fairness
- [4. Proofs](#4-proofs): theorems, assumptions, inductive invariants
- [5. Findings](#5-findings)
- [6. What is left out](#6-what-is-left-out)
- [7. Plan](#7-plan)

To use it: `tlc -config EpisodeRunner.cfg MCEpisodeRunner`,
`tlapm EpisodeRunnerProofs.tla`. PROJECT.json lists runs, properties, theorems,
hazards, and for every definition the lines it stands for. A few modules hold
definitions whose name or comment calls them a *mutated form* (`TerminalLate`,
`PublishReplacing`, ...). They belong to no specification: each is a plausible
mistake in the code that must break a named property, which shows that the
property depends on that code.

## 1. The system

A *scenario* names a mechanism (a game), agents with policies, and seeds. A
*study* runs scenarios over seeds. One run is one episode: the runner asks each
policy for an action each round, writes everything into an append-only,
hash-chained ledger in the run's own directory, and seals it. From sealed runs
the tools branch counterfactuals, replay, compare and report; all of them first
load and validate the run.

    study.py ──> RunPaths.reserve ──> run_episode ──> mechanism (validate, resolve, observe)
       │               │                  │  └──────> policies ──> scripted rules
       │  lock         │ directory        │ ledger,          └──> LLMPolicy ─> provider ─> RequestBudget
       ▼               ▼                  ▼ checkpoints                (shared by agents, episodes, branches)
    freeze_study   branch_run ─────> run_episode          load_run <── branch, replay, monitor, reports

Each part below: its state, its operations, what is hard about it, and what makes it correct.

**Episode runner and ledger** (`engine/runner.py`, `store.py`, `events.py`,
`interfaces.py`). State: mechanism state, the round's accepted actions,
`events.jsonl`, checkpoint files. Operations: one loop of open round, observe
everyone, ask everyone, validate or fall back, resolve, checkpoint; sealing as
completed or failed. Hard: a failure in the middle of a round, a fallback that
is illegal itself, a crash between a checkpoint file and the event announcing
it, sequence numbers read before or after an append. Correct when the ledger is
one play of whole, legal, simultaneous rounds, every file in the directory
agrees with it, and a run that does not crash is sealed.

**Branching and replay** (`engine/branching.py`, `replay.py`, `validation.py`,
`agents/replay.py`). State: a family of run directories. Operations: fork from
a checkpoint with some policies replaced; load with ancestry and provenance
checks; replay segment by segment from recorded proposals. Hard: branches of
branches, forks at inherited checkpoints, inherited overrides, provider errors
recorded for the run and not for an agent. Correct when what branching writes
loads again, keeps history, state and policies of its ancestors, and replays to
the verdict it should.

**Provider requests** (`agents/llm/budget.py`, `openai_compatible.py`,
`policy.py`, `accounting.py`). State: one `RequestBudget` shared by all agents
and by successive episodes or continuations of a run; per-policy call records;
manifests. Operations: admit, send, retry after HTTP 429, repair an invalid
action, account, seal. Hard: limits of two scopes, a deadline that passes while
a retry waits, exhaustion raised inside a loop that catches provider errors,
counters with three owners. Correct when no limit is passed on the wire and
budget, wire, manifest and seal tell the same story.

**Run directory reservation** (`store.py`, with the writes of `study.py` and
`branching.py`). State: the directory and the files in it. Operations: mkdir,
emptiness check, exclusive creation of the ledger, the caller's writes, cleanup
of an owned failure. Hard: competing launches, failure or death anywhere, an
operator's `make clean-generated`, inode numbers that come back. Correct when
one launch at a time holds a directory and nobody removes what is not its own.

**Run monitor** (`reporting/monitor.py`). State: a snapshot in progress. Hard:
it reads files that others write, remove and create. Correct when a row that
certifies or condemns a run describes one instant.

**Study freeze** (`experiments/study.py`). State: study files and
`study.lock.json`. Operations: freeze (load, hash, write a temporary, link it
into place or compare), run (load, check the lock). Hard: competing freezes,
edits in between, death at any point. Correct when the lock is whole, never
replaced, and a run called frozen is of the locked version.

**Evidence Commons** (`domain/world/evidence_commons.py`, `institutions.py`,
`evidence.py`, `claims.py`, `actions.py`). State: budgets, effort, who can see
and who has read which evidence, claims with verifications and challenges.
Operations: six actions per agent and round, validated against the round's
opening and applied in agent order; observation; briefing; rewards. Hard: the
order within a round, verification against access that changes, an observation
put together from the whole state. Correct when claims are accepted on others'
checks only, order matters only through sharing, and private acts stay private.

**Audited Evidence Commons** (`audited_evidence_commons.py`, `domain/audit.py`).
Adds findings published at scheduled rounds before anyone observes. Correct
when each finding appears once and when due, in branches too.

**Evidence Commons policies** (`agents/scripted/ec_policies.py`,
`ec_ablation.py`, `ec_audit.py`). Functions of an observation. Hard: they must
act legally in every state a branch can put them in, on totals that anonymity
leaves ambiguous. Correct when they do, and when they do what the experiments
say of them.

**Prisoner's dilemmas** (`domain/world/nipd.py`, `graph_nipd.py`,
`agents/scripted/nipd_policies.py`, `graph_nipd_policies.py`,
`metrics/cooperation.py`). State: last moves, scores, round. Two engines and two
policy families for one game; isolates; sums and means. Correct when
reciprocity answers the right agent, defection spreads along games only, and
engine and metric count the same votes.

**Experiments and studies** (`../experiments/`, `../studies/`: one program each).
State: an output directory, the working tree whose commit and design are
recorded, and the runs in between. Operations: write the inputs and the source,
play every cell, play the same actions again under the other accountability,
branch checkpoints, collect, hold against what was foretold, publish. Hard:
closed forms, tables and curves committed before execution on one side and seven
hundred lines of mechanism and policies on the other; provenance read at several
moments; a directory given twice; a failure or kill half-way, and a record of
the failure. Correct when what was foretold is what is played, and what is
published rests on the runs beside it.

**Seed derivation** (`engine/seeds.py`, and the suffixes of `runner.py`). No
state: every draw comes from a stream named by a path of study seed, condition
or block, replicate, purpose and round. Hard: two consumers with one path would
draw the same numbers, and no run would look wrong. Correct when paths coincide
only where the protocol pairs policies on purpose.

**Hashing** (`engine/hashing.py`), **prompts** (`agents/llm/rendering.py`, `prompt_adapters.py`), **request
planning**, **scenario compilation and catalog**, **analysis**, **metrics**,
**reports, comparison, export, inspector, lab, command line**: pure functions of
their inputs or of a loaded run; section 6 says what of them is used and why the
rest is not modelled.

The parts interact through return values and exceptions inside one process and
through the file system between processes. The first is why a step of the runner
is a stretch of code between two writes; the second why a step of the
reservation, the freeze and the monitor is one system call.

## 2. Modules and code

| Module | Code | Correspondence |
| --- | --- | --- |
| `EpisodeRunner` | `runner.py`, `store.py`, `events.py` | `pc` is the place in `run_episode`; an action is the code up to the next write of a ledger line or checkpoint file; `Propose`, `PolicyRaises` and `AcceptProposal`/`RejectProposal` are the outcomes of a policy call and of `validate_action`; `Crash` may follow any write and may tear a checkpoint file |
| `LedgerValidation` | `validation.py` | `ValidateRun` and `ValidateCheckpoint` as the readers apply them; the properties of an episode |
| `SimultaneousGame` | the contract of `interfaces.py` | abstract specification: `PlayRound`, `Complete`, `Fail` |
| `Lineage` | `branching.py`, `replay.py`, `agents/replay.py`, `validation.py` | extends the runner: `archive` holds sealed directories, `job` what the current episode is for. `CanFork`/`Fork` are `branch_run`'s guards and copied prefix, `LoadRun` and `ProvenanceHolds` are `load_run` with all it refuses (but for comparisons of what every run of a family has in common: scenario, roster, seed), `BeginReplay`/`NextReplaySegment`/`FinishReplay` are `replay_run`, `ReplayPolicyStep` is a policy that answers from the ledger |
| `ProviderRequests` | `budget.py`, `openai_compatible.py`, `policy.py`, `accounting.py`, `study.py` | `Admit`, `Recheck`, `Sleep`, `Refused`, `RateLimited`, `RequestFails`, `Completes`, `NeedsRepair` are the exits of `complete` and `propose`; `Begin` starts an episode or continuation, `SealEpisode` writes its manifest; `Tick` and `Cancel` are the environment |
| `RunDirectory` | `store.py` 46-103, `study.py`, `branching.py` | one action per system call; `Writes(kind)` is what each caller writes, in order; a file is its author, inode and stage |
| `RunMonitor` | `monitor.py` | extends `RunDirectory` by one monitor: sign four files, read manifest, then whole run or prefix, sign again |
| `StudyFreeze` | `study.py` 142-236, 440-448 | one action per step that others see; a version stands for the files and their hashes |
| `SeedPaths` | `seeds.py` 34-36, 108-133; `runner.py` 198-201, 222-223, 275 | the paths of a study's draws, numbers as their decimal texts; operators only, for the proofs |
| `EvidenceCommons` | `evidence_commons.py` and domain types | an action of the model is one iteration of `resolve`'s loop, guarded by `validate_action` on the opening of the round (`seen`, `known`) |
| `CommonsAudits` | `audited_evidence_commons.py`, `audit.py` | `Prepare` is `prepare_round`; a keyed draw is a choice among the outcomes with probability |
| `CommonsPolicies` | `ec_policies.py`, `ec_ablation.py`, `ec_audit.py`, `params.py` | each rule a function of what its agent observes; a cast plays the mechanism from the round's opening |
| `CommonsExperiments` | `execute` and `collect` of five experiments and of study 001's atlas | plays each entry of a part's stages on `CommonsPolicies`, instantiated with the entry's world: `Begin` resumes a fresh state or a checkpoint, `ApplyScripted` is a `ReplayPolicy`, `File` is `episode_record`; a policy that acted illegally would be stuck, which the deadlock check would report |
| `ExperimentWorlds` | shared by those scripts | items, policies, records and the incentive certificate |
| `AuditFeedback`, `NoisyCorpus`, `QualitySafeguards`, `ResponsiveCommons`, `RuleAblation`, `IncentiveAtlas` | one script each, with its closed form | cells, worlds, casts and stages; `RecordsAgree` and `Predictions` are what its `collect` computes and its readout requires |
| `ExperimentExecution` | `execute`, `main` and `collect` of all seven scripts, `git_provenance`, `RunPaths.reserve` as one step | a script is the sequence of its steps; `proc` has a launch's place, what it has loaded and taken; `dir` the files, torn or whole, and runs with their authors; the graph study's runs are under a root per design; `Preflight`, `LookForFile`, `OpenFile` and `FillFile` are the steps of its `_write_files`; `Edit` and `Commit` change the tree it records |
| `IteratedDilemma` | `nipd.py`, `graph_nipd.py`, both policy files | `Vote` asks agent after agent, `Resolve` pays and advances; `world.kind` picks the engine |
| `DilemmaProperties` | `cooperation.py`, ADRs of the graph engine | what engines and reciprocators promise |
| `GraphTopology` | `graph_experiment.py` | eighteen cells and their committed curves |
| `ExactReciprocity` | `sparse_ptft_exact.py`, its `generate.py`, `study002_markov.py` | the law of the play computed twice, in exact fractions |

Abstractions that matter. A mechanism of the runner is its own history: its
state is the sequence of joint moves, so two states agree only when all moves
do, and legality may depend on anything that happened. A content hash stands for
its content. Agents are numbers in sorted order. Random draws are choices among
the outcomes with positive probability. Money is scaled to integers (`Scale`, or
N-ths of a unit). Texts (prompts, justifications, rendering) are left out.
In `RunDirectory` the ledger passes the stages empty, torn first record, whole
records, torn seal, sealed, and the manifest created, running, truncated, final,
so that whatever a reader can catch is a state. `CleanGenerated` is the
operator's script; it does not run in the middle of a launch's own cleanup.

## 3. Runs

All runs finish in minutes. `CHECK_DEADLOCK FALSE` except in `experiments`,
because every modelled program ends: a sealed run, a finished launch or a spent
bound has no further step. That nothing stops early is what the liveness properties say, and
`FinishedRunsStayWhole` for launches.

| Run | Question | Bounds, and why they are enough |
| --- | --- | --- |
| `episode` | Do the artifacts of any run describe one play of legal, simultaneous, whole rounds, and is a run that does not crash sealed? | 2 agents (one may abstain, the other not, as in the dilemmas), 3 rounds, cadences 0, 1, 2 (never, each round, a round without a checkpoint), both invalid-action policies, two opening hooks, two domain events, an action legal once (legality depends on history) and one never legal. A half round needs two agents; a failure after a checkpoint and before the next needs three rounds |
| `lineage` | Do branches of branches load, account for their ancestry, keep their overrides, and replay to the right verdict? | 3 runs in a chain (`Chains`: forks of the newest run, a branch that overrides nobody is not forked again): what a grandchild can lose is what its parent inherited, and siblings share nothing but the parent. 3 rounds, a checkpoint each round |
| `requests` | Are limits kept on the wire, and do all accounts agree over several episodes and continuations? | 2 network agents, 1 round, 1 repair, 1 rate-limit retry, 2 episodes or continuations, limits reached inside a completion, inside a repair, and in the second episode; a deadline the retry delay passes (`MaxNow` at the deadline: the clock stops where nothing compares any more). `WideOnce` gives the one limit nobody reaches a single episode |
| `directory` | Can competing launches share, lose or damage a directory? | 3 launches of either kind, 2 exceptions or kills, reused inode numbers: a loser, a cleaner and a newcomer at once. Symmetric |
| `directory_cleaned` | Is a late cleanup harmless after an operator's cleaning? | 2 launches, 1 fault, fresh inode numbers: with reuse the identity check cannot tell, which the code does not claim |
| `transcript_left` | Does the cleanup remove all a failed launch owns? | violated; see findings |
| `monitor` | Is what a snapshot certifies or condemns true of one instant? | 1 snapshot, a branch and a study, 1 fault, reused inodes: failure, cleanup and a new claim fit between any two reads. Snapshots share nothing, so one is enough. The theorem has no bound on faults |
| `freeze` | Is the published lock final, and is a frozen label true? | 3 freezes, 2 runs, 2 versions edited back and forth, kills anywhere. Symmetric |
| `commons` | Acceptance, order, privacy; do policies act legally and count peers soundly in every state? | 3 agents (an author, a supporter and a challenger), one slot with a true and a false proposition, 5 items: fresh, stale, against, second source, misled source. `Touched`, `MaxClaims`, `MaxCited` bound what *free* agents do; a policy's own choice is never cut. Free agents play 3 rounds (`Small`), 516 casts of scripted policies all 8. `Settings` are the policies asked at every opening, whoever plays; `AuditedCasts` also play under audits due in rounds 1 and 4, with right, wrong and missing findings |
| `dilemma` | Is reciprocity bounded and local, do engine, metric and committed curves give the same rates, is the published law that of the play? | complete graph, path, isolate, and a path of four (defection needs rounds to travel); every scripted policy; casts with up to 2 agents that have a choice; 3 or 4 rounds; all 18 cells of graph-topology for their 8 rounds; all 16 of sparse-ptft for 4 rounds (3 where four reciprocate: the fractions of a fourth exceed TLC's integers), the complete ones in both engines; `Scale` 12 is divisible by every degree |
| `experiments` | Are the predictions, closed forms and tables of six designs what the mechanism and the policies yield? | every cell, fixed-action control and branch, in 21 parts no prediction relates: about 1700 episodes. Nothing is reduced: the worlds are the designs' own |
| `execution` | Does what is published rest on what lies beside it, whatever happens to the tree and the process? | 2 launches on one directory, 2 cells, 3 versions of the tree (two of one design), 2 edits or commits, 2 exceptions or kills: a change between any two reads of the tree, a fault in the handling of a fault, a newcomer to what a dead launch left, a second execution or report between another's comparison, look, open and write. Symmetric |

Properties, by what they are about:

- *One story per run.* `ArtifactsAccountForLedger`, `CheckpointsAreForkable`,
  `SealedRunsValidate`, `BranchesAccountForAncestry`, `FiledRunsLoad`,
  `ManifestsCountRequests` (with the plan's worst case), `StopReasonMatchesSeal`.
- *Rules of the game.* `ImplementsGame` (refinement), `AcceptedClaimsHaveProvenance`,
  `OrderMattersOnlyThroughShares`, `PrivateActsAreUnobserved`,
  `AuditsFollowTheSchedule`.
- *Limits.* `WireWithinLimits`, `RunLimitStopIsFinal`.
- *Several processes.* `OneHolder`, `FinishedRunsStayWhole`,
  `ArtifactsAreRetained`, `CleanersOwnTheLedger`, `SnapshotsAreConsistent`,
  `LockIsImmutable`, `FrozenRunsAreOfTheLock`.
- *Policies.* `PoliciesActLegally`, `PeerCountIsALowerBound`,
  `PoliciesAreInherited`, `TftIsExploitedAtMostOnce`,
  `DefectionStaysWithinReach`, `ReplayReproduces`.
- *What was foretold.* `AuditFeedbackIsAsForetold`, `NoisyCorpusIsAsForetold`,
  `RuleComparisonsAreAsForetold`, `IncentiveAtlasIsAsDerived`,
  `RatesAreAsForetold`, `PlayFollowsTheExactLaw`.
- *What is published.* `ResultsRestOnTheirRuns`, `OneExecutionPerDirectory`,
  `FailuresAreToldTruly`, `EvidenceIsRetained`.
- *Progress.* `EveryRunEnds`, `ReplaysEnd`, `EveryEpisodeIsSealed`.

Fairness. The runner, the replay and the provider loop are single threads that
never wait for another process: every policy call returns or raises, a request
ends by the socket timeout, and a delay ends. So weak fairness of the
program's own steps is justified: `WF(EngineStep \/ PolicyStep)`,
`WF(LineageNext)`, `WF(ProcessStep)`. `Crash`, `Tick`, `Cancel` and `Begin` are
never forced: a run may crash, a clock may stand still, and nobody has to start
another episode. In `ProviderRequests` a cancellation is not taken back; the
code calls a function of the caller's for it, and its users set a flag. No
fairness is assumed of launches, freezes, executions and the monitor: their
properties are safety.

## 4. Proofs

Proved for all values of the constants, under the named ASSUMEs of the module
(which TLC evaluates in its runs):

| Module | Theorem | Says |
| --- | --- | --- |
| `EpisodeRunnerProofs` | `TypeCorrect`, `SealedRunsAlwaysValidate`, `CheckpointsAlwaysForkable`, `ArtifactsNeverShrink` | types; a sealed run validates; its checkpoints can be forked; ledger lines and checkpoint files are never rewritten and nothing follows a seal |
| | `ArtifactsAlwaysAccount`, `LedgerPlaysTheGame` | checkpoints and seal are what the ledger adds up to; an episode implements `SimultaneousGame` |
| | `EveryStepIsProgress`, `LedgerIsBounded` | every step of an episode leaves fewer ahead; its ledger is at most so long |
| `LineageProofs` | `FiledRunsAlwaysLoad`, `BranchesAlwaysAccount`, `PoliciesAlwaysInherited` | any number of runs, branches of branches to any depth, replays in between |
| | `ReplaysAlwaysReproduce` | every replay of a filed run, of any ancestry, writes its ledger again, but for the one seal no ledger explains |
| | `EveryEpisodeRunsDown`, `ReplaysRunDown` | the same for episodes in families of runs, and for replays over all their segments |
| `ProviderRequestsProofs` | `TypeCorrect`, `RequestsAreCharged`, `WireStaysWithinLimits`, `StopReasonsMatchSeals`, `RunLimitIsFinal`, `ManifestsAlwaysCount` | retry indices stay in range; charges equal requests; limits hold on the wire; manifests name the stop of their seal and count what was sent; the run limit is final |
| | `EpisodesAlwaysRunDown` | an episode takes at most four steps for each request announced, and is sealed when none is left |
| `RunDirectoryProofs` | `DirectoryTyped`, `ReservationIsExclusive`, `DirectoryHasOneAuthor`, `OnlyOwnedFailuresDisappear`, `FinishedRunsAlwaysWhole` | any number of launches and faults, reused inode numbers or not |
| | `CleanersOwnLedger` | the same with an operator cleaning in between, without inode reuse |
| | `SnapshotsAlwaysConsistent` | any number of launches and faults while a monitor reads |
| `StudyProofs` | `LockNeverChanges`, `LockIsAlwaysWhole`, `FreezesAlwaysAgree`, `FrozenLabelIsTrue` | any number of freezes, runs and versions |
| | `PoliciesShareByBlockOnly`, `MechanismsDrawApart`, `MechanismsShareNothing` | the seed paths (`SeedPaths`) of any study, conditions, blocks, replicates, agents, rounds and keys, under each protocol |
| `EvidenceCommonsProofs` | `TypeCorrect`, `SupportIsOneVotePerPeer`, `AcceptedClaimsAreSupported`, `PrivateActsStayUnobserved`, `RoundsAreSimultaneous` | of `CommonsSpec`: any world, roster, budgets and number of rounds, whatever the agents do |
| | `PoliciesPlayTheMechanism`, `PolicyPlayIsSound`, `FreePlayIsSound` | casts of policies, audited or not, play `CommonsSpec`, and so does the bounded free play; both have all of the above |
| | `PoliciesAlwaysActLegally`, `PeersAreNeverOverstated`, `AuditsAlwaysOnSchedule` | any casts and settings of the scripted policies, any audit schedule |
| | `AccountabilityOnlyRedistributes` | of all play: what is played under one accountability can be played under the other, with the same briefing, quality and total utility |
| `ExperimentExecutionProofs` | `ExecutionsKeepTheirPlace`, `EvidenceAlwaysRetained`, `ResultsAlwaysRest`, `DirectoriesHaveOneAuthor`, `FailuresAlwaysToldTruly` | all seven scripts, any number of launches on one directory, cells, versions, edits, exceptions and kills |
| `DilemmaProofs` | `DefectionAlwaysWithinReach`, `TftAlwaysExploitedAtMostOnce` | both dilemmas, on any graph, with any cast, payoffs and number of rounds |
| | `RatesAlwaysAsForetold`, `PlayAlwaysDrawsFromTheLaw` | rates in any world, and by the fractions foretold in all eighteen cells of the graph experiment; the draws of proportional tit-for-tat in all eight designs of the exact law |

The arguments:

- *Runner.* `ControlInv` says what the locals hold at each `pc` (whose turn it
  is, what has been accepted so far), which makes `TypeOK` inductive.
  `LedgerShapeInv` adds the shape of the ledger: `RunStarted` first and only
  there, no seal before the end. `CheckpointInv` adds which event the last
  checkpoint file still waits for: without it "every checkpoint is announced"
  fails between the file and its event. `TypeOK` itself says that a checkpoint
  file is named by a line of the ledger, so that a later file never takes the
  name of an earlier one; `ArtifactsNeverShrink` needs that.
- *Account.* `AccountInv` is `AccountsFor` made inductive: it also says which
  actions of the running round are in the ledger already (`Decided`), that none
  of a later round is, and that a resolved round counts from its first
  `WorldTransitioned` line on (`Told`). `ArtifactInv` carries it into what is
  saved and sealed. For the refinement, `LegalityInv` adds that what was
  accepted was legal on the state the round was played on; then each step of the
  runner leaves the game as it is, or plays a round (the first
  `WorldTransitioned`), or gives the verdict (the seal).
- *Lineage.* `EpisodeInv` is all of the above, and it must hold of an episode
  that starts in the middle: from a copied ledger and a saved state. What makes
  it hold is `SettledInv`, which no single run needs: at a checkpoint no action
  of the round to come is in the ledger. `Filed` is what a sealed directory
  offers a fork, `BranchInv` what a running branch still shares with its parent;
  a fork turns `Filed` of the parent into `EpisodeInv` and `BranchInv`, and
  sealing turns those into `Filed` of the branch. `branch.json` is written from the
  parent and checked against the child, so each of its fields needs its reason: the
  fork round is that of the first line a branch writes (`ForkTold`), the lines up to
  the fork are the parent's and the later ones the branch's own (`OwnLines`), and
  an override the parent runs under is given again, which makes the labels of
  changed and unchanged agents those the branch runs under. No bound on runs is used.
- *Replay.* The ledger alone does not say where the runner was: two runs with the
  same lines could differ in what they hold. So the invariant (`FamilyInv`) keeps
  for every live and filed run a `Trace`: the runner's locals before and after
  each line (`Writes`), with at most one silent step between two lines
  (`QuietOnce`) and a fresh start where a branch took over. A live run extends its
  trace (`LiveTraceStep`), a fork cuts it at a checkpoint, which has the state of
  that boundary (`ForkTrace`). But for the proposals the runner is a function
  (`LineFunctional`), and a proposal is the only one of its agent at its time
  (`ProposeOnce`), so the lookup of a replayed policy finds what was proposed
  (`PolicyTold`). Hence a replay is always `Following` its source's trace within a
  segment, `Closing` an inner segment with the checkpoint the next one starts
  from, `Ended` with the same ledger, or `Lost` at an exception that only the seal
  tells of.
- *Requests.* The wire lags the budget's counters by exactly the request at
  `pc = "send"` (`BudgetInv`), and only `admit` raises the counters, below the
  limits. `StopInv` carries the stop reason from the budget through an
  episode that is being sealed into its manifest; `CountInv` does the same for
  the counters of its three owners.
- *Directory.* `HolderInv`: a holder's ledger is its own. `AuthorInv`: all else
  belongs to the ledger's author. `CleanInv`: the cleanup has removed what
  precedes its place and sees no manifest. `OneHolder` follows, and is not
  inductive alone: a late exclusive open is harmless only because every holder
  has a ledger. `FinishedRunsAlwaysWhole` adds what a launch has written by the
  place it has reached. These assume `~OperatorCleans`, as an operator's cleaning
  does remove finished runs; `CleanersOwnLedger` assumes only that inode numbers
  are fresh, which is when the identity check of the cleanup means something.
- *Monitor.* A signature taken lies in the past of its file: what changed since
  can only have come later (`SnapInv`, over `DirectoryInv`). Equal signatures
  at both ends then say that what was read in between was there at one instant.
  The proof found a hole in an earlier wording of `SnapshotsAreConsistent`, which
  spoke of all four files whatever the verdict rests on: with two faults a launch
  can come, write, fail and be cleaned away between the two looks at an absent
  ledger. The property now speaks of the files a verdict rests on (`RestsOn`).
- *Freeze.* The temporary is whole and flushed before it is linked, and a link
  fails when the lock exists; the rest of `Inv` says which version each freeze
  and run has in hand.
- *Seed paths.* `RootsAndSuffixes`: where roots have one length, equal paths have
  equal roots and equal suffixes. Within one protocol all roots have one length,
  and the purpose words tell the suffixes apart. Paths of the two protocols are
  not compared: a study uses one. A replicate or round is its decimal text, as
  it is hashed; different paths are different streams only as far as SHA-256
  keeps them apart.
- *Commons.* `CommonsInv`: per claim, the record is fair (`FairRecord`): one
  vote per peer, never the author's, and support that the supporter's access
  bears out. Access only grows, so a fair record stays fair. `SightInv` relates
  the state in the middle of a round to its opening, so that a difference can
  only come from a share. The theorems are about `CommonsSpec`, in which anybody
  does anything legal; `Spec` and `PlaySpec`, which the run explores, are shown to
  imply it.
- *Policies.* `PlayInv` is `CommonsInv` at the openings, where policies look. A
  proposal is legal because each rule takes its targets from what the observation
  offers, and the observation offers no more than the mechanism admits; anonymous
  counts are sound because nobody verifies twice or its own. `AuditInv` says which
  findings are published by each round.
- *Accountability.* `Conversely` is the mechanism with the other accountability and
  everything else the same. Its actions are the same ones, as none reads who is
  credited (`MayShare` reads the topology): so `CommonsSpec` implies
  `Conversely!CommonsSpec`, and what is observed is all that could make agents act
  otherwise. Of the rewards, only the split of the credit is different, and pooled
  credit in equal shares adds up to what it was pooled from (`TotalsAgree`). The
  certificate of study 001 computes this for the behaviours of eight profiles, and
  says that it knows no more (`certificate.py` 16-18).
- *Executions.* `IInv` says what a launch's place in its script means: the steps
  it has done and the one it stands at (`Done`, `Stands`). A script never repeats a
  step, and the steps come in the orders collected in `Ordered`; all else uses
  these orders and not the scripts. Where the first step makes the directory, the
  launch that made it is the author of everything (`MadeInv`) and a file is there
  only if its step is done or was cut short (`FilesInv`). Where an empty directory
  will do, files are compared, looked for, opened and filled in separate steps, and
  one that is there by then is passed over. So a step that is done says only that a
  file is there; whose it is says `SharedInv`: a whole one is of a launch that has
  done that step, with what that launch had found, one that is not is in the hands
  of the launch that opened it, for as long as that one lives. The runs of a study
  are of the launch that opened its first cell (`GraphInv`), since cells are opened in
  order and a taken one is refused; it has a record of the source before it, which may
  be another's.
  `PlayedInv` says which cells are finished, `FailInv` who recorded a failure.
  A collection checks the evidence in one step and publishes in a later one:
  `GatheredInv` says that the evidence of a result in hand is still there, which
  it is because nothing whole is ever rewritten (`EvidenceKept`). `AtlasInv` is
  why the atlas may trust its second look at the study: an edit and its undoing
  are two changes. `ResultsAlwaysRest` is not inductive without all of these.
- *Dilemmas.* `DilemmaInv` says of every recorded round, and of the votes cast so
  far in the running one, that they are votes of the policies on the round before,
  and that a vote to defect is in `Reach`. What makes the second part inductive is
  that `Reach` only grows (`ReachGrows`), which needs that a group policy may
  defect at all it plays or at none (`ReachOfGroup`, `OwnDefection`), and that a
  threshold or share is met only if somebody defected (`GroupsArePatient`).
  `TftInv` follows one agent's score: a game seen from both sides differs by
  `T - S` for a single defection (`OneGame`), so what a round brings an agent that
  repeats its opponents' last votes is what it brings them, up to who has just
  started or stopped defecting (`ARoundOfGames`); the rest telescopes.
- *Rates.* What was foretold is a fraction per round; what play does is a set of
  votes. `CountInv`: what was counted of a round is what its votes give again. `SpreadInv`
  says, cell by cell and round by round, who defects at whom: how far the one
  defection has got on that graph under that policy. The fraction is then a matter
  of counting pairs row by row (`PairsAddUp`), and of no step of the game.
- *Draws.* `LawInv`: in a design of the exact law everybody broadcasts one vote, the
  fixed ones defect, and round one is cooperation by the others. So the votes an
  agent counts are its neighbours in the set of cooperators, by which the published
  transition is indexed.
- *Progress.* Liveness is out of the prover's reach, but not why it holds: a natural
  number that each step lowers. For an episode it is `Ahead`, the steps left in the
  round plus those of the rounds to come, from which `LedgerIsBounded` follows, as no
  step writes two lines. For the requests of an episode it is `Remaining`, four steps
  for each request still allowed by `plan_study`'s maximum; ticks and cancellations
  leave it alone. An episode forked from a checkpoint needs that saved states are
  of some round (`SavedInv`). A replay starts an episode per segment, which raises
  `Ahead`; so what is left of it (`ReplayLeft`) counts first the lines its segments may
  still start at. What remains of the liveness properties is that a step is enabled
  and, being fair, is taken.
- *Sums and recursion.* The library's induction theorems take a predicate, which
  the provers cannot instantiate. `Least` and `SubsetInduction` say the same of a
  set in place of a predicate, and give what the two properties need: that the
  recursion of `Reach` and the folds have the solutions one expects
  (`ReachUnfolds`, `FoldUnfolds`, `TotalSums`), that sums are linear, count, and
  grow with what they range over (`TotalsAddUp`, `TotalCounts`, `TotalGrows`). The
  commons' rewards need less of this, over again in `EvidenceCommonsProofs`.

Beyond sizes and finiteness the assumptions are: `RunIdAssumption` and
`ActionAssumption` (no run id or action is Python's `None`), `NoneAssumption` (no
launch, source, result, file or manifest is `None`), `DirectoryAssumption`
(the author of a file nobody has written, `"nobody"`, is no launch),
`ValidSchedule` (an audit schedule is a finite list), `Params` (budgets, costs and
payments are integers, of the signs `ECParams` admits), and for the dilemmas
`SettingsAssumption` (worlds and casts as the constructors admit them; `Scale`, by
which rewards are multiplied so that averages stay whole, is divisible by every
possible number of opponents), `PayAssumption` (payoffs are integers, in any
order) and a `NoneAssumption` (`None` is no round's votes), each named in the
module that declares its constants.

Some theorems, such as `DirectoryHasOneAuthor`, `FreezesAlwaysAgree` and those on
progress, state what no run checks: they hold for all constants, and a run would
add nothing.

Only model-checked:

- liveness (`EveryRunEnds`, `ReplaysEnd`, `EveryEpisodeIsSealed`): fairness and
  ENABLED are out of the prover's reach. That the steps run out is proved (Progress,
  above); that they are taken is checked;
- the figures, curves and laws of particular designs: `PlayFollowsTheExactLaw` (but
  for its first part, `PlayDrawsFromTheLaw`), `AuditFeedbackIsAsForetold`,
  `NoisyCorpusIsAsForetold`, `RuleComparisonsAreAsForetold`,
  `IncentiveAtlasIsAsDerived`. They compare what play does with published numbers:
  evaluating them is the whole argument.

## 5. Findings

`transcript_left`: `branch_run` writes `llm_transcript.jsonl` inside the
reservation (`branching.py` 169), and the cleanup does not remove it (`store.py`
86): a failure after that leaves it behind, and the directory refuses the retry.
The docstring of `reserve` promises "clean up owned, unmanifested failures".

Two more places where code and documentation part were met while modelling and
have no run of their own. A deadline stop found ahead of a retry delay
(`openai_compatible.py` 120, `budget.py` 98) does not keep the next episode's
first request from being sent, where `study.py` 438 says that later episodes
send nothing; of the run *limit* it is true, and proved (`RunLimitIsFinal`). And
a snapshot that falls between a manifest's truncation and its rewriting reports
a live run broken, where `docs/MONITORING.md` 22 promises "unsealed"; the
property `SnapshotsAreConsistent` is stated around it.

The scripts do not all bind results to a source in the same way, which
`ResultsRestOnTheirRuns` spells out: the audit and the graph experiment compare
each run's commit with the recorded source, the others record a source (or, the
atlas, none) that nothing is compared with.

The graph experiment's `_write_files` compares all files before it writes, and
then passes over one that is there by now (`graph_experiment.py` 143-150) as a
"byte-identical no-op", which nobody looked at again. So two executions that find
a directory empty may end with the record of one and the runs of the other, where
the report says that the "execution source record was captured before running";
and two reports may leave a readable report beside figures that one of them was killed
writing, where the experiment's README says that divergent content is refused and
"report outputs behave the same way". That README calls these "static filesystem
checks, not an atomic guarantee", though it means the directories above a file.
TLC reaches both within the bounds of `execution`, and the properties are stated
around them: `OneExecutionPerDirectory` binds a record to the launch that wrote it
and not to the one that plays,
`ResultsRestOnTheirRuns` lets a report lie beside another's unfinished figures.
What is collected is not affected: a report is made only where the record there is,
whoever's it is, fits the runs there are.

## 6. What is left out

- *Durability.* Kills are modelled, power loss is not: no code path relies on
  more than what a completed system call leaves in the page cache, except the
  flushes of the freeze, and directories are not synced.
- *`load_study`* is one step in `StudyFreeze`. It reads several files, so an
  edit in the middle of it yields a version nobody wrote; the model's versions
  do not include mixtures.
- *An execution's output directory inside the working tree* would make the tree
  dirty; it is taken to lie outside, as the scripts' users have it. `collect`
  reads many files in one step of `ExperimentExecution`, and a `--check` is
  modelled as an execution that keeps nothing. The atlas compares the study
  before and after: changed and changed back is not noticed, and
  `ResultsRestOnTheirRuns` asks nothing then.
- *Study 002* beyond its exact law: its sampled runs, their report, the window
  of the benchmark and its display approximations.
- *Inode reuse with an operator cleaning*, and cleaning between the identity
  check and the unlinks: nothing in the code protects against them.
- *A torn last ledger line*: the monitor's reading of it is modelled; every other
  reader refuses it in one step.
- *Seeds and hashing*: in the state machines streams appear as choices, hashes as
  their contents; collision freedom is assumed. Of seeds, the paths are modelled
  and proved about (`SeedPaths`), not the validation of recorded roots.
- *Prompts and rendering, reports, comparison, export, inspector, lab, command
  line*: text, or read-only views of runs that `load_run` has accepted.
- *Scenario compilation and catalog*: one-shot validation of input files. The
  models assume what it establishes (`ValidWorld`, `ValidSchedule`, policies
  that fit modes).
- *Request planning* beyond the per-agent worst case; *analysis* beyond the
  agreement of manifest and seal it demands; *metrics* beyond the vote counts:
  arithmetic on a validated ledger.
- *Redirects, TLS, JSON decoding*: outcomes of one request.

## 7. Plan

The order was: the runner, since everything else reads what it writes; then
what reads it back (validation, branches, replay); what can stop it (requests);
what it shares with other processes (directory, monitor, freeze); then the games
played in it, and the experiments that play them. That is what stands. Next:

1. *Model more.* The study as a sequence of reserved runs over one budget, which
   composes `RunDirectory` and `ProviderRequests`; `_budget_stop_reason` of
   `analysis.py`; the metrics of epistemics and distribution against the
   commons' ledger; study 002's designs on `IteratedDilemma`; the observation
   promise of `institutions.py` 18-20 against the topology's effect on legality.
2. *Prove more.* Every safety property is proved but those that hold published
   figures of particular designs against play; for liveness, that the steps run
   out is. The laws behind the figures could be stated for all designs, beginning
   with the count law of `ExactReciprocity` (that on a complete graph the vote
   counts of proportional reciprocity depend on the votes before only through their
   number).
