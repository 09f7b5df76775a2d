------------------------------- MODULE Lineage -------------------------------
(***************************************************************************)
(* Families of runs: an original run, counterfactual branches forked from  *)
(* checkpoints of sealed runs (engine/branching.py), and the replay of a   *)
(* sealed run from its own artifacts (engine/replay.py, agents/replay.py). *)
(* All three are episodes of EpisodeRunner; this module starts them, files *)
(* their artifacts, and drives replayed episodes from recorded proposals.  *)
(*                                                                         *)
(* Crashes are left to EpisodeRunner and RunDirectory: a run that is not   *)
(* sealed is never filed here, and load_run refuses it.                    *)
(***************************************************************************)
EXTENDS LedgerValidation

CONSTANTS
  Original,   \* label of the policies the scenario names
  Override,   \* label of a replacement policy
  Overrides,  \* sets of agents a branch may replace
  MaxRuns     \* bound: sealed runs filed

VARIABLES
  archive,    \* sealed run directories, oldest first
  job         \* what the current episode is for

lineageVars == <<vars, archive, job>>

Idle == [kind |-> "idle", source |-> 0, fork |-> 0, changed |-> {},
         policies |-> None, start |-> 0, outcome |-> "none"]

(* Starting an episode: run_episode called with the given arguments *)
Launch(cfg, s, lines, files, at) ==
  /\ config' = cfg /\ state' = s /\ ledger' = lines /\ ckpts' = files
  /\ pc' = at /\ turn' = 1
  /\ proposal' = None /\ accepted' = NoActions /\ failure' = None

(* build_policies: the scenario's policies, replaced where overridden *)
Built(changed) ==
  [i \in Agents |-> IF i \in changed THEN Override ELSE Original]

LineageInit ==
  /\ Init
  /\ archive = << >>
  /\ job = [Idle EXCEPT !.kind = "run", !.policies = Built({})]

-----------------------------------------------------------------------------
(* Filing a sealed run *)

\* The directory that is branched from or replayed
Source == archive[job.source]

(* effective_policy_ids, its result: the policies RunStarted names, or for *)
(* a branch the labels its branch.json lists as changed and as unchanged   *)
Labels(branch) ==
  [i \in DOMAIN branch.unchanged \cup DOMAIN branch.changed |->
     IF i \in DOMAIN branch.changed THEN branch.changed[i] ELSE branch.unchanged[i]]
EffectivePolicies(dir) ==
  IF dir.parent = None THEN dir.started.policies ELSE Labels(dir.branch)

(* What RunStarted names: the policies of the call and, from the config,   *)
(* what to do with an illegal action.  A branch copies the line.           *)
StartMeta ==
  IF job.kind = "branch" THEN Source.started
  ELSE [policies |-> job.policies, invalid_action_policy |-> config.invalid_action_policy]

\* branch.json
BranchManifest ==
  [parent_run_id |-> Source.config.run_id, child_run_id |-> config.run_id,
   fork_seq |-> job.fork, fork_round |-> Source.ckpts[job.fork].logical_time,
   hash_at_fork |-> Source.ckpts[job.fork].prefix,
   changed |-> [i \in job.changed |-> Override],
   unchanged |-> [i \in Agents \ job.changed |-> EffectivePolicies(Source)[i]]]

(* The artifacts, and with them the manifest: config, status, event_count, *)
(* final_hash, policies, and for a branch its parent, fork and the hash    *)
(* there.  The seal stands for its own hash, a prefix of the ledger for    *)
(* that of the line it ends with.                                          *)
RunDir ==
  LET branched == job.kind = "branch" IN
  [config |-> config, status |-> pc, ledger |-> ledger, ckpts |-> ckpts,
   started |-> StartMeta, policies |-> job.policies,
   event_count |-> Len(ledger), final_hash |-> ledger[Len(ledger)],
   parent |-> IF branched THEN Source.config.run_id ELSE None,
   fork |-> IF branched THEN job.fork ELSE None,
   hash_at_fork |-> IF branched THEN Source.ckpts[job.fork].prefix ELSE None,
   branch |-> IF branched THEN BranchManifest ELSE None]

FileRun ==
  /\ job.kind \in {"run", "branch"} /\ Sealed
  /\ archive' = Append(archive, RunDir)
  /\ job' = Idle
  /\ UNCHANGED vars

-----------------------------------------------------------------------------
(* branch_run *)

RunIdsIn(l) == {l[k].run_id : k \in DOMAIN l}

(* _validate_ancestry: each run id occupies one contiguous segment *)
ContiguousIds(l) ==
  \A j, k \in DOMAIN l :
    j < k /\ l[j].run_id = l[k].run_id =>
      \A n \in j .. k : l[n].run_id = l[j].run_id

(* effective_policy_ids: branch.json agrees with the manifest and with the *)
(* sealed fork, where the ledger changes from the direct parent's lines to *)
(* the run's own, and its labels partition the roster and are the policies *)
(* of the manifest.                                                        *)
BranchAgrees(dir) ==
  LET branch == dir.branch
      fork == branch.fork_seq + 1
      hash == SubSeq(dir.ledger, 1, fork)
  IN
  /\ fork < Len(dir.ledger)
  /\ branch.parent_run_id = dir.parent /\ branch.child_run_id = dir.config.run_id
  /\ branch.fork_seq = dir.fork
  /\ branch.hash_at_fork = hash /\ dir.hash_at_fork = hash
  /\ branch.fork_round = dir.ledger[fork + 1].logical_time
  /\ dir.ledger[fork].run_id = dir.parent
  /\ \A k \in 1 .. fork : dir.ledger[k].run_id # dir.config.run_id
  /\ \A k \in fork + 1 .. Len(dir.ledger) : dir.ledger[k].run_id = dir.config.run_id
  /\ DOMAIN branch.changed \cap DOMAIN branch.unchanged = {}
  /\ DOMAIN branch.changed \cup DOMAIN branch.unchanged = DOMAIN dir.started.policies

ProvenanceHolds(dir) ==
  /\ dir.parent # None => BranchAgrees(dir)
  /\ dir.policies = EffectivePolicies(dir)

(* load_run.  The family has one scenario, roster and seed: the bindings   *)
(* to them compare a constant with itself and are left out.                *)
LoadRun(dir) ==
  /\ ValidateRun(dir.ledger, dir.status)
  /\ dir.ledger[Len(dir.ledger)].run_id = dir.config.run_id
  /\ dir.event_count = Len(dir.ledger) /\ dir.final_hash = dir.ledger[Len(dir.ledger)]
  /\ dir.config.invalid_action_policy = dir.started.invalid_action_policy
  /\ ContiguousIds(dir.ledger)
  /\ dir.parent = None => Cardinality(RunIdsIn(dir.ledger)) = 1
  /\ ProvenanceHolds(dir)

CanForkRevertingPolicies(dir, seq, child, changed) ==
  /\ seq \in DOMAIN dir.ckpts
  /\ LoadRun(dir)
  /\ ValidateCheckpoint(dir.ckpts[seq], seq, dir.ledger)
  /\ dir.ledger[seq + 1].run_id = dir.config.run_id
  /\ child \notin RunIdsIn(dir.ledger)

CanForkInherited(dir, seq, child, changed) ==
  /\ seq \in DOMAIN dir.ckpts
  /\ LoadRun(dir)
  /\ ValidateCheckpoint(dir.ckpts[seq], seq, dir.ledger)
  /\ child \notin RunIdsIn(dir.ledger)
  /\ \A i \in Agents \ changed : EffectivePolicies(dir)[i] = Original

(* The guards of branch_run, in the order it checks them: an override the  *)
(* parent runs under is given again, never dropped, and only agents of the *)
(* roster are overridden.                                                  *)
CanFork(dir, seq, child, changed) ==
  /\ seq \in DOMAIN dir.ckpts
  /\ LoadRun(dir)
  /\ ValidateCheckpoint(dir.ckpts[seq], seq, dir.ledger)
  /\ dir.ledger[seq + 1].run_id = dir.config.run_id
  /\ child \notin RunIdsIn(dir.ledger)
  /\ \A i \in Agents \ changed : EffectivePolicies(dir)[i] = Original
  /\ changed \subseteq Agents

ForksOf(dir) == {f \in (DOMAIN dir.ckpts) \X RunIds \X Overrides :
                   CanFork(dir, f[1], f[2], f[3])}

ForkLosingLine(p, seq, child, changed) ==
  LET dir == archive[p] IN
  /\ job.kind = "idle" /\ Len(archive) < MaxRuns
  /\ <<seq, child, changed>> \in ForksOf(dir)
  /\ Launch([dir.config EXCEPT !.run_id = child], dir.ckpts[seq].state,
            SubSeq(dir.ledger, 1, seq), << >>, "loop")
  /\ job' = [Idle EXCEPT !.kind = "branch", !.source = p, !.fork = seq,
                         !.changed = changed,
                         !.policies = Built(changed)]
  /\ UNCHANGED archive

(* Lines 0..seq are copied, the snapshot becomes the start state, and no   *)
(* RunStarted is emitted.  The child directory starts with no checkpoints. *)
Fork(p, seq, child, changed) ==
  LET dir == archive[p] IN
  /\ job.kind = "idle" /\ Len(archive) < MaxRuns
  /\ <<seq, child, changed>> \in ForksOf(dir)
  /\ Launch([dir.config EXCEPT !.run_id = child], dir.ckpts[seq].state,
            SubSeq(dir.ledger, 1, seq + 1), << >>, "loop")
  /\ job' = [Idle EXCEPT !.kind = "branch", !.source = p, !.fork = seq,
                         !.changed = changed,
                         !.policies = Built(changed)]
  /\ UNCHANGED archive

-----------------------------------------------------------------------------
(* Replay policies, fed from the source ledger *)

(* proposals_from_events *)
Recorded(l, i, t) ==
  {l[k].action : k \in {n \in Positions(l, "ActionProposed") :
                          l[n].agent = i /\ l[n].logical_time = t}}

ProviderErrorAtLast(l, i, t) ==
  LET seal == l[Len(l)]
      silent == {j \in Agents : Recorded(l, j, seal.logical_time) = {}}
  IN /\ seal.event_type = "RunFailed" /\ seal.logical_time = t
     /\ i \in silent /\ \A j \in silent : i >= j
     /\ seal.reason = [kind |-> "provider_error", agent |-> i]

(* provider_errors_from_events: only the seal of a failed run, only for    *)
(* the first agent that had not proposed when the run failed               *)
ProviderErrorAt(l, i, t) ==
  LET seal == l[Len(l)]
      silent == {j \in Agents : Recorded(l, j, seal.logical_time) = {}}
  IN /\ seal.event_type = "RunFailed" /\ seal.logical_time = t
     /\ i \in silent /\ \A j \in silent : i <= j
     /\ seal.reason = [kind |-> "provider_error", agent |-> i]

(* ReplayPolicy.propose: the recorded error, the recorded proposal, or a   *)
(* KeyError when nothing was recorded                                      *)
ReplayPolicyStep ==
  LET t == state.round
      recorded == Recorded(Source.ledger, turn, t)
  IN IF ProviderErrorAt(Source.ledger, turn, t) THEN PolicyRaises("provider_error")
     ELSE IF recorded = {} THEN PolicyRaises("unrecorded")
     ELSE \E action \in recorded : Propose(action)

-----------------------------------------------------------------------------
(* _replay_segments: one episode per run id in the ledger *)

(* index of the first line of the segment after the one starting at k *)
NextSegment(l, k) ==
  LET later == {n \in k + 1 .. Len(l) : l[n].run_id # l[k].run_id}
  IN IF later = {} THEN None ELSE CHOOSE n \in later : \A j \in later : n <= j

SegmentConfig(dir, k) ==
  LET end == NextSegment(dir.ledger, k) IN
  [dir.config EXCEPT !.run_id = dir.ledger[k].run_id,
                     !.stop_round = IF end = None THEN MaxRounds
                                    ELSE dir.ledger[end].logical_time]

BeginReplay(r) ==
  /\ job.kind = "idle"
  /\ r \in {n \in DOMAIN archive : LoadRun(archive[n])}
  /\ Launch(SegmentConfig(archive[r], 1), InitialState, << >>, << >>, "start")
  /\ job' = [Idle EXCEPT !.kind = "replay", !.source = r, !.start = 1,
                         !.outcome = "pending"]
  /\ UNCHANGED archive

NextReplaySegmentNotAdvancing ==
  LET end == NextSegment(Source.ledger, job.start)
      lines == SubSeq(ledger, 1, Len(ledger) - 1)
  IN /\ job.kind = "replay" /\ job.outcome = "pending" /\ Sealed /\ end # None
     /\ Launch(SegmentConfig(Source, job.start), ckpts[Len(ledger) - 2].state,
               lines, ckpts, "loop")
     /\ UNCHANGED <<job, archive>>

(* An inner segment ended: strip the boundary's completion seal, compare   *)
(* with the recorded prefix, and continue from the checkpoint it wrote.    *)
NextReplaySegment ==
  LET end == NextSegment(Source.ledger, job.start)
      lines == SubSeq(ledger, 1, Len(ledger) - 1)
  IN /\ job.kind = "replay" /\ job.outcome = "pending" /\ Sealed /\ end # None
     /\ IF pc = "completed" /\ lines = SubSeq(Source.ledger, 1, end - 1)
          THEN /\ Launch(SegmentConfig(Source, end), ckpts[Len(ledger) - 2].state,
                         lines, ckpts, "loop")
               /\ job' = [job EXCEPT !.start = end]
          ELSE /\ job' = [job EXCEPT !.outcome = "diverged"]
               /\ UNCHANGED vars
     /\ UNCHANGED archive

(* compare_chains on the whole ledger *)
FinishReplay ==
  /\ job.kind = "replay" /\ job.outcome = "pending" /\ Sealed
  /\ NextSegment(Source.ledger, job.start) = None
  /\ job' = [job EXCEPT !.outcome = IF ledger = Source.ledger THEN "match"
                                    ELSE "diverged"]
  /\ UNCHANGED <<vars, archive>>

DiscardReplay ==
  /\ job.kind = "replay" /\ job.outcome # "pending"
  /\ job' = Idle
  /\ UNCHANGED <<vars, archive>>

-----------------------------------------------------------------------------
LiveStep ==
  /\ job.kind \in {"run", "branch"} /\ (EngineStep \/ PolicyStep)
  /\ UNCHANGED <<archive, job>>

ReplayStep ==
  /\ job.kind = "replay" /\ job.outcome = "pending" /\ (EngineStep \/ ReplayPolicyStep)
  /\ UNCHANGED <<archive, job>>

LineageNext ==
  \/ LiveStep \/ FileRun
  \/ \E p \in DOMAIN archive : \E seq \in DOMAIN archive[p].ckpts :
       \E child \in RunIds : \E changed \in Overrides : Fork(p, seq, child, changed)
  \/ \E r \in DOMAIN archive : BeginReplay(r)
  \/ ReplayStep \/ NextReplaySegment \/ FinishReplay \/ DiscardReplay

LineageSpec == LineageInit /\ [][LineageNext]_lineageVars
FairLineageSpec == LineageSpec /\ WF_lineageVars(LineageNext)

-----------------------------------------------------------------------------
(* Properties *)

Runs == DOMAIN archive

(* The archive changes on the way to idle only, so what is said of it need *)
(* only be looked at there.                                                *)
RunsAtRest == IF job.kind = "idle" THEN Runs ELSE {}

(* The directory of the run a branch was forked from *)
ParentsOf(dir) ==
  {p \in Runs : /\ archive[p].config.run_id = dir.parent
                /\ dir.fork \in DOMAIN archive[p].ckpts
                /\ SubSeq(archive[p].ledger, 1, dir.fork + 1)
                     = SubSeq(dir.ledger, 1, dir.fork + 1)}

(* branch_run and the readers agree: what it writes, forks of forks of     *)
(* failed runs included, is accepted by load_run, which branch_run itself, *)
(* replay and every report call first, and every checkpoint in it can be   *)
(* forked again, except the one a branch made at its parent's final state  *)
(* writes at its own fork point: that line still belongs to the parent     *)
(* (branching.py:113, 147-209 against validation.py:82-168).               *)
FiledRunsLoad ==
  \A r \in RunsAtRest : LET dir == archive[r] IN
    /\ LoadRun(dir)
    /\ \A seq \in DOMAIN dir.ckpts :
         /\ ValidateCheckpoint(dir.ckpts[seq], seq, dir.ledger)
         /\ dir.ledger[seq + 1].run_id = dir.config.run_id \/ seq = dir.fork

(* A branch's sealed state and its checkpoints are what its whole ledger,  *)
(* the copied lines of every ancestor included, adds up to: the start      *)
(* state belongs to the very line the copy ends at.                        *)
BranchesAccountForAncestry ==
  \A r \in RunsAtRest : LET dir == archive[r] IN
    /\ AccountsFor(dir.ledger, dir.ledger[Len(dir.ledger)].state_hash)
    /\ \A seq \in DOMAIN dir.ckpts :
         AccountsFor(SubSeq(dir.ledger, 1, seq + 1), dir.ckpts[seq].state)

(* In a branch an agent plays what it played in the parent unless          *)
(* branch.json lists it as changed: an override of an ancestor is never    *)
(* silently replaced by the scenario's policy (branching.py:131-133).      *)
PoliciesAreInherited ==
  \A r \in RunsAtRest : LET dir == archive[r] IN
    dir.parent # None =>
      \E p \in ParentsOf(dir) : \A i \in Agents \ DOMAIN dir.branch.changed :
        dir.policies[i] = archive[p].policies[i]

(* Replay reproduces every sealed run, branches and runs that failed on a  *)
(* provider error or an illegal action included, with one exception: a run *)
(* sealed by any other exception of a policy, which no ledger records      *)
(* (agents/replay.py:49-56).                                               *)
ReplayReproduces ==
  job.kind = "replay" /\ job.outcome # "pending" =>
    LET seal == Source.ledger[Len(Source.ledger)] IN
    job.outcome = "diverged" <=>
      seal.event_type = "RunFailed" /\ seal.reason.kind = "policy_error"

(* A replay always comes to a verdict: no segment waits for a proposal     *)
(* that the ledger does not have, and the loop over segments ends.         *)
ReplaysEnd == job.kind = "replay" ~> job.outcome # "pending"
=============================================================================
