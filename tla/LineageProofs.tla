---------------------------- MODULE LineageProofs ----------------------------
(***************************************************************************)
(* What families of runs keep, for any number of runs, forks of forks and  *)
(* replays in between.                                                     *)
(*                                                                         *)
(* EpisodeInv, the invariants of EpisodeRunnerProofs together, also holds  *)
(* of an episode that starts in the middle, from a copied ledger and a     *)
(* saved state: a checkpoint is taken where no action of its round is      *)
(* accepted yet (SettledInv), so the copy accounts for the state.  What is *)
(* filed (Filed) is what a fork needs, and a fork starts an episode from   *)
(* it that will be filed again.                                            *)
(*                                                                         *)
(* For replay the ledger is not enough: two lines may be what was written  *)
(* from different places.  A run that was played leaves a trace, the       *)
(* locals of the runner before and after each line, in which only the      *)
(* policies choose; what they chose is found in the ledger, by time and    *)
(* agent.  A replay goes down the trace of its source.  That it gets to    *)
(* the end is shown by what it has left (ReplayLeft).                      *)
(***************************************************************************)
EXTENDS Lineage, EpisodeRunnerProofs

(* The ledger l has nothing of the round that state s is about to play. *)
Settled(l, s) ==
  \A r \in Nat : r >= s.round => \A i \in Agents : AcceptedActions(l, r, i) = {}

SettledInv ==
  \A seq \in DOMAIN ckpts :
    ckpts[seq] # Torn => Settled(SubSeq(ledger, 1, seq + 1), ckpts[seq].state)

EpisodeInv ==
  /\ TypeOK /\ ControlInv /\ LedgerShapeInv /\ CheckpointInv
  /\ AccountInv /\ ArtifactInv /\ SettledInv

-----------------------------------------------------------------------------
(* Steps of an episode *)

LEMMA SettledStep == EpisodeInv /\ [Next]_vars => SettledInv'
<1> SUFFICES ASSUME EpisodeInv, [Next]_vars PROVE SettledInv'
  OBVIOUS
<1>1. /\ ledger \in Seq(Events) /\ Len(ledger) \in Nat
      /\ DOMAIN ckpts \subseteq 0 .. Len(ledger) - 1 /\ TypeOK /\ ControlInv
  BY DEF EpisodeInv, TypeOK
<1>2. ASSUME NEW e \in Events, Emit(e), UNCHANGED ckpts PROVE SettledInv'
  <2> SUFFICES ASSUME NEW seq \in DOMAIN ckpts
               PROVE  SubSeq(ledger', 1, seq + 1) = SubSeq(ledger, 1, seq + 1)
    BY <1>2 DEF EpisodeInv, SettledInv, Settled
  <2>1. seq + 1 \in 1 .. Len(ledger)
    BY <1>1
  <2>2. QED
    BY <1>1, <1>2, <2>1, PrefixUntouched
<1>3. CASE OpensLedger \/ AppendsLine \/ SealsRun
  BY <1>2, <1>3 DEF OpensLedger, AppendsLine, SealsRun
<1>4. CASE SavesSnapshot
  <2>1. /\ pc \in {"checkpoint", "loop"} /\ UNCHANGED ledger
        /\ ckpts' = WriteFile(ckpts, LastSeq, Snapshot(LastSeq, state))
    BY <1>4 DEF SavesSnapshot
  <2>2. LastSeq + 1 = Len(ledger) /\ SubSeq(ledger, 1, Len(ledger)) = ledger
    BY <1>1, SubSeqFull DEF LastSeq
  <2>3. state.round \in Nat
    BY DEF EpisodeInv, TypeOK, States
  <2>4. Settled(ledger, state)
    <3> SUFFICES ASSUME NEW r \in Nat, r >= state.round, NEW i \in Agents
                 PROVE  AcceptedActions(ledger, r, i) = {}
      BY DEF Settled
    <3>1. CASE r > state.round
      BY <2>1, <3>1 DEF EpisodeInv, AccountInv
    <3>2. CASE r = state.round
      BY <2>1, <3>2 DEF EpisodeInv, AccountInv, Decided
    <3>3. QED
      BY <2>3, <3>1, <3>2
  <2>5. Settled(SubSeq(ledger, 1, LastSeq + 1), Snapshot(LastSeq, state).state)
    BY <2>2, <2>4 DEF Snapshot
  <2>6. \A seq \in DOMAIN ckpts' :
          IF seq = LastSeq THEN ckpts'[seq] = Snapshot(LastSeq, state)
          ELSE seq \in DOMAIN ckpts /\ ckpts'[seq] = ckpts[seq]
    BY <2>1 DEF WriteFile
  <2>7. QED
    BY <2>1, <2>5, <2>6 DEF EpisodeInv, SettledInv, Settled
<1>5. CASE TearsSnapshot
  <2>1. \A seq \in DOMAIN ckpts' :
          ckpts'[seq] = Torn \/ (seq \in DOMAIN ckpts /\ ckpts'[seq] = ckpts[seq])
    BY <1>5 DEF TearsSnapshot, WriteFile
  <2>2. QED
    BY <1>5, <2>1 DEF TearsSnapshot, EpisodeInv, SettledInv, Settled
<1>6. CASE LeavesArtifacts
  BY <1>6 DEF LeavesArtifacts, EpisodeInv, SettledInv, Settled
<1>7. QED
  BY <1>1, <1>3, <1>4, <1>5, <1>6, StepShape

LEMMA EpisodeStep == EpisodeInv /\ [Next]_vars => EpisodeInv'
BY TypeStep, LedgerShapeStep, CheckpointStep, AccountStep, ArtifactStep, SettledStep
   DEF EpisodeInv

(* A step writes one line. *)
LEMMA OneLine ==
  ASSUME EpisodeInv, NEW e, NEW f \in Events, Emit(e), Emit(f)
  PROVE  e = f
<1>1. ledger'[Len(ledger) + 1] = f /\ Len(ledger) \in Nat /\ ledger \in Seq(Events)
  BY EmitTyped DEF EpisodeInv, TypeOK
<1> DEFINE S == Events \cup {e}
<1>2. ledger \in Seq(S)
  BY <1>1, LenProperties, SeqDef
<1>3. ledger' = Append(ledger, e) /\ e \in S
  BY DEF Emit
<1> HIDE DEF S
<1>4. ledger'[Len(ledger) + 1] = e
  BY <1>2, <1>3, AppendProperties
<1>5. QED
  BY <1>1, <1>4

(* A run writes under its own id only. *)
LEMMA WritesItsOwn ==
  ASSUME EpisodeInv, [Next]_vars
  PROVE  /\ config' = config
         /\ \/ UNCHANGED ledger
            \/ \E e \in Events : Emit(e) /\ e.run_id = config.run_id
<1>1. config' = config
  BY DEF Next, EngineStep, PolicyStep, StartRun, OpenRound, IssueObservation, AcceptProposal,
     RejectProposal, FallBackToAbstain, FailOnInvalidAction, Resolve, EmitDomainEvent,
     SaveCheckpoint, AnnounceCheckpoint, SealFailed, SaveFinalCheckpoint, SealCompleted, Crash,
     Propose, PolicyRaises, vars
<1>2. ASSUME NEW type, NEW t, NEW agent, NEW action
      PROVE  Event(type, t, agent, action).run_id = config.run_id
  BY DEF Event
<1>3. ASSUME NEW type, NEW t, NEW agent, NEW action, NEW s, NEW n
      PROVE  [Event(type, t, agent, action) EXCEPT !.at_seq = n, !.state_hash = s].run_id
               = config.run_id
  BY DEF Event
<1>4. ASSUME NEW type, NEW t, NEW agent, NEW action, NEW s, NEW f
      PROVE  [Event(type, t, agent, action) EXCEPT !.reason = f, !.state_hash = s].run_id
               = config.run_id
  BY DEF Event
<1>5. ASSUME NEW type, NEW t, NEW agent, NEW action, NEW s
      PROVE  [Event(type, t, agent, action) EXCEPT !.state_hash = s].run_id = config.run_id
  BY DEF Event
<1> DEFINE Own == UNCHANGED ledger \/ \E e : Emit(e) /\ e.run_id = config.run_id
<1>6. Own
  <2>1. CASE AnnounceCheckpoint
    <3> DEFINE e == [Event("CheckpointCreated", state.round, Engine, None)
                      EXCEPT !.at_seq = LastSeq, !.state_hash = state]
    <3>1. e.run_id = config.run_id
      BY <1>3
    <3>2. Emit(e)
      BY <2>1 DEF AnnounceCheckpoint
    <3> HIDE DEF e
    <3>3. QED
      BY <3>1, <3>2
  <2>2. CASE SealFailed
    <3> DEFINE e == [Event("RunFailed", state.round, Engine, None)
                      EXCEPT !.reason = failure, !.state_hash = state]
    <3>1. e.run_id = config.run_id
      BY <1>4
    <3>2. Emit(e)
      BY <2>2 DEF SealFailed
    <3> HIDE DEF e
    <3>3. QED
      BY <3>1, <3>2
  <2>3. CASE SealCompleted
    <3> DEFINE e == [Event("RunCompleted", state.round, Engine, None)
                      EXCEPT !.state_hash = state]
    <3>1. e.run_id = config.run_id
      BY <1>5
    <3>2. Emit(e)
      BY <2>3 DEF SealCompleted
    <3> HIDE DEF e
    <3>3. QED
      BY <3>1, <3>2
  <2>4. CASE StartRun \/ OpenRound \/ IssueObservation \/ RejectProposal \/ EmitDomainEvent
    BY <1>2, <2>4 DEF StartRun, OpenRound, IssueObservation, RejectProposal, EmitDomainEvent
  <2>5. CASE AcceptProposal \/ FallBackToAbstain
    BY <1>2, <2>5 DEF AcceptProposal, FallBackToAbstain, Accept
  <2>6. CASE FailOnInvalidAction \/ Resolve \/ SaveCheckpoint \/ SaveFinalCheckpoint
    BY <2>6 DEF FailOnInvalidAction, Resolve, SaveCheckpoint, SaveFinalCheckpoint
  <2>7. CASE PolicyStep \/ Crash \/ UNCHANGED vars
    BY <1>2, <2>7 DEF PolicyStep, Propose, PolicyRaises, Crash, vars
  <2>8. QED
    BY <2>1, <2>2, <2>3, <2>4, <2>5, <2>6, <2>7 DEF Next, EngineStep
<1>7. UNCHANGED ledger \/ \E e \in Events : Emit(e)
  <2>1. \/ OpensLedger \/ AppendsLine \/ SealsRun
        \/ SavesSnapshot \/ TearsSnapshot \/ LeavesArtifacts
    BY StepShape DEF EpisodeInv
  <2>2. CASE OpensLedger \/ AppendsLine \/ SealsRun
    BY <2>2 DEF OpensLedger, AppendsLine, SealsRun
  <2>3. CASE SavesSnapshot \/ TearsSnapshot \/ LeavesArtifacts
    BY <2>3 DEF SavesSnapshot, TearsSnapshot, LeavesArtifacts
  <2>4. QED
    BY <2>1, <2>2, <2>3
<1>8. ASSUME NEW e, NEW f \in Events, Emit(e), Emit(f) PROVE e = f
  BY <1>8, OneLine
<1> HIDE DEF Own
<1>9. ASSUME ledger' # ledger PROVE \E e \in Events : Emit(e) /\ e.run_id = config.run_id
  <2>1. PICK f \in Events : Emit(f)
    BY <1>7, <1>9
  <2>2. PICK e : Emit(e) /\ e.run_id = config.run_id
    BY <1>6, <1>9 DEF Own
  <2>3. QED
    BY <1>8, <2>1, <2>2
<1>10. QED
  BY <1>1, <1>9

(* A checkpoint file is added at the last line only. *)
LEMMA SavesAtTheEnd ==
  ASSUME EpisodeInv, [Next]_vars
  PROVE  DOMAIN ckpts' \subseteq DOMAIN ckpts \cup {LastSeq}
BY StepShape DEF EpisodeInv, OpensLedger, AppendsLine, SealsRun, SavesSnapshot, TearsSnapshot,
   LeavesArtifacts, WriteFile

(* Before a continuation has written a line it stands where it can only    *)
(* write one of the round it starts in.                                    *)
Beginnings == {"loop", "observe", "complete", "crashed"}

LEMMA FirstOwnLine ==
  ASSUME EpisodeInv, [Next]_vars, pc \in Beginnings
  PROVE  \/ UNCHANGED ledger /\ state'.round = state.round /\ pc' \in Beginnings
         \/ \E e \in Events : Emit(e) /\ e.logical_time = state.round
<1> DEFINE Quiet == UNCHANGED ledger /\ state'.round = state.round /\ pc' \in Beginnings
           Timed == \E e : Emit(e) /\ e.logical_time = state.round
<1>1. Published(state).round = state.round
  BY PublishedTyped DEF EpisodeInv, TypeOK
<1>2. ASSUME NEW type, NEW t, NEW agent, NEW action
      PROVE  Event(type, t, agent, action).logical_time = t
  BY DEF Event
<1>3. ASSUME OpenRound PROVE Quiet \/ Timed
  BY <1>1, <1>2, <1>3 DEF OpenRound, Beginnings
<1>4. ASSUME IssueObservation PROVE Quiet \/ Timed
  BY <1>2, <1>4 DEF IssueObservation
<1>5. ASSUME SealCompleted PROVE Quiet \/ Timed
  <2> DEFINE e == [Event("RunCompleted", state.round, Engine, None) EXCEPT !.state_hash = state]
  <2>1. e.logical_time = state.round
    BY DEF Event
  <2>2. Emit(e)
    BY <1>5 DEF SealCompleted
  <2> HIDE DEF e
  <2> QED
    BY <2>1, <2>2
<1>6. ASSUME SaveFinalCheckpoint \/ Crash \/ UNCHANGED vars PROVE Quiet
  BY <1>6 DEF SaveFinalCheckpoint, Crash, vars, Beginnings
<1>7. Quiet \/ Timed
  <2>1. ~ (StartRun \/ AcceptProposal \/ RejectProposal \/ FallBackToAbstain
           \/ FailOnInvalidAction \/ Resolve \/ EmitDomainEvent \/ SaveCheckpoint
           \/ AnnounceCheckpoint \/ SealFailed \/ PolicyStep)
    BY DEF Beginnings, StartRun, AcceptProposal, RejectProposal, FallBackToAbstain,
       FailOnInvalidAction, Resolve, EmitDomainEvent, SaveCheckpoint, AnnounceCheckpoint,
       SealFailed, PolicyStep, Propose, PolicyRaises
  <2> QED
    BY <1>3, <1>4, <1>5, <1>6, <2>1 DEF Next, EngineStep
<1>8. CASE Quiet
  BY <1>8
<1>9. CASE Timed
  <2>1. PICK e : Emit(e) /\ e.logical_time = state.round
    BY <1>9
  <2>2. UNCHANGED ledger \/ \E f \in Events : Emit(f)
    BY WritesItsOwn
  <2>3. ledger' # ledger
    <3> DEFINE S == Events \cup {e}
    <3>1. ledger \in Seq(Events)
      BY DEF EpisodeInv, TypeOK
    <3>2. ledger \in Seq(S) /\ e \in S
      BY <3>1, LenProperties, SeqDef
    <3>3. ledger' = Append(ledger, e)
      BY <2>1 DEF Emit
    <3> HIDE DEF S
    <3> QED
      BY <3>2, <3>3, AppendProperties, LenProperties
  <2>4. PICK f \in Events : Emit(f)
    BY <2>2, <2>3
  <2>5. e = f
    BY <2>1, <2>4, OneLine
  <2> QED
    BY <2>1, <2>4, <2>5
<1> QED
  BY <1>7, <1>8, <1>9

-----------------------------------------------------------------------------
(* Families of runs *)

Configs == [run_id : RunIds, checkpoint_every : Cadences,
            invalid_action_policy : InvalidPolicies, stop_round : Nat]

(* What a filed run offers whoever forks it. *)
Filed(dir) ==
  /\ dir.config \in Configs /\ dir.ledger \in Seq(Events)
  /\ DOMAIN dir.ckpts \subseteq 0 .. Len(dir.ledger) - 1
  /\ DOMAIN dir.started.policies = Agents
  /\ LoadRun(dir)
  /\ AccountsFor(dir.ledger, dir.ledger[Len(dir.ledger)].state_hash)
  /\ \A seq \in DOMAIN dir.ckpts :
       /\ dir.ckpts[seq] \in Snapshots
       /\ ValidateCheckpoint(dir.ckpts[seq], seq, dir.ledger)
       /\ dir.ledger[seq + 1].run_id = dir.config.run_id \/ seq = dir.fork
       /\ AccountsFor(SubSeq(dir.ledger, 1, seq + 1), dir.ckpts[seq].state)
       /\ Settled(SubSeq(dir.ledger, 1, seq + 1), dir.ckpts[seq].state)

(* An agent that is not listed as changed plays as in p. *)
Inherits(changed, policies, p) ==
  \A i \in Agents \ changed : policies[i] = archive[p].policies[i]

Descends(dir) ==
  dir.parent # None =>
    \E p \in ParentsOf(dir) : Inherits(DOMAIN dir.branch.changed, dir.policies, p)

(* Lines of an earlier run come first, then those of this one only. *)
CopiedLines == IF job.kind = "branch" THEN job.fork + 1 ELSE 0

OwnLines ==
  \A k \in 1 .. Len(ledger) : k > CopiedLines => ledger[k].run_id = config.run_id

(* The first line a branch writes is of the round its checkpoint was taken  *)
(* in: until it is written the branch is at the beginning of that round.    *)
ForkTime == archive[job.source].ckpts[job.fork].logical_time
ForkTold ==
  IF Len(ledger) = CopiedLines THEN state.round = ForkTime /\ pc \in Beginnings
  ELSE ledger[CopiedLines + 1].logical_time = ForkTime

(* What a running branch has from its parent. *)
BranchInv ==
  LET dir == archive[job.source] IN
  /\ job.source \in DOMAIN archive /\ job.fork \in DOMAIN dir.ckpts
  /\ CopiedLines <= Len(ledger)
  /\ SubSeq(ledger, 1, CopiedLines) = SubSeq(dir.ledger, 1, CopiedLines)
  /\ dir.ledger[CopiedLines].run_id = dir.config.run_id
  /\ config.run_id \notin RunIdsIn(dir.ledger)
  /\ \A seq \in DOMAIN ckpts : seq >= job.fork
  /\ ForkTold
  /\ config.invalid_action_policy = dir.config.invalid_action_policy
  /\ job.changed \subseteq Agents /\ job.policies = Built(job.changed)
  /\ \A i \in Agents \ job.changed : EffectivePolicies(dir)[i] = Original

ArchiveInv ==
  \A r \in DOMAIN archive : Filed(archive[r]) /\ Descends(archive[r])

LineageInv ==
  /\ \E S : archive \in Seq(S)
  /\ job = [kind |-> job.kind, source |-> job.source, fork |-> job.fork,
            changed |-> job.changed, policies |-> job.policies, start |-> job.start,
            outcome |-> job.outcome]
  /\ ArchiveInv
  /\ job.kind \in {"run", "branch"} => EpisodeInv /\ OwnLines
  /\ job.kind = "run" => job.policies = Built({})
  /\ job.kind = "branch" => BranchInv

LEMMA StartsRight == LineageInit => LineageInv
<1> SUFFICES ASSUME LineageInit PROVE LineageInv
  OBVIOUS
<1>1. Init /\ archive = << >> /\ job = [Idle EXCEPT !.kind = "run", !.policies = Built({})]
  BY DEF LineageInit
<1>2. /\ job.kind = "run" /\ job.policies = Built({})
      /\ job = [kind |-> job.kind, source |-> job.source, fork |-> job.fork,
                changed |-> job.changed, policies |-> job.policies, start |-> job.start,
                outcome |-> job.outcome]
  BY <1>1 DEF Idle
<1>3. EpisodeInv
  <2>1. LedgerShapeInv /\ CheckpointInv /\ SettledInv
    BY <1>1 DEF Init, LedgerShapeInv, Sealed, CheckpointInv, SettledInv
  <2>2. QED
    BY <1>1, <2>1, InitTyped, InitAccount DEF EpisodeInv
<1>4. OwnLines
  BY <1>1 DEF Init, OwnLines
<1>5. archive \in Seq({}) /\ DOMAIN archive = {}
  BY <1>1, EmptySeq
<1>6. QED
  BY <1>2, <1>3, <1>4, <1>5 DEF LineageInv, ArchiveInv

(* An archive that grows keeps the parents of its runs. *)
LEMMA ParentsKept ==
  ASSUME \A r \in DOMAIN archive : r \in DOMAIN archive' /\ archive'[r] = archive[r],
         NEW CONSTANT dir, Descends(dir)
  PROVE  Descends(dir)'
<1> SUFFICES ASSUME dir.parent # None
             PROVE  \E p \in ParentsOf(dir)' :
                      Inherits(DOMAIN dir.branch.changed, dir.policies, p)'
  BY DEF Descends
<1>1. PICK p \in ParentsOf(dir) : Inherits(DOMAIN dir.branch.changed, dir.policies, p)
  BY DEF Descends
<1>2. /\ p \in DOMAIN archive /\ archive[p].config.run_id = dir.parent
      /\ dir.fork \in DOMAIN archive[p].ckpts
      /\ SubSeq(archive[p].ledger, 1, dir.fork + 1) = SubSeq(dir.ledger, 1, dir.fork + 1)
  BY <1>1 DEF ParentsOf, Runs
<1>3. p \in ParentsOf(dir)'
  BY <1>2 DEF ParentsOf, Runs
<1>4. Inherits(DOMAIN dir.branch.changed, dir.policies, p)'
  BY <1>1, <1>2 DEF Inherits
<1>5. QED
  BY <1>3, <1>4

LEMMA ArchiveKept == ArchiveInv /\ UNCHANGED archive => ArchiveInv'
<1> SUFFICES ASSUME ArchiveInv, UNCHANGED archive, NEW r \in DOMAIN archive
             PROVE  Filed(archive[r])' /\ Descends(archive[r])'
  BY DEF ArchiveInv
<1>1. PICK dir : dir = archive[r]
  OBVIOUS
<1>2. Filed(dir) /\ Descends(dir)
  BY <1>1 DEF ArchiveInv
<1>3. Descends(dir)'
  BY <1>2, ParentsKept
<1>4. QED
  BY <1>1, <1>2, <1>3

(* A step of a live run. *)
LEMMA LiveStepKeeps ==
  ASSUME LineageInv, [Next]_vars, UNCHANGED <<archive, job>>, job.kind \in {"run", "branch"}
  PROVE  LineageInv'
<1>1. EpisodeInv /\ OwnLines /\ (job.kind = "branch" => BranchInv)
  BY DEF LineageInv
<1>2. EpisodeInv'
  BY <1>1, EpisodeStep
<1>3. TypeOK /\ ledger \in Seq(Events) /\ Len(ledger) \in Nat
  BY <1>1 DEF EpisodeInv, TypeOK
<1>4. config' = config /\ CopiedLines' = CopiedLines
  BY <1>1, WritesItsOwn DEF CopiedLines
<1>5. ASSUME job.kind = "branch"
      PROVE  /\ CopiedLines \in 1 .. Len(ledger)
             /\ \A seq \in DOMAIN ckpts' : seq >= job.fork
  <2>1. CopiedLines = job.fork + 1 /\ LastSeq = Len(ledger) - 1 /\ BranchInv
    BY <1>1, <1>5 DEF CopiedLines, LastSeq
  <2>2. job.fork \in Nat /\ LastSeq >= job.fork
    BY <1>3, <2>1 DEF BranchInv, LineageInv, ArchiveInv, Filed
  <2>3. QED
    BY <1>1, <1>3, <2>1, <2>2, SavesAtTheEnd DEF BranchInv
<1>6. ArchiveInv' /\ (job.kind = "run" => job.policies = Built({}))'
  BY ArchiveKept DEF LineageInv, Built
<1>7. CASE UNCHANGED ledger
  <2>1. OwnLines'
    BY <1>1, <1>4, <1>7 DEF OwnLines
  <2>2. ASSUME job.kind = "branch" PROVE BranchInv'
    <3>1. BranchInv /\ ForkTime' = ForkTime
      BY <1>1, <2>2 DEF ForkTime
    <3>2. ForkTold'
      <4>1. CASE Len(ledger) # CopiedLines
        BY <1>4, <1>7, <3>1, <4>1 DEF BranchInv, ForkTold
      <4>2. CASE Len(ledger) = CopiedLines
        <5>1. pc \in Beginnings /\ state.round = ForkTime
          BY <3>1, <4>2 DEF BranchInv, ForkTold
        <5>2. state'.round = state.round /\ pc' \in Beginnings
          <6>1. ASSUME NEW e \in Events, Emit(e) PROVE FALSE
            BY <1>3, <1>7, <6>1, EmitTyped
          <6> QED
            BY <1>1, <5>1, <6>1, FirstOwnLine
        <5> QED
          BY <1>4, <1>7, <3>1, <4>2, <5>1, <5>2 DEF ForkTold
      <4> QED
        BY <4>1, <4>2
    <3> QED
      BY <1>1, <1>4, <1>5, <1>7, <2>2, <3>1, <3>2 DEF BranchInv, EffectivePolicies, Labels, Built
  <2>3. QED
    BY <1>2, <1>6, <2>1, <2>2 DEF LineageInv
<1>8. ASSUME NEW e \in Events, Emit(e), e.run_id = config.run_id PROVE LineageInv'
  <2>1. /\ Len(ledger') = Len(ledger) + 1 /\ ledger'[Len(ledger) + 1] = e
        /\ \A k \in 1 .. Len(ledger) : ledger'[k] = ledger[k]
    BY <1>3, <1>8, EmitTyped
  <2>2. OwnLines'
    BY <1>1, <1>3, <1>4, <1>8, <2>1 DEF OwnLines
  <2>3. ASSUME job.kind = "branch" PROVE BranchInv'
    <3>1. SubSeq(ledger', 1, CopiedLines) = SubSeq(ledger, 1, CopiedLines)
      BY <1>3, <1>5, <1>8, <2>3, PrefixUntouched
    <3>2. CopiedLines' <= Len(ledger')
      BY <1>3, <1>4, <1>5, <2>1, <2>3
    <3>3. BranchInv /\ ForkTime' = ForkTime
      BY <1>1, <2>3 DEF ForkTime
    <3>4. ForkTold'
      <4>1. CASE Len(ledger) # CopiedLines
        <5>1. CopiedLines + 1 \in 1 .. Len(ledger) /\ Len(ledger') # CopiedLines'
          BY <1>3, <1>4, <1>5, <2>1, <2>3, <4>1
        <5>2. ledger'[CopiedLines + 1] = ledger[CopiedLines + 1]
          BY <2>1, <5>1
        <5> QED
          BY <1>4, <3>3, <4>1, <5>1, <5>2 DEF BranchInv, ForkTold
      <4>2. CASE Len(ledger) = CopiedLines
        <5>1. pc \in Beginnings /\ state.round = ForkTime
          BY <3>3, <4>2 DEF BranchInv, ForkTold
        <5>2. PICK f \in Events : Emit(f) /\ f.logical_time = state.round
          <6>1. ledger' # ledger
            BY <1>3, <2>1
          <6> QED
            BY <1>1, <5>1, <6>1, FirstOwnLine
        <5>3. ledger'[Len(ledger) + 1] = f
          BY <1>3, <5>2, EmitTyped
        <5>4. Len(ledger') # CopiedLines'
          BY <1>3, <1>4, <2>1, <4>2
        <5> QED
          BY <1>4, <3>3, <4>2, <5>1, <5>2, <5>3, <5>4 DEF ForkTold
      <4> QED
        BY <4>1, <4>2
    <3> QED
      BY <1>1, <1>4, <1>5, <2>3, <3>1, <3>2, <3>3, <3>4
      DEF BranchInv, EffectivePolicies, Labels, Built
  <2>4. QED
    BY <1>2, <1>6, <2>2, <2>3 DEF LineageInv
<1>9. QED
  BY <1>1, <1>7, <1>8, WritesItsOwn

(* What a sealed run, original or branch, leaves is what a fork needs. *)
LEMMA FilesRight ==
  ASSUME LineageInv, Sealed, job.kind \in {"run", "branch"}
  PROVE  Filed(RunDir) /\ Descends(RunDir)
<1>1. /\ EpisodeInv /\ OwnLines /\ TypeOK /\ ledger \in Seq(Events)
      /\ DOMAIN ckpts \subseteq 0 .. Len(ledger) - 1 /\ pc \in {"completed", "failed"}
      /\ config \in Configs
  BY DEF LineageInv, EpisodeInv, TypeOK, Sealed, Configs
<1>2. /\ Len(ledger) \in Nat \ {0} /\ DOMAIN ledger = 1 .. Len(ledger)
      /\ ValidateRun(ledger, pc)
  <2>1. ValidateRun(ledger, pc)
    BY <1>1, SealedValidates DEF SealedRunsValidate, EpisodeInv
  <2>2. QED
    BY <1>1, <2>1, EmptySeq, LenProperties DEF EpisodeInv, LedgerShapeInv
<1> DEFINE dir == RunDir
<1>3. /\ dir.config = config /\ dir.status = pc /\ dir.ledger = ledger /\ dir.ckpts = ckpts
      /\ dir.policies = job.policies /\ dir.started = StartMeta
      /\ dir.event_count = Len(ledger) /\ dir.final_hash = ledger[Len(ledger)]
      /\ IF job.kind = "branch"
           THEN /\ dir.parent = archive[job.source].config.run_id /\ dir.fork = job.fork
                /\ dir.hash_at_fork = archive[job.source].ckpts[job.fork].prefix
                /\ dir.branch = BranchManifest
           ELSE dir.parent = None /\ dir.fork = None
  BY DEF RunDir, Source
<1> HIDE DEF dir
<1>4. /\ AccountsFor(ledger, ledger[Len(ledger)].state_hash)
      /\ \A seq \in DOMAIN ckpts :
           /\ ckpts[seq] # Torn /\ ckpts[seq] \in Snapshots
           /\ ValidateCheckpoint(ckpts[seq], seq, ledger)
           /\ AccountsFor(SubSeq(ledger, 1, seq + 1), ckpts[seq].state)
           /\ Settled(SubSeq(ledger, 1, seq + 1), ckpts[seq].state)
  <2>1. CheckpointsAreForkable /\ ArtifactsAccountForLedger
    BY <1>1, SavedValidates, SavedAccounts DEF EpisodeInv
  <2>2. \A seq \in DOMAIN ckpts : ckpts[seq] # Torn
    BY <2>1 DEF CheckpointsAreForkable, ValidateCheckpoint
  <2>3. \A seq \in DOMAIN ckpts : ckpts[seq] \in Snapshots
    BY <1>1, <2>2 DEF TypeOK
  <2>4. QED
    BY <1>1, <2>1, <2>2, <2>3
    DEF CheckpointsAreForkable, ArtifactsAccountForLedger, EpisodeInv, SettledInv
<1>5. CASE job.kind = "run"
  <2>1. \A k \in DOMAIN ledger : ledger[k].run_id = config.run_id
    BY <1>1, <1>2, <1>5 DEF OwnLines, CopiedLines
  <2>2. RunIdsIn(ledger) = {config.run_id}
    BY <1>2, <2>1 DEF RunIdsIn
  <2>3. Cardinality(RunIdsIn(ledger)) = 1
    BY <2>2, FS_Singleton
  <2>4. ContiguousIds(ledger)
    BY <1>2, <2>1 DEF ContiguousIds
  <2>5. dir.parent = None
    BY <1>3, <1>5
  <2> DEFINE policy == config.invalid_action_policy
  <2>10. dir.started = [policies |-> job.policies, invalid_action_policy |-> policy]
    BY <1>3, <1>5 DEF StartMeta
  <2>11. DOMAIN dir.started.policies = Agents
    BY <1>5, <2>10 DEF LineageInv, Built
  <2>12. ProvenanceHolds(dir)
    BY <1>3, <2>5, <2>10 DEF ProvenanceHolds, EffectivePolicies
  <2>6. LoadRun(dir)
    BY <1>2, <1>3, <2>1, <2>3, <2>4, <2>5, <2>10, <2>12 DEF LoadRun
  <2>7. \A seq \in DOMAIN ckpts : ledger[seq + 1].run_id = config.run_id
    BY <1>1, <1>2, <2>1
  <2>8. Filed(dir) /\ Descends(dir)
    BY <1>1, <1>3, <1>4, <2>5, <2>6, <2>7, <2>11 DEF Filed, Descends
  <2>9. QED
    BY <2>8 DEF dir
<1>6. CASE job.kind = "branch"
  <2> DEFINE p == archive[job.source]
             n == job.fork + 1
  <2>1. /\ BranchInv /\ Filed(p) /\ CopiedLines = n /\ job.source \in DOMAIN archive
        /\ job.fork \in DOMAIN p.ckpts
    BY <1>6 DEF LineageInv, BranchInv, ArchiveInv, CopiedLines
  <2>2. /\ p.ledger \in Seq(Events) /\ p.config \in Configs /\ LoadRun(p)
        /\ DOMAIN p.ledger = 1 .. Len(p.ledger) /\ Len(p.ledger) \in Nat
        /\ n \in 1 .. Len(p.ledger) - 1 /\ n <= Len(ledger)
    <3>1. p.ledger \in Seq(Events) /\ p.config \in Configs /\ LoadRun(p)
      BY <2>1 DEF Filed
    <3>2. DOMAIN p.ledger = 1 .. Len(p.ledger) /\ Len(p.ledger) \in Nat
      BY <3>1, LenProperties
    <3>3. job.fork \in 0 .. Len(p.ledger) - 1
      BY <2>1 DEF Filed
    <3>4. job.fork < Len(p.ledger) - 1
      BY <2>1 DEF Filed, ValidateCheckpoint
    <3>5. QED
      BY <2>1, <3>1, <3>2, <3>3, <3>4 DEF BranchInv
  <2>3. \A k \in 1 .. n : ledger[k] = p.ledger[k]
    <3>1. \A k \in 1 .. n : ledger[k] \in Events /\ p.ledger[k] \in Events
      BY <1>1, <2>2, ElementOfSeq
    <3>2. \A k \in 1 .. n : SubSeq(ledger, 1, n)[k] = ledger[k]
      BY <2>2, <3>1, SubSeqProperties
    <3>3. \A k \in 1 .. n : SubSeq(p.ledger, 1, n)[k] = p.ledger[k]
      BY <2>2, <3>1, SubSeqProperties
    <3>4. SubSeq(ledger, 1, n) = SubSeq(p.ledger, 1, n)
      BY <2>1 DEF BranchInv
    <3>5. QED
      BY <3>2, <3>3, <3>4
  <2>4. /\ p.ledger[n].run_id = p.config.run_id /\ config.run_id \notin RunIdsIn(p.ledger)
        /\ \A seq \in DOMAIN ckpts : seq >= job.fork
        /\ config.invalid_action_policy = p.config.invalid_action_policy
        /\ job.changed \subseteq Agents /\ job.policies = Built(job.changed)
        /\ \A i \in Agents \ job.changed : EffectivePolicies(p)[i] = Original
        /\ p.ckpts[job.fork].prefix = SubSeq(ledger, 1, n)
        /\ n < Len(ledger) => ledger[n + 1].logical_time = p.ckpts[job.fork].logical_time
    <3>1. p.ckpts[job.fork].prefix = SubSeq(p.ledger, 1, n)
      BY <2>1 DEF Filed, ValidateCheckpoint
    <3>2. n < Len(ledger) => ledger[n + 1].logical_time = p.ckpts[job.fork].logical_time
      BY <1>2, <2>1, <2>2 DEF BranchInv, ForkTold, ForkTime
    <3> QED
      BY <2>1, <3>1, <3>2 DEF BranchInv
  <2>15. /\ DOMAIN p.started.policies = Agents /\ p.policies = EffectivePolicies(p)
         /\ p.config.invalid_action_policy = p.started.invalid_action_policy
    BY <2>1, <2>2 DEF Filed, LoadRun, ProvenanceHolds
  <2>16. /\ dir.started = p.started
         /\ dir.hash_at_fork = p.ckpts[job.fork].prefix
         /\ dir.branch = [parent_run_id |-> p.config.run_id, child_run_id |-> config.run_id,
                          fork_seq |-> job.fork,
                          fork_round |-> p.ckpts[job.fork].logical_time,
                          hash_at_fork |-> p.ckpts[job.fork].prefix,
                          changed |-> [i \in job.changed |-> Override],
                          unchanged |-> [i \in Agents \ job.changed
                                           |-> EffectivePolicies(p)[i]]]
    BY <1>3, <1>6 DEF StartMeta, BranchManifest, Source
  <2> HIDE DEF p, n
  (* the copy does not end with a seal *)
  <2>5. n < Len(ledger)
    <3>1. p.ledger[n].event_type \notin Seals
      BY <2>2 DEF LoadRun, ValidateRun
    <3>2. ledger[Len(ledger)].event_type \in Seals
      BY <1>2 DEF ValidateRun
    <3>3. QED
      BY <1>2, <2>2, <2>3, <3>1, <3>2
  <2>6. \A k \in n + 1 .. Len(ledger) : ledger[k].run_id = config.run_id
    BY <1>1, <1>2, <2>1, <2>2 DEF OwnLines
  <2>7. \A k \in 1 .. n : ledger[k].run_id = p.ledger[k].run_id
                          /\ ledger[k].run_id # config.run_id
    BY <2>2, <2>3, <2>4 DEF RunIdsIn
  <2>8. ContiguousIds(ledger)
    <3> SUFFICES ASSUME NEW j \in 1 .. Len(ledger), NEW k \in 1 .. Len(ledger),
                        j < k, ledger[k].run_id = ledger[j].run_id, NEW i \in j .. k
                 PROVE  ledger[i].run_id = ledger[j].run_id
      BY <1>2 DEF ContiguousIds
    <3>1. n \in Nat /\ Len(ledger) \in Nat
      BY <1>2, <2>2
    <3>2. CASE k <= n
      <4>1. /\ j \in DOMAIN p.ledger /\ k \in DOMAIN p.ledger /\ ContiguousIds(p.ledger)
            /\ j \in 1 .. n /\ k \in 1 .. n /\ i \in 1 .. n
        BY <2>2, <3>1, <3>2 DEF LoadRun
      <4>2. p.ledger[k].run_id = p.ledger[j].run_id
        BY <2>7, <4>1
      <4>3. p.ledger[i].run_id = p.ledger[j].run_id
        BY <4>1, <4>2 DEF ContiguousIds
      <4>4. QED
        BY <2>7, <4>1, <4>3
    <3>3. CASE j > n
      BY <2>6, <3>1, <3>3
    <3>4. CASE j <= n /\ k > n
      BY <2>6, <2>7, <3>1, <3>4
    <3>5. QED
      BY <3>1, <3>2, <3>3, <3>4
  <2>9. dir.parent = p.config.run_id /\ dir.fork = job.fork /\ dir.fork + 1 = n
        /\ dir.parent # None
    BY <1>3, <1>6, <2>2, RunIdAssumption DEF p, n, Configs
  <2>17. DOMAIN dir.branch.changed = job.changed /\ DOMAIN dir.branch.unchanged = Agents \ job.changed
    BY <2>16
  <2>18. EffectivePolicies(dir) = dir.policies
    <3>1. Labels(dir.branch) = [i \in Agents |-> IF i \in job.changed THEN Override ELSE Original]
      <4>1. DOMAIN dir.branch.unchanged \cup DOMAIN dir.branch.changed = Agents
        BY <2>4, <2>17
      <4>2. \A i \in Agents : (IF i \in DOMAIN dir.branch.changed
                                 THEN dir.branch.changed[i] ELSE dir.branch.unchanged[i])
                               = IF i \in job.changed THEN Override ELSE Original
        BY <2>4, <2>16, <2>17
      <4> QED
        BY <4>1, <4>2 DEF Labels
    <3> QED
      BY <1>3, <2>4, <2>9, <3>1 DEF EffectivePolicies, Built
  <2>19. BranchAgrees(dir)
    <3>1. dir.branch.fork_seq + 1 = n /\ dir.ledger = ledger
      BY <1>3, <2>9, <2>16
    <3>2. \A k \in 1 .. n : ledger[k].run_id # config.run_id
      BY <2>7
    <3>3. ledger[n].run_id = p.config.run_id /\ n \in 1 .. n
      BY <2>2, <2>4, <2>7
    <3>4. /\ DOMAIN dir.branch.changed \cap DOMAIN dir.branch.unchanged = {}
          /\ DOMAIN dir.branch.changed \cup DOMAIN dir.branch.unchanged
               = DOMAIN dir.started.policies
      BY <2>4, <2>15, <2>16, <2>17
    <3> QED
      BY <1>3, <2>4, <2>5, <2>6, <2>9, <2>16, <3>1, <3>2, <3>3, <3>4 DEF BranchAgrees
  <2>20. ProvenanceHolds(dir)
    BY <2>18, <2>19 DEF ProvenanceHolds
  <2>10. LoadRun(dir)
    <3>1. ledger[Len(ledger)].run_id = config.run_id
      BY <1>2, <2>2, <2>5, <2>6
    <3>2. dir.config.invalid_action_policy = dir.started.invalid_action_policy
      BY <1>3, <2>4, <2>15, <2>16
    <3> QED
      BY <1>2, <1>3, <2>8, <2>9, <2>20, <3>1, <3>2 DEF LoadRun
  <2>11. \A seq \in DOMAIN ckpts : ledger[seq + 1].run_id = config.run_id \/ seq = dir.fork
    <3> SUFFICES ASSUME NEW seq \in DOMAIN ckpts, seq # job.fork
                 PROVE  ledger[seq + 1].run_id = config.run_id
      BY <2>9
    <3>1. seq \in Nat /\ job.fork \in Nat /\ seq + 1 <= Len(ledger) /\ seq > job.fork
      BY <1>1, <1>2, <2>1, <2>4 DEF Filed, p
    <3>2. QED
      BY <1>2, <2>6, <3>1 DEF n
  <2>12. Filed(dir)
    BY <1>1, <1>3, <1>4, <2>10, <2>11, <2>15, <2>16 DEF Filed
  <2>13. Descends(dir)
    <3>1. SubSeq(p.ledger, 1, dir.fork + 1) = SubSeq(dir.ledger, 1, dir.fork + 1)
      BY <1>3, <2>1, <2>9 DEF BranchInv, p
    <3>2. job.source \in ParentsOf(dir)
      BY <2>1, <2>9, <3>1 DEF ParentsOf, Runs, p
    <3>3. Inherits(DOMAIN dir.branch.changed, dir.policies, job.source)
      BY <1>3, <2>4, <2>15, <2>17 DEF Inherits, Built, p
    <3>4. QED
      BY <3>2, <3>3 DEF Descends
  <2>14. QED
    BY <2>12, <2>13 DEF dir
<1>7. QED
  BY <1>5, <1>6 DEF dir

LEMMA FileRunKeeps == LineageInv /\ FileRun => LineageInv'
<1> SUFFICES ASSUME LineageInv, FileRun PROVE LineageInv'
  OBVIOUS
<1>1. /\ job.kind \in {"run", "branch"} /\ Sealed
      /\ archive' = Append(archive, RunDir) /\ job' = Idle
  BY DEF FileRun
<1>2. PICK S : archive \in Seq(S)
  BY DEF LineageInv
<1>3. PICK dir : dir = RunDir
  OBVIOUS
<1>4. Filed(dir) /\ Descends(dir)
  BY <1>1, <1>3, FilesRight
<1> DEFINE T == S \cup {dir}
<1>5. /\ archive \in Seq(T) /\ archive' \in Seq(T) /\ Len(archive) \in Nat
      /\ DOMAIN archive = 1 .. Len(archive) /\ DOMAIN archive' = 1 .. Len(archive) + 1
      /\ \A r \in 1 .. Len(archive) : archive'[r] = archive[r]
      /\ archive'[Len(archive) + 1] = dir
  <2>1. archive \in Seq(T) /\ dir \in T
    BY <1>2, SeqMonotonic
  <2> HIDE DEF T
  <2>2. QED
    BY <1>1, <1>3, <2>1, AppendProperties, LenProperties
<1> HIDE DEF T
<1>6. ArchiveInv'
  <2> SUFFICES ASSUME NEW r \in DOMAIN archive' PROVE Filed(archive[r])' /\ Descends(archive[r])'
    BY DEF ArchiveInv
  <2>1. PICK d : d = archive'[r]
    OBVIOUS
  <2>2. Filed(d) /\ Descends(d)
    <3>1. CASE r = Len(archive) + 1
      BY <1>4, <1>5, <2>1, <3>1
    <3>2. CASE r # Len(archive) + 1
      <4>1. r \in DOMAIN archive /\ d = archive[r]
        BY <1>5, <2>1, <3>2
      <4>2. QED
        BY <4>1 DEF LineageInv, ArchiveInv
    <3>3. QED
      BY <3>1, <3>2
  <2>3. Descends(d)'
    BY <1>5, <2>2, ParentsKept
  <2>4. QED
    BY <2>1, <2>2, <2>3
<1>7. /\ job'.kind = "idle"
      /\ (job = [kind |-> job.kind, source |-> job.source, fork |-> job.fork,
                 changed |-> job.changed, policies |-> job.policies, start |-> job.start,
                 outcome |-> job.outcome])'
  BY <1>1 DEF Idle
<1>8. (\E R : archive \in Seq(R))'
  BY <1>5
<1>9. QED
  BY <1>6, <1>7, <1>8 DEF LineageInv

(* A fork starts an episode on which everything proved of episodes holds. *)
LEMMA ForkKeeps ==
  ASSUME LineageInv, NEW p \in DOMAIN archive, NEW seq \in DOMAIN archive[p].ckpts,
         NEW child \in RunIds, NEW changed \in Overrides, Fork(p, seq, child, changed)
  PROVE  LineageInv'
<1>1. PICK dir : dir = archive[p]
  OBVIOUS
<1>2. /\ CanFork(dir, seq, child, changed) /\ UNCHANGED archive
      /\ config' = [dir.config EXCEPT !.run_id = child] /\ state' = dir.ckpts[seq].state
      /\ ledger' = SubSeq(dir.ledger, 1, seq + 1) /\ ckpts' = << >>
      /\ pc' = "loop" /\ turn' = 1
      /\ proposal' = None /\ accepted' = NoActions /\ failure' = None
      /\ job' = [Idle EXCEPT !.kind = "branch", !.source = p, !.fork = seq,
                             !.changed = changed, !.policies = Built(changed)]
  <2>1. /\ <<seq, child, changed>> \in ForksOf(dir) /\ UNCHANGED archive
        /\ config' = [dir.config EXCEPT !.run_id = child] /\ state' = dir.ckpts[seq].state
        /\ ledger' = SubSeq(dir.ledger, 1, seq + 1) /\ ckpts' = << >>
        /\ pc' = "loop" /\ turn' = 1
        /\ proposal' = None /\ accepted' = NoActions /\ failure' = None
        /\ job' = [Idle EXCEPT !.kind = "branch", !.source = p, !.fork = seq,
                               !.changed = changed, !.policies = Built(changed)]
    BY <1>1 DEF Fork, Launch
  <2>2. CanFork(dir, seq, child, changed)
    BY <2>1 DEF ForksOf
  <2>3. QED
    BY <2>1, <2>2
<1>3. /\ job'.kind = "branch" /\ job'.source = p /\ job'.fork = seq
      /\ job'.changed = changed /\ job'.policies = Built(changed)
      /\ (job = [kind |-> job.kind, source |-> job.source, fork |-> job.fork,
                 changed |-> job.changed, policies |-> job.policies, start |-> job.start,
                 outcome |-> job.outcome])'
  BY <1>2 DEF Idle
<1>4. /\ Filed(dir) /\ dir.config \in Configs /\ dir.ledger \in Seq(Events)
      /\ Len(dir.ledger) \in Nat /\ DOMAIN dir.ledger = 1 .. Len(dir.ledger)
      /\ dir.ckpts[seq] \in Snapshots
      /\ seq \in Nat /\ seq + 1 \in 1 .. Len(dir.ledger) - 1
  <2>1. Filed(dir)
    BY <1>1 DEF LineageInv, ArchiveInv
  <2>2. /\ dir.config \in Configs /\ dir.ledger \in Seq(Events)
        /\ dir.ckpts[seq] \in Snapshots
        /\ seq \in 0 .. Len(dir.ledger) - 1 /\ seq < Len(dir.ledger) - 1
    BY <1>1, <2>1 DEF Filed, ValidateCheckpoint
  <2>3. Len(dir.ledger) \in Nat /\ DOMAIN dir.ledger = 1 .. Len(dir.ledger)
    BY <2>2, LenProperties
  <2>4. QED
    BY <2>1, <2>2, <2>3
<1>5. /\ ledger' \in Seq(Events) /\ Len(ledger') = seq + 1
      /\ \A k \in 1 .. seq + 1 : ledger'[k] = dir.ledger[k]
  <2>1. \A k \in 1 .. seq + 1 : dir.ledger[k] \in Events
    BY <1>4, ElementOfSeq
  <2>2. QED
    BY <1>2, <1>4, <2>1, SubSeqProperties
<1>6. ledger' # << >>
  BY <1>4, <1>5, EmptySeq
<1>7. TypeOK'
  <2>1. config' \in Configs
    BY <1>2, <1>4 DEF Configs
  <2>2. state' \in States
    BY <1>2, <1>4 DEF Snapshots
  <2>3. accepted' \in [Agents -> Actions \cup {None}]
    BY <1>2 DEF NoActions
  <2>4. DOMAIN ckpts' = {}
    BY <1>2
  <2>5. QED
    BY <1>2, <1>5, <2>1, <2>2, <2>3, <2>4 DEF TypeOK, Configs, PcValues
<1>8. ControlInv' /\ CheckpointInv' /\ SettledInv'
  BY <1>2, <1>6 DEF ControlInv, CheckpointInv, SettledInv
<1>9. LedgerShapeInv'
  <2>1. /\ \A k \in 1 .. seq + 1 : ledger'[k].event_type = "RunStarted" <=> k = 1
        /\ \A k \in 1 .. seq + 1 : ledger'[k].event_type \notin Seals
    <3>1. /\ Positions(dir.ledger, "RunStarted") = {1}
          /\ {k \in DOMAIN dir.ledger : dir.ledger[k].event_type \in Seals}
               = {Len(dir.ledger)}
      BY <1>2 DEF CanFork, LoadRun, ValidateRun
    <3>2. \A k \in DOMAIN dir.ledger : dir.ledger[k].event_type = "RunStarted" <=> k = 1
      BY <3>1 DEF Positions
    <3>3. \A k \in DOMAIN dir.ledger : dir.ledger[k].event_type \in Seals
                                         <=> k = Len(dir.ledger)
      BY <3>1
    <3>4. ASSUME NEW k \in 1 .. seq + 1 PROVE k \in DOMAIN dir.ledger /\ k # Len(dir.ledger)
      BY <1>4
    <3>5. QED
      BY <1>5, <3>2, <3>3, <3>4
  <2>2. ~ Sealed' /\ pc' # "start"
    BY <1>2 DEF Sealed
  <2>3. Len(ledger') = seq + 1 /\ 1 \in 1 .. seq + 1
        /\ \A k \in 2 .. seq + 1 : k \in 1 .. seq + 1 /\ k # 1
    BY <1>4, <1>5
  <2>4. QED
    BY <2>1, <2>2, <2>3 DEF LedgerShapeInv
<1>10. AccountInv' /\ ArtifactInv'
  <2>1. AccountsFor(ledger', state') /\ Settled(ledger', state')
    BY <1>1, <1>2, <1>4 DEF Filed
  <2>2. state'.round \in Nat /\ Told' = state'.round /\ \A i \in Agents : ~ Decided(i)'
    <3>1. state'.round \in Nat
      BY <1>7 DEF TypeOK, States
    <3>2. Told' = state'.round
      BY <1>2 DEF Told
    <3>3. ASSUME NEW i \in Agents PROVE ~ Decided(i)'
      BY <1>2 DEF Decided
    <3>4. QED
      BY <3>1, <3>2, <3>3
  <2>3. AccountInv'
    <3>1. \A r \in Nat : r >= state'.round =>
            \A i \in Agents : AcceptedActions(ledger', r, i) = {}
      BY <2>1 DEF Settled
    <3>2. \A i \in Agents : AcceptedActions(ledger', state'.round, i)
                               = IF Decided(i)' THEN {accepted'[i]} ELSE {}
      BY <2>2, <3>1
    <3>3. \A r \in Nat : \A i \in Agents :
            r > state'.round => AcceptedActions(ledger', r, i) = {}
      BY <2>2, <3>1
    <3>4. /\ TimesOf(ledger', "WorldTransitioned") = 0 .. Told' - 1
          /\ Len(state'.moves) = state'.round
          /\ \A r \in 1 .. state'.round : \A i \in Agents :
               AcceptedActions(ledger', r - 1, i) = {state'.moves[r][i]}
          /\ state'.published = TimesOf(ledger', "AuditPublished")
      BY <2>1, <2>2 DEF AccountsFor
    <3>5. QED
      BY <3>2, <3>3, <3>4 DEF AccountInv
  <2>4. ArtifactInv'
    BY <1>2 DEF ArtifactInv, Sealed
  <2>5. QED
    BY <2>3, <2>4
<1>11. EpisodeInv'
  BY <1>7, <1>8, <1>9, <1>10 DEF EpisodeInv
<1>12. OwnLines'
  BY <1>3, <1>4, <1>5 DEF OwnLines, CopiedLines
<1>13. BranchInv'
  <2>1. config'.run_id = child /\ CopiedLines' = seq + 1
    BY <1>2, <1>3, <1>4 DEF Configs, CopiedLines
  <2>2. /\ dir.ledger[seq + 1].run_id = dir.config.run_id
        /\ child \notin RunIdsIn(dir.ledger)
        /\ \A i \in Agents \ changed : EffectivePolicies(dir)[i] = Original
        /\ changed \subseteq Agents
    BY <1>2 DEF CanFork
  <2>3. SubSeq(ledger', 1, seq + 1) = SubSeq(dir.ledger, 1, seq + 1)
    BY <1>2, <1>5, SubSeqFull
  <2>4. ForkTold'
    <3>1. dir.ckpts[seq].state.round = dir.ckpts[seq].logical_time
      BY <1>1, <1>4 DEF Filed, ValidateCheckpoint
    <3> QED
      BY <1>1, <1>2, <1>3, <1>5, <2>1, <3>1 DEF ForkTold, ForkTime, Beginnings
  <2>5. archive'[job'.source] = dir
    BY <1>1, <1>2, <1>3
  <2>6. QED
    <3>1. (\A i \in Agents \ job.changed : EffectivePolicies(archive[job.source])[i] = Original)'
      <4> DEFINE d == archive[job.source]
      <4>1. d' = dir /\ job'.changed = changed
        BY <1>3, <2>5
      <4>2. ASSUME NEW i \in Agents \ changed
            PROVE  (IF d.parent = None THEN d.started.policies ELSE Labels(d.branch))'[i] = Original
        BY <2>2, <4>1, <4>2 DEF EffectivePolicies, Labels
      <4> QED
        BY <4>1, <4>2 DEF EffectivePolicies
    <3>2. (job.policies = Built(job.changed))'
      BY <1>3 DEF Built
    <3>3. config'.invalid_action_policy = dir.config.invalid_action_policy
      BY <1>2, <1>4 DEF Configs
    <3> QED
      BY <1>1, <1>2, <1>3, <1>4, <1>5, <2>1, <2>2, <2>3, <2>4, <2>5, <3>1, <3>2, <3>3
      DEF BranchInv
<1>14. ArchiveInv'
  BY <1>2, ArchiveKept DEF LineageInv
<1>15. (\E S : archive \in Seq(S))'
  BY <1>2 DEF LineageInv
<1>16. QED
  BY <1>3, <1>11, <1>12, <1>13, <1>14, <1>15 DEF LineageInv

(* Replays leave the archive alone, and an episode that is a replay is of  *)
(* no concern to LineageInv.                                               *)
LEMMA ReplayKeeps ==
  LineageInv /\ (\/ \E r \in DOMAIN archive : BeginReplay(r)
                 \/ ReplayStep \/ NextReplaySegment \/ FinishReplay \/ DiscardReplay)
    => LineageInv'
<1> DEFINE JobIn(j) == j = [kind |-> j.kind, source |-> j.source, fork |-> j.fork,
                            changed |-> j.changed, policies |-> j.policies,
                            start |-> j.start, outcome |-> j.outcome]
<1>1. ASSUME LineageInv, UNCHANGED archive, JobIn(job'), job'.kind \in {"replay", "idle"}
      PROVE  LineageInv'
  <2>1. ArchiveInv'
    BY <1>1, ArchiveKept DEF LineageInv
  <2>2. QED
    BY <1>1, <2>1 DEF LineageInv
<1>2. ASSUME NEW j, JobIn(j), j.kind = "replay", NEW v
      PROVE  /\ JobIn([j EXCEPT !.outcome = v]) /\ [j EXCEPT !.outcome = v].kind = "replay"
             /\ JobIn([j EXCEPT !.start = v]) /\ [j EXCEPT !.start = v].kind = "replay"
  BY <1>2
<1>3. ASSUME LineageInv, NEW r \in DOMAIN archive, BeginReplay(r) PROVE LineageInv'
  <2>1. /\ UNCHANGED archive
        /\ job' = [Idle EXCEPT !.kind = "replay", !.source = r, !.start = 1,
                               !.outcome = "pending"]
    BY <1>3 DEF BeginReplay
  <2>2. JobIn(job') /\ job'.kind = "replay"
    BY <2>1 DEF Idle
  <2>3. QED
    BY <1>1, <1>3, <2>1, <2>2
<1>4. ASSUME LineageInv, ReplayStep \/ NextReplaySegment \/ FinishReplay PROVE LineageInv'
  <2>1. UNCHANGED archive /\ job.kind = "replay" /\ JobIn(job)
    BY <1>4 DEF ReplayStep, NextReplaySegment, FinishReplay, LineageInv
  <2>2. \/ UNCHANGED job
        \/ \E v : job' = [job EXCEPT !.outcome = v] \/ job' = [job EXCEPT !.start = v]
    BY <1>4 DEF ReplayStep, NextReplaySegment, FinishReplay
  <2>3. JobIn(job') /\ job'.kind = "replay"
    <3>1. PICK j : j = job
      OBVIOUS
    <3> HIDE DEF JobIn
    <3>2. JobIn(j) /\ j.kind = "replay"
      BY <2>1, <3>1
    <3>3. CASE job' = j
      BY <3>2, <3>3
    <3>4. ASSUME NEW v, job' = [j EXCEPT !.outcome = v] \/ job' = [j EXCEPT !.start = v]
          PROVE  JobIn(job') /\ job'.kind = "replay"
      <4>1. /\ JobIn([j EXCEPT !.outcome = v]) /\ [j EXCEPT !.outcome = v].kind = "replay"
            /\ JobIn([j EXCEPT !.start = v]) /\ [j EXCEPT !.start = v].kind = "replay"
        BY <1>2, <3>2
      <4>2. CASE job' = [j EXCEPT !.outcome = v]
        BY <4>1, <4>2
      <4>3. CASE job' = [j EXCEPT !.start = v]
        BY <4>1, <4>3
      <4>4. QED
        BY <3>4, <4>2, <4>3
    <3>5. QED
      BY <2>2, <3>1, <3>3, <3>4
  <2>4. QED
    BY <1>1, <1>4, <2>1, <2>3
<1>5. ASSUME LineageInv, DiscardReplay PROVE LineageInv'
  <2>1. UNCHANGED archive /\ job' = Idle
    BY <1>5 DEF DiscardReplay
  <2>2. JobIn(job') /\ job'.kind = "idle"
    BY <2>1 DEF Idle
  <2>3. QED
    BY <1>1, <1>5, <2>1, <2>2
<1>6. QED
  BY <1>3, <1>4, <1>5

LEMMA LineageStep == LineageInv /\ [LineageNext]_lineageVars => LineageInv'
<1> SUFFICES ASSUME LineageInv, [LineageNext]_lineageVars PROVE LineageInv'
  OBVIOUS
<1>1. CASE LiveStep
  <2>1. [Next]_vars /\ UNCHANGED <<archive, job>> /\ job.kind \in {"run", "branch"}
    BY <1>1 DEF LiveStep, Next
  <2>2. QED
    BY <2>1, LiveStepKeeps
<1>2. CASE FileRun
  BY <1>2, FileRunKeeps
<1>3. ASSUME NEW p \in DOMAIN archive, NEW seq \in DOMAIN archive[p].ckpts,
             NEW child \in RunIds, NEW changed \in Overrides, Fork(p, seq, child, changed)
      PROVE  LineageInv'
  BY <1>3, ForkKeeps
<1>4. CASE \/ \E r \in DOMAIN archive : BeginReplay(r)
           \/ ReplayStep \/ NextReplaySegment \/ FinishReplay \/ DiscardReplay
  BY <1>4, ReplayKeeps
<1>5. CASE UNCHANGED lineageVars
  <2>1. [Next]_vars /\ UNCHANGED <<archive, job>>
    BY <1>5 DEF lineageVars
  <2>2. CASE job.kind \in {"run", "branch"}
    BY <2>1, <2>2, LiveStepKeeps
  <2>3. CASE job.kind \notin {"run", "branch"}
    <3>1. ArchiveInv'
      BY <2>1, ArchiveKept DEF LineageInv
    <3>2. job' = job /\ archive' = archive
      BY <2>1
    <3>3. QED
      BY <2>3, <3>1, <3>2 DEF LineageInv
  <2>4. QED
    BY <2>2, <2>3
<1>6. QED
  BY <1>1, <1>2, <1>3, <1>4, <1>5 DEF LineageNext

LEMMA LineageAlways == LineageSpec => []LineageInv
  BY LineageStep, StartsRight, PTL DEF LineageSpec

-----------------------------------------------------------------------------
(* Replay: the locals of the runner as a value *)

(* What a run has in hand besides its files, and a step of it as a         *)
(* relation on that.  A ledger is traced by the locals before each line.   *)
Locals ==
  {x \in [pc : PcValues, turn : Nat \ {0}, proposal : Actions \cup {None},
          accepted : [Agents -> Actions \cup {None}], failure : Reasons \cup {None},
          state : States] :
     /\ x.pc \in {"observe", "propose", "validate", "rejected"} => x.turn \in Agents
     /\ x.pc = "domain" => x.turn \in 1 .. Len(DomainEventTypes) /\ x.state.round > 0}

Having(at, t, p, a, f, s) ==
  [pc |-> at, turn |-> t, proposal |-> p, accepted |-> a, failure |-> f, state |-> s]

Now == Having(pc, turn, proposal, accepted, failure, state)
Fresh(at, s) == Having(at, 1, None, NoActions, None, s)

(* The same locals at another place, or with another turn or state *)
At(x, at) == Having(at, x.turn, x.proposal, x.accepted, x.failure, x.state)
AtTurn(x, at, t) == Having(at, t, x.proposal, x.accepted, x.failure, x.state)

Ends(c, s) == s.round >= c.stop_round \/ s.round >= MaxRounds
Opens(s) == s.round \in OpeningRounds \ s.published
Entered(x) == Having("observe", 1, x.proposal, NoActions, x.failure, Published(x.state))
Failing(x, reason) == Having("fail", x.turn, x.proposal, x.accepted, reason, x.state)

(* The steps that write no line, but those of a policy *)
Quiet(c, x, y) ==
  \/ x.pc = "loop" /\ ~ Ends(c, x.state) /\ ~ Opens(x.state) /\ y = Entered(x)
  \/ x.pc = "loop" /\ Ends(c, x.state) /\ y = At(x, "complete")
  \/ /\ x.pc = "rejected" /\ c.invalid_action_policy = "fail"
     /\ y = Failing(x, [kind |-> "invalid_action", agent |-> x.turn])
  \/ /\ x.pc = "rejected" /\ c.invalid_action_policy = "abstain"
     /\ ~ Legal(x.state, x.turn, Abstain)
     /\ y = Failing(x, [kind |-> "fallback_illegal", agent |-> x.turn])
  \/ /\ x.pc = "resolve"
     /\ y = Having("domain", 1, x.proposal, x.accepted, x.failure, Resolved(x.state, x.accepted))
  \/ x.pc = "checkpoint" /\ y = At(x, "announce")

Raises(x, kind, y) ==
  x.pc = "propose" /\ y = Failing(x, [kind |-> kind, agent |-> x.turn])

Silently(c, x, y) == Quiet(c, x, y) \/ \E kind \in PolicyErrors : Raises(x, kind, y)

(* The steps that write line e, the n-th counted from 0 *)
Entry(c, type, t, agent, action, seq, s, why) ==
  [event_type |-> type, run_id |-> c.run_id, logical_time |-> t, agent |-> agent,
   action |-> action, at_seq |-> seq, state_hash |-> s, reason |-> why]

Line(c, type, t, agent, action) == Entry(c, type, t, agent, action, None, None, None)

Advanced(x, last, next) ==
  IF x.turn < last THEN AtTurn(x, x.pc, x.turn + 1) ELSE AtTurn(x, next, 1)

Accepts(c, x, action, e, y) ==
  /\ e = Line(c, "ActionAccepted", x.state.round, x.turn, action)
  /\ y = Having(IF x.turn < NumAgents THEN "propose" ELSE "resolve",
                IF x.turn < NumAgents THEN x.turn + 1 ELSE 1,
                None, [x.accepted EXCEPT ![x.turn] = action], x.failure, x.state)

Cadence(c, s) == c.checkpoint_every > 0 /\ s.round % c.checkpoint_every = 0

Writes(c, n, x, e, y) ==
  LET t == x.state.round IN
  \/ x.pc = "start" /\ e = Line(c, "RunStarted", 0, Engine, None) /\ y = At(x, "loop")
  \/ /\ x.pc = "loop" /\ ~ Ends(c, x.state) /\ Opens(x.state)
     /\ e = Line(c, "AuditPublished", t, Engine, None) /\ y = Entered(x)
  \/ /\ x.pc = "observe" /\ e = Line(c, "ObservationIssued", t, x.turn, None)
     /\ y = Advanced(x, NumAgents, "propose")
  \/ \E action \in Actions :
       /\ x.pc = "propose" /\ e = Line(c, "ActionProposed", t, x.turn, action)
       /\ y = Having("validate", x.turn, action, x.accepted, x.failure, x.state)
  \/ /\ x.pc = "validate" /\ Legal(x.state, x.turn, x.proposal)
     /\ Accepts(c, x, x.proposal, e, y)
  \/ /\ x.pc = "validate" /\ ~ Legal(x.state, x.turn, x.proposal)
     /\ e = Line(c, "ActionRejected", t, x.turn, x.proposal)
     /\ y = Having("rejected", x.turn, None, x.accepted, x.failure, x.state)
  \/ /\ x.pc = "rejected" /\ c.invalid_action_policy = "abstain"
     /\ Legal(x.state, x.turn, Abstain) /\ Accepts(c, x, Abstain, e, y)
  \/ /\ x.pc = "domain" /\ e = Line(c, DomainEventTypes[x.turn], t - 1, Engine, None)
     /\ y = Advanced(x, Len(DomainEventTypes),
                     IF Cadence(c, x.state) /\ ~ Ends(c, x.state) THEN "checkpoint" ELSE "loop")
  \/ /\ x.pc = "announce"
     /\ e = Entry(c, "CheckpointCreated", t, Engine, None, n - 1, x.state, None)
     /\ y = At(x, "loop")
  \/ /\ x.pc = "fail"
     /\ e = Entry(c, "RunFailed", t, Engine, None, None, x.state, x.failure)
     /\ y = At(x, "failed")
  \/ /\ x.pc = "complete"
     /\ e = Entry(c, "RunCompleted", t, Engine, None, None, x.state, None)
     /\ y = At(x, "completed")

(* A step of the runner is one of these.  An agent whose proposal was      *)
(* rejected has none in hand (so FallBackToAbstain may be said to drop it).*)
LEMMA StepTraced ==
  ASSUME pc = "rejected" => proposal = None,
         EngineStep \/ \E action \in Actions : Propose(action)
  PROVE  /\ config' = config
         /\ \/ UNCHANGED ledger /\ Quiet(config, Now, Now')
            \/ \E e : ledger' = Append(ledger, e) /\ Writes(config, Len(ledger), Now, e, Now')
         /\ IF pc = "checkpoint" \/ (pc = "loop" /\ Ends(config, state))
              THEN UNCHANGED ledger /\ ckpts' = WriteFile(ckpts, LastSeq, Snapshot(LastSeq, state))
              ELSE UNCHANGED ckpts
<1> USE DEF Now, Having, At, AtTurn, Line
<1>1. CASE StartRun
  BY <1>1 DEF StartRun, Emit, Event, Entry, Line, Writes
<1>2. CASE OpenRound
  <2>1. CASE state.round \in OpeningRounds \ state.published
    BY <1>2, <2>1 DEF OpenRound, Emit, Event, Entry, Line, Writes, Entered, Opens, Terminal, Ends
  <2>2. CASE state.round \notin OpeningRounds \ state.published
    BY <1>2, <2>2 DEF OpenRound, Quiet, Entered, Opens, Terminal, Ends
  <2> QED
    BY <2>1, <2>2
<1>3. CASE IssueObservation
  BY <1>3 DEF IssueObservation, Emit, Event, Entry, Line, Writes, Advanced
<1>4. CASE AcceptProposal
  BY <1>4 DEF AcceptProposal, Accept, Emit, Event, Entry, Line, Writes, Accepts
<1>5. CASE RejectProposal
  BY <1>5 DEF RejectProposal, Emit, Event, Entry, Line, Writes
<1>6. CASE FallBackToAbstain
  BY <1>6 DEF FallBackToAbstain, Accept, Emit, Event, Entry, Line, Writes, Accepts
<1>7. CASE FailOnInvalidAction
  BY <1>7 DEF FailOnInvalidAction, Quiet, Failing
<1>8. CASE Resolve
  BY <1>8 DEF Resolve, Quiet
<1>9. CASE EmitDomainEvent
  BY <1>9 DEF EmitDomainEvent, Emit, Event, Entry, Line, Writes, Advanced, AtCadence, Cadence,
              Terminal, Ends
<1>10. CASE SaveCheckpoint
  BY <1>10 DEF SaveCheckpoint, Quiet
<1>11. CASE AnnounceCheckpoint
  <2> DEFINE line(m, s) == Entry(config, "CheckpointCreated", state.round, Engine, None, m, s, None)
             event == Event("CheckpointCreated", state.round, Engine, None)
  <2>2. [event EXCEPT !.at_seq = LastSeq] = line(LastSeq, None)
    BY DEF Event, Entry
  <2>3. [line(LastSeq, None) EXCEPT !.state_hash = state] = line(LastSeq, state)
    BY DEF Entry
  <2>4. [event EXCEPT !.at_seq = LastSeq, !.state_hash = state] = line(LastSeq, state)
    BY <2>2, <2>3
  <2>1. Emit(Entry(config, "CheckpointCreated", state.round, Engine, None, Len(ledger) - 1,
                   state, None))
    BY <1>11, <2>4 DEF AnnounceCheckpoint, LastSeq
  <2> QED
    BY <1>11, <2>1 DEF AnnounceCheckpoint, Emit, Writes
<1>12. CASE SealFailed
  <2>1. Emit(Entry(config, "RunFailed", state.round, Engine, None, None, state, failure))
    <3> DEFINE line(s, why) == Entry(config, "RunFailed", state.round, Engine, None, None, s, why)
               event == Event("RunFailed", state.round, Engine, None)
    <3>1. [event EXCEPT !.reason = failure] = line(None, failure)
      BY DEF Event, Entry
    <3>2. [line(None, failure) EXCEPT !.state_hash = state] = line(state, failure)
      BY DEF Entry
    <3>3. [event EXCEPT !.reason = failure, !.state_hash = state] = line(state, failure)
      BY <3>1, <3>2
    <3> QED
      BY <1>12, <3>3 DEF SealFailed
  <2> QED
    BY <1>12, <2>1 DEF SealFailed, Emit, Writes
<1>13. CASE SaveFinalCheckpoint
  BY <1>13 DEF SaveFinalCheckpoint, Quiet, Terminal, Ends
<1>14. CASE SealCompleted
  BY <1>14 DEF SealCompleted, Emit, Event, Entry, Line, Writes
<1>15. ASSUME NEW action \in Actions, Propose(action)
       PROVE  \E e : ledger' = Append(ledger, e) /\ Writes(config, Len(ledger), Now, e, Now')
  BY <1>15 DEF Propose, Emit, Event, Entry, Line, Writes
<1>16. config' = config
  BY DEF EngineStep, StartRun, OpenRound, IssueObservation, AcceptProposal,
     RejectProposal, FallBackToAbstain, FailOnInvalidAction, Resolve, EmitDomainEvent,
     SaveCheckpoint, AnnounceCheckpoint, SealFailed, SaveFinalCheckpoint, SealCompleted,
     Propose
<1>17. IF pc = "checkpoint" \/ (pc = "loop" /\ Ends(config, state))
         THEN UNCHANGED ledger /\ ckpts' = WriteFile(ckpts, LastSeq, Snapshot(LastSeq, state))
         ELSE UNCHANGED ckpts
  <2>1. Terminal(state) <=> Ends(config, state)
    BY DEF Terminal, Ends
  <2> QED
    BY <2>1 DEF EngineStep, StartRun, OpenRound, IssueObservation, AcceptProposal,
       RejectProposal, FallBackToAbstain, FailOnInvalidAction, Resolve, EmitDomainEvent,
       SaveCheckpoint, AnnounceCheckpoint, SealFailed, SaveFinalCheckpoint, SealCompleted,
       Propose
<1> QED
  BY <1>1, <1>2, <1>3, <1>4, <1>5, <1>6, <1>7, <1>8, <1>9, <1>10, <1>11, <1>12, <1>13, <1>14,
     <1>15, <1>16, <1>17 DEF EngineStep

LEMMA RaiseTraced ==
  ASSUME NEW kind, PolicyRaises(kind)
  PROVE  UNCHANGED <<config, ledger, ckpts>> /\ Raises(Now, kind, Now')
BY DEF PolicyRaises, Raises, Failing, Now, Having

LEMMA NowTyped == TypeOK /\ ControlInv => Now \in Locals
BY DEF TypeOK, ControlInv, Now, Having, Locals

-----------------------------------------------------------------------------
(* The times of the lines, and who has proposed *)

DomainTypes == {"WorldTransitioned", "RewardAssigned"}

(* The time of the line to be written next *)
Clock(x) == IF x.pc = "domain" THEN x.state.round - 1 ELSE x.state.round

InOrderOfTime(l) ==
  \A i, j \in 1 .. Len(l) : i <= j => l[i].logical_time <= l[j].logical_time

ProposalAt(l, n, i, t) ==
  l[n].event_type = "ActionProposed" /\ l[n].agent = i /\ l[n].logical_time = t

ProposeOnce(l) ==
  \A m, n \in 1 .. Len(l) :
    /\ ProposalAt(l, m, l[m].agent, l[m].logical_time)
    /\ ProposalAt(l, n, l[m].agent, l[m].logical_time)
    => m = n

(* The agents that have proposed at time t are those numbered up to k. *)
ProposedUpTo(l, t, k) ==
  \A i \in Agents : (\E n \in 1 .. Len(l) : ProposalAt(l, n, i, t)) <=> i <= k

(* The line l ends with is the last one of a round, before one of round r. *)
EndsRound(l, r) ==
  /\ l # << >> /\ l[Len(l)].event_type \in DomainTypes
  /\ l[Len(l)].logical_time = r - 1

(* A seal names a reason of the runner, and one of a policy names the next *)
(* agent that was to propose.                                              *)
SealTells(l) ==
  LET seal == l[Len(l)] IN
  seal.event_type = "RunFailed" =>
    /\ seal.reason \in Reasons /\ seal.reason.kind # "unrecorded"
    /\ seal.reason.kind \in PolicyErrors =>
         ProposedUpTo(l, seal.logical_time, seal.reason.agent - 1)

InStep(l, x) ==
  /\ InOrderOfTime(l) /\ ProposeOnce(l)
  /\ \A k \in 1 .. Len(l) : l[k].logical_time <= Clock(x)

Placed(l, c, x) ==
  LET r == x.state.round IN
  /\ x.pc = "start" => r = 0
  /\ x.pc \in {"checkpoint", "announce"} => ~ Ends(c, x.state)
  /\ x.pc = "checkpoint" => EndsRound(l, r) /\ l[Len(l)].run_id = c.run_id
  /\ x.pc = "loop" /\ Ends(c, x.state) /\ l[Len(l)].run_id = c.run_id => EndsRound(l, r)
  /\ x.pc \in {"start", "loop", "observe", "checkpoint", "announce"} => ProposedUpTo(l, r, 0)
  /\ x.pc = "propose" => ProposedUpTo(l, r, x.turn - 1)
  /\ x.pc \in {"validate", "rejected"} => ProposedUpTo(l, r, x.turn)
  /\ x.pc = "rejected" => x.proposal = None
  /\ x.pc = "fail" =>
       /\ x.failure \in Reasons /\ x.failure.kind # "unrecorded"
       /\ x.failure.kind \in PolicyErrors => ProposedUpTo(l, r, x.failure.agent - 1)
  /\ x.pc = "failed" => l # << >> /\ SealTells(l)
  /\ x.pc = "completed" => l # << >> /\ l[Len(l)].event_type = "RunCompleted"

Timely(l, c, x) == InStep(l, x) /\ Placed(l, c, x)

LEMMA LocalsTyped ==
  ASSUME NEW x \in Locals
  PROVE  /\ x.turn \in Nat \ {0} /\ x.state \in States /\ x.state.round \in Nat
         /\ Clock(x) \in Nat
BY DEF Locals, States, Clock

(* What a line says, by the place it is written from *)
LEMMA LineSays ==
  ASSUME NEW c \in Configs, NEW n, NEW x \in Locals, NEW e, NEW y \in Locals,
         Writes(c, n, x, e, y), x.pc = "start" => x.state.round = 0
  PROVE  /\ e.run_id = c.run_id /\ e.logical_time = Clock(x)
         /\ y.state.round = x.state.round /\ Clock(y) >= Clock(x)
         /\ x.pc # "propose" => e.event_type # "ActionProposed"
         /\ x.pc = "propose" =>
              /\ e.event_type = "ActionProposed" /\ e.agent = x.turn
              /\ e.logical_time = x.state.round /\ y.pc = "validate" /\ y.turn = x.turn
              /\ e.action \in Actions /\ y.proposal = e.action
<1>1. x.state.round \in Nat /\ Clock(x) \in Nat /\ Clock(y) \in Nat
  BY LocalsTyped
<1> USE DEF Line, Entry, Having, At, AtTurn, Advanced, Clock
<1>2. CASE x.pc \in {"start", "loop", "observe"}
  <2>1. Published(x.state).round = x.state.round
    BY LocalsTyped, PublishedTyped
  <2> QED
    BY <1>1, <1>2, <2>1 DEF Writes, Entered
<1>3. CASE x.pc = "propose"
  BY <1>1, <1>3 DEF Writes
<1>4. CASE x.pc \in {"validate", "rejected"}
  BY <1>1, <1>4 DEF Writes, Accepts
<1>5. CASE x.pc = "domain"
  <2>1. DomainEventTypes[x.turn] # "ActionProposed"
    BY <1>5, DomainEventAssumption, ElementOfSeq DEF Locals
  <2> QED
    BY <1>1, <1>5, <2>1 DEF Writes
<1>6. CASE x.pc \in {"announce", "fail", "complete"}
  BY <1>1, <1>6 DEF Writes
<1> QED
  BY <1>2, <1>3, <1>4, <1>5, <1>6 DEF Writes

(* A step that writes nothing leaves the clock alone. *)
LEMMA QuietTimely ==
  ASSUME NEW l, NEW c \in Configs, NEW x \in Locals, NEW y, Timely(l, c, x), Silently(c, x, y)
  PROVE  Timely(l, c, y)
<1>1. x.state \in States /\ x.state.round \in Nat
  BY LocalsTyped
<1> USE DEF Having, At, Clock
<1>2. CASE x.pc = "loop" /\ ~ Ends(c, x.state) /\ ~ Opens(x.state) /\ y = Entered(x)
  <2>1. Published(x.state).round = x.state.round
    BY <1>1, PublishedTyped
  <2> QED
    BY <1>2, <2>1 DEF Timely, InStep, Placed, Entered
<1>3. CASE x.pc = "loop" /\ Ends(c, x.state) /\ y = At(x, "complete")
  BY <1>3 DEF Timely, InStep, Placed
<1>4. ASSUME NEW kind \in {"invalid_action", "fallback_illegal"}, x.pc = "rejected",
             y = Failing(x, [kind |-> kind, agent |-> x.turn])
      PROVE  Timely(l, c, y)
  <2>1. x.turn \in Agents
    BY <1>4 DEF Locals
  <2>2. y.pc = "fail" /\ y.state = x.state /\ y.failure = [kind |-> kind, agent |-> x.turn]
    BY <1>4 DEF Failing
  <2>3. y.failure \in Reasons /\ y.failure.kind = kind
    BY <2>1, <2>2 DEF Reasons
  <2>4. kind # "unrecorded" /\ kind \notin PolicyErrors
    BY DEF PolicyErrors
  <2> QED
    BY <1>4, <2>2, <2>3, <2>4 DEF Timely, InStep, Placed
<1>5. CASE /\ x.pc = "resolve"
           /\ y = Having("domain", 1, x.proposal, x.accepted, x.failure,
                         Resolved(x.state, x.accepted))
  <2>1. Resolved(x.state, x.accepted).round = x.state.round + 1
    BY <1>1 DEF Resolved, States
  <2> QED
    BY <1>1, <1>5, <2>1 DEF Timely, InStep, Placed
<1>6. CASE x.pc = "checkpoint" /\ y = At(x, "announce")
  BY <1>6 DEF Timely, InStep, Placed
<1>7. ASSUME NEW kind \in PolicyErrors, Raises(x, kind, y) PROVE Timely(l, c, y)
  <2>1. x.pc = "propose" /\ x.turn \in Agents
    BY <1>7 DEF Raises, Locals
  <2>2. y.pc = "fail" /\ y.state = x.state /\ y.failure = [kind |-> kind, agent |-> x.turn]
    BY <1>7 DEF Raises, Failing
  <2>3. y.failure \in Reasons /\ y.failure.kind # "unrecorded" /\ y.failure.agent = x.turn
    BY <2>1, <2>2 DEF Reasons, PolicyErrors
  <2> QED
    BY <2>1, <2>2, <2>3 DEF Timely, InStep, Placed
<1> QED
  BY <1>2, <1>3, <1>4, <1>5, <1>6, <1>7 DEF Silently, Quiet

(* What an appended line adds to the times and the proposals of a ledger *)
LEMMA LineTimely ==
  ASSUME NEW l \in Seq(Events), NEW e \in Events, InOrderOfTime(l), ProposeOnce(l),
         \A k \in 1 .. Len(l) : l[k].logical_time <= e.logical_time,
         ~ \E k \in 1 .. Len(l) : /\ e.event_type = "ActionProposed"
                                 /\ ProposalAt(l, k, e.agent, e.logical_time)
  PROVE  LET m == Append(l, e) IN
         /\ Len(m) = Len(l) + 1 /\ m # << >> /\ m[Len(m)] = e
         /\ InOrderOfTime(m) /\ ProposeOnce(m)
         /\ \A k \in 1 .. Len(m) : m[k].logical_time <= e.logical_time
         /\ \A t, i : e.event_type # "ActionProposed" /\ ProposedUpTo(l, t, i)
                       => ProposedUpTo(m, t, i)
<1> DEFINE m == Append(l, e)
           n == Len(l)
<1>1. /\ n \in Nat /\ Len(m) = n + 1 /\ m \in Seq(Events) /\ m[n + 1] = e
      /\ \A k \in 1 .. n : m[k] = l[k] /\ l[k].logical_time \in Nat
      /\ e.logical_time \in Nat
  <2>1. \A k \in 1 .. n : l[k] \in Events
    BY ElementOfSeq
  <2> QED
    BY <2>1, AppendProperties, LenProperties DEF Events
<1> HIDE DEF m, n
<1>2. m # << >> /\ m[Len(m)] = e
  BY <1>1, EmptySeq
<1>3. \A k \in 1 .. Len(m) : m[k].logical_time <= e.logical_time /\ m[k].logical_time \in Nat
  <2> SUFFICES ASSUME NEW k \in 1 .. Len(m)
               PROVE  m[k].logical_time <= e.logical_time /\ m[k].logical_time \in Nat
    OBVIOUS
  <2>1. CASE k = n + 1
    BY <1>1, <2>1
  <2>2. CASE k # n + 1
    <3>1. k \in 1 .. n
      BY <1>1, <2>2
    <3> QED
      BY <1>1, <3>1 DEF n
  <2> QED
    BY <2>1, <2>2
<1>4. InOrderOfTime(m)
  <2> SUFFICES ASSUME NEW i \in 1 .. Len(m), NEW j \in 1 .. Len(m), i <= j
               PROVE  m[i].logical_time <= m[j].logical_time
    BY DEF InOrderOfTime
  <2>1. CASE j = n + 1
    BY <1>1, <1>3, <2>1
  <2>2. CASE j # n + 1
    <3>1. i \in 1 .. n /\ j \in 1 .. n
      BY <1>1, <2>2
    <3> QED
      BY <1>1, <3>1 DEF InOrderOfTime, n
  <2> QED
    BY <2>1, <2>2
<1>5. \A k \in 1 .. n : \A i, t : ProposalAt(m, k, i, t) <=> ProposalAt(l, k, i, t)
  BY <1>1 DEF ProposalAt
<1>6. \A i, t : ProposalAt(m, n + 1, i, t) <=>
        e.event_type = "ActionProposed" /\ e.agent = i /\ e.logical_time = t
  BY <1>1 DEF ProposalAt
<1>7. ProposeOnce(m)
  <2> SUFFICES ASSUME NEW j \in 1 .. Len(m), NEW k \in 1 .. Len(m),
                      ProposalAt(m, j, m[j].agent, m[j].logical_time),
                      ProposalAt(m, k, m[j].agent, m[j].logical_time)
               PROVE  j = k
    BY DEF ProposeOnce
  <2>1. ~ \E i \in 1 .. n : e.event_type = "ActionProposed" /\ ProposalAt(l, i, e.agent, e.logical_time)
    BY DEF n
  <2>2. CASE j = n + 1 /\ k # n + 1
    <3>1. k \in 1 .. n /\ m[j] = e
      BY <1>1, <2>2
    <3> QED
      BY <1>5, <1>6, <2>1, <2>2, <3>1
  <2>3. CASE j # n + 1 /\ k = n + 1
    <3>1. j \in 1 .. n
      BY <1>1, <2>3
    <3>2. e.event_type = "ActionProposed" /\ e.agent = m[j].agent
          /\ e.logical_time = m[j].logical_time
      BY <1>6, <2>3
    <3> QED
      BY <1>5, <2>1, <3>1, <3>2
  <2>4. CASE j # n + 1 /\ k # n + 1
    <3>1. j \in 1 .. n /\ k \in 1 .. n /\ m[j] = l[j]
      BY <1>1, <2>4
    <3> QED
      BY <1>5, <3>1 DEF ProposeOnce, n
  <2> QED
    BY <2>2, <2>3, <2>4
<1>8. ASSUME NEW t, NEW i, e.event_type # "ActionProposed", ProposedUpTo(l, t, i)
      PROVE  ProposedUpTo(m, t, i)
  <2> SUFFICES ASSUME NEW a \in Agents
               PROVE  (\E k \in 1 .. Len(m) : ProposalAt(m, k, a, t)) <=> a <= i
    BY DEF ProposedUpTo
  <2>1. (\E k \in 1 .. n : ProposalAt(l, k, a, t)) <=> a <= i
    BY <1>8 DEF ProposedUpTo, n
  <2>2. ~ ProposalAt(m, n + 1, a, t)
    BY <1>6, <1>8
  <2>3. \A k \in 1 .. Len(m) : k = n + 1 \/ k \in 1 .. n
    BY <1>1
  <2>4. \A k \in 1 .. n : k \in 1 .. Len(m)
    BY <1>1
  <2> QED
    BY <1>5, <2>1, <2>2, <2>3, <2>4
<1> QED
  BY <1>1, <1>2, <1>3, <1>4, <1>7, <1>8 DEF m, n

LEMMA ProposalLineTimely ==
  ASSUME NEW l \in Seq(Events), NEW e \in Events, NEW i \in Agents, NEW t,
         e.event_type = "ActionProposed", e.agent = i, e.logical_time = t,
         ProposedUpTo(l, t, i - 1)
  PROVE  /\ ~ \E k \in 1 .. Len(l) : ProposalAt(l, k, i, t)
         /\ ProposedUpTo(Append(l, e), t, i)
<1> DEFINE m == Append(l, e)
           n == Len(l)
<1>1. /\ n \in Nat /\ Len(m) = n + 1 /\ m[n + 1] = e /\ \A k \in 1 .. n : m[k] = l[k]
  BY AppendProperties, LenProperties
<1> HIDE DEF m, n
<1>2. \A a \in Agents : (\E k \in 1 .. n : ProposalAt(l, k, a, t)) <=> a <= i - 1
  BY DEF ProposedUpTo, n
<1>3. \A k \in 1 .. n : \A a : ProposalAt(m, k, a, t) <=> ProposalAt(l, k, a, t)
  BY <1>1 DEF ProposalAt
<1>4. \A a : ProposalAt(m, n + 1, a, t) <=> a = i
  BY <1>1 DEF ProposalAt
<1>5. ~ \E k \in 1 .. Len(l) : ProposalAt(l, k, i, t)
  BY <1>2, SizeAssumption DEF n, Agents
<1>6. ProposedUpTo(m, t, i)
  <2> SUFFICES ASSUME NEW a \in Agents
               PROVE  (\E k \in 1 .. Len(m) : ProposalAt(m, k, a, t)) <=> a <= i
    BY DEF ProposedUpTo
  <2>1. \A k \in 1 .. Len(m) : k = n + 1 \/ k \in 1 .. n
    BY <1>1
  <2>2. n + 1 \in 1 .. Len(m) /\ \A k \in 1 .. n : k \in 1 .. Len(m)
    BY <1>1
  <2>3. a <= i <=> a <= i - 1 \/ a = i
    BY DEF Agents
  <2> QED
    BY <1>2, <1>3, <1>4, <2>1, <2>2, <2>3
<1> QED
  BY <1>5, <1>6 DEF m

LEMMA TimesAreNumbers ==
  ASSUME NEW l \in Seq(Events)
  PROVE  \A k \in 1 .. Len(l) : l[k].logical_time \in Nat
<1> SUFFICES ASSUME NEW k \in 1 .. Len(l) PROVE l[k].logical_time \in Nat
  OBVIOUS
<1>1. l[k] \in Events
  BY ElementOfSeq
<1> QED
  BY <1>1 DEF Events

(* Nobody has proposed at a time later than every line. *)
LEMMA NoneProposedLater ==
  ASSUME NEW l \in Seq(Events), NEW t \in Nat,
         \A k \in 1 .. Len(l) : l[k].logical_time < t
  PROVE  ProposedUpTo(l, t, 0)
<1>1. \A k \in 1 .. Len(l) : l[k].logical_time \in Nat
  BY TimesAreNumbers
<1> QED
  BY <1>1, SizeAssumption DEF ProposedUpTo, ProposalAt, Agents

LEMMA WritesTimely ==
  ASSUME NEW l \in Seq(Events), NEW c \in Configs, c.stop_round = MaxRounds,
         NEW x \in Locals, NEW e \in Events, NEW y \in Locals,
         Timely(l, c, x), Writes(c, Len(l), x, e, y)
  PROVE  Timely(Append(l, e), c, y)
<1>1. x.state \in States /\ x.state.round \in Nat /\ Clock(x) \in Nat /\ Clock(y) \in Nat
  BY LocalsTyped
<1>2. /\ e.run_id = c.run_id /\ e.logical_time = Clock(x)
      /\ y.state.round = x.state.round /\ Clock(y) >= Clock(x)
      /\ x.pc # "propose" => e.event_type # "ActionProposed"
      /\ x.pc = "propose" =>
           /\ e.event_type = "ActionProposed" /\ e.agent = x.turn
           /\ e.logical_time = x.state.round /\ y.pc = "validate" /\ y.turn = x.turn
  BY LineSays DEF Timely, Placed
<1> DEFINE m == Append(l, e)
           r == x.state.round
<1>3. x.pc = "propose" =>
        /\ ~ \E k \in 1 .. Len(l) : ProposalAt(l, k, e.agent, e.logical_time)
        /\ ProposedUpTo(m, r, x.turn)
  BY <1>2, ProposalLineTimely DEF Timely, Placed, Locals
<1>4. /\ Len(m) = Len(l) + 1 /\ m # << >> /\ m[Len(m)] = e
      /\ InOrderOfTime(m) /\ ProposeOnce(m)
      /\ \A k \in 1 .. Len(m) : m[k].logical_time <= e.logical_time
      /\ \A t, i : e.event_type # "ActionProposed" /\ ProposedUpTo(l, t, i)
                    => ProposedUpTo(m, t, i)
  <2>1. /\ InOrderOfTime(l) /\ ProposeOnce(l)
        /\ \A k \in 1 .. Len(l) : l[k].logical_time <= e.logical_time
    BY <1>2 DEF Timely, InStep
  <2>2. ~ \E k \in 1 .. Len(l) : /\ e.event_type = "ActionProposed"
                                 /\ ProposalAt(l, k, e.agent, e.logical_time)
    BY <1>2, <1>3
  <2> QED
    BY <2>1, <2>2, LineTimely
<1> HIDE DEF m
<1>5. InStep(m, y)
  <2>1. e.logical_time <= Clock(y) /\ m \in Seq(Events)
    BY <1>1, <1>2, AppendProperties DEF m
  <2>2. \A k \in 1 .. Len(m) : m[k].logical_time \in Nat
    BY <2>1, TimesAreNumbers
  <2> QED
    BY <1>1, <1>2, <1>4, <2>1, <2>2 DEF InStep
<1>14. SUFFICES Placed(m, c, y)
  BY <1>5 DEF Timely, m
<1>15. Placed(l, c, x)
  BY DEF Timely
<1> USE DEF Line, Entry, Having, At, AtTurn, Advanced
<1>6. CASE x.pc \in {"start", "loop"}
  <2>1. ProposedUpTo(m, r, 0)
    BY <1>15, <1>2, <1>4, <1>6 DEF Placed
  <2>2. CASE x.pc = "start"
    <3>1. y = At(x, "loop") /\ r = 0 /\ ~ Ends(c, y.state)
      BY <1>15, <1>6, <2>2, SizeAssumption DEF Writes, Placed, Ends
    <3> QED
      BY <1>15, <1>4, <2>1, <3>1 DEF Placed
  <2>3. CASE x.pc = "loop"
    BY <1>15, <1>2, <1>4, <1>6, <2>1, <2>3 DEF Writes, Placed, Entered
  <2> QED
    BY <1>6, <2>2, <2>3
<1>7. CASE x.pc = "observe"
  <2>1. ProposedUpTo(m, r, 0)
    BY <1>15, <1>2, <1>4, <1>7 DEF Placed
  <2>2. CASE x.turn < NumAgents
    BY <1>15, <1>4, <1>7, <2>1, <2>2 DEF Writes, Placed
  <2>3. CASE ~ x.turn < NumAgents
    <3>1. y = AtTurn(x, "propose", 1) /\ y.turn - 1 = 0
      BY <1>7, <2>3 DEF Writes
    <3> QED
      BY <1>15, <1>4, <2>1, <3>1 DEF Placed
  <2> QED
    BY <2>2, <2>3
<1>8. CASE x.pc = "propose"
  BY <1>15, <1>2, <1>3, <1>4, <1>8 DEF Placed
<1>9. CASE x.pc \in {"validate", "rejected"}
  <2>1. ProposedUpTo(m, r, x.turn) /\ x.turn \in Nat
    BY <1>15, <1>2, <1>4, <1>9, LocalsTyped DEF Placed
  <2>2. ASSUME NEW action, Accepts(c, x, action, e, y) PROVE Placed(m, c, y)
    <3>1. CASE x.turn < NumAgents
      <4>1. y.pc = "propose" /\ y.turn - 1 = x.turn
        BY <2>1, <2>2, <3>1 DEF Accepts
      <4> QED
        BY <1>15, <1>2, <1>4, <2>1, <4>1 DEF Placed
    <3>2. CASE ~ x.turn < NumAgents
      <4>1. y.pc = "resolve"
        BY <2>2, <3>2 DEF Accepts
      <4> QED
        BY <1>15, <1>4, <4>1 DEF Placed
    <3> QED
      BY <3>1, <3>2
  <2>3. CASE y = Having("rejected", x.turn, None, x.accepted, x.failure, x.state)
    BY <1>15, <1>4, <2>1, <2>3 DEF Placed
  <2> QED
    BY <1>9, <2>2, <2>3 DEF Writes
<1>10. CASE x.pc = "domain"
  <2>1. Clock(x) = r - 1 /\ x.turn \in 1 .. Len(DomainEventTypes)
    BY <1>10 DEF Clock, Locals
  <2>2. e.event_type \in DomainTypes
    <3>1. DomainEventTypes[x.turn] \in {"WorldTransitioned", "RewardAssigned"}
      BY <2>1, DomainEventAssumption, ElementOfSeq
    <3> QED
      BY <1>10, <3>1 DEF Writes, DomainTypes
  <2>3. EndsRound(m, r) /\ m[Len(m)].run_id = c.run_id
    BY <1>2, <1>4, <2>1, <2>2 DEF EndsRound
  <2>4. ProposedUpTo(m, r, 0)
    <3>1. m \in Seq(Events) /\ \A k \in 1 .. Len(m) : m[k].logical_time \in Nat
      BY AppendProperties, TimesAreNumbers DEF m
    <3>2. \A k \in 1 .. Len(m) : m[k].logical_time < r
      BY <1>1, <1>2, <1>4, <2>1, <3>1
    <3> QED
      BY <1>1, <3>1, <3>2, NoneProposedLater
  <2>5. CASE x.turn < Len(DomainEventTypes)
    <3>1. y.pc = "domain"
      BY <1>10, <2>5 DEF Writes
    <3> QED
      BY <1>15, <1>4, <3>1 DEF Placed
  <2>6. CASE ~ x.turn < Len(DomainEventTypes)
    <3>1. /\ y.pc = IF Cadence(c, x.state) /\ ~ Ends(c, x.state) THEN "checkpoint" ELSE "loop"
          /\ y.state = x.state
      BY <1>10, <2>6 DEF Writes
    <3> QED
      BY <1>15, <1>4, <2>3, <2>4, <3>1 DEF Placed
  <2> QED
    BY <2>5, <2>6
<1>11. CASE x.pc = "announce"
  <2>1. ProposedUpTo(m, r, 0) /\ ~ Ends(c, x.state)
    BY <1>15, <1>2, <1>4, <1>11 DEF Placed
  <2>2. y.pc = "loop" /\ y.state = x.state
    BY <1>11 DEF Writes
  <2> QED
    BY <1>15, <1>4, <2>1, <2>2 DEF Placed
<1>12. CASE x.pc = "fail"
  <2>1. /\ y.pc = "failed" /\ e.reason = x.failure /\ e.logical_time = r
        /\ e.event_type # "ActionProposed"
    BY <1>2, <1>12 DEF Writes, Clock
  <2>2. /\ x.failure \in Reasons /\ x.failure.kind # "unrecorded"
        /\ x.failure.kind \in PolicyErrors => ProposedUpTo(m, r, x.failure.agent - 1)
    BY <1>15, <1>4, <1>12, <2>1 DEF Placed
  <2>3. SealTells(m)
    BY <1>4, <2>1, <2>2 DEF SealTells
  <2> QED
    BY <1>15, <1>4, <2>1, <2>3 DEF Placed
<1>13. CASE x.pc = "complete"
  <2>1. y.pc = "completed" /\ e.event_type = "RunCompleted"
    BY <1>13 DEF Writes
  <2> QED
    BY <1>15, <1>4, <2>1 DEF Placed
<1> QED
  BY <1>6, <1>7, <1>8, <1>9, <1>10, <1>11, <1>12, <1>13 DEF Writes

-----------------------------------------------------------------------------
(* The trace of a ledger *)

(* A run as the ancestor id of it was configured *)
As(cfg, id) == [cfg EXCEPT !.run_id = id]

(* The id of the run that writes, or is to write, the line after the k-th *)
IdAfter(l, cfg, k) == IF k < Len(l) THEN l[k + 1].run_id ELSE cfg.run_id

(* Between two rounds, after the line e, where a checkpoint is taken *)
AtBoundary(y, e) ==
  /\ y.pc \in {"loop", "checkpoint"}
  /\ e.event_type \in DomainTypes /\ e.logical_time = y.state.round - 1

(* The locals a run has when k lines are written and Y[k] are those left   *)
(* by the writer of the last: where another run goes on, it starts afresh. *)
Reached(l, cfg, Y, k) ==
  IF k = 0 THEN Fresh("start", InitialState)
  ELSE IF IdAfter(l, cfg, k) = l[k].run_id THEN Y[k] ELSE Fresh("loop", Y[k].state)

Goes(c, x, z) == z = x \/ Silently(c, x, z)

Traced(l, cfg, Z, Y, k) ==
  LET c == As(cfg, l[k].run_id) IN
  /\ Goes(c, Reached(l, cfg, Y, k - 1), Z[k])
  /\ Z[k].pc = "start" => Z[k].state.round = 0
  /\ Writes(c, k - 1, Z[k], l[k], Y[k])
  /\ IdAfter(l, cfg, k) # l[k].run_id => AtBoundary(Y[k], l[k])

(* Z and Y are the locals line by line, before and after it is written. *)
Trace(l, cfg, Z, Y) ==
  /\ Z \in [1 .. Len(l) -> Locals] /\ Y \in [1 .. Len(l) -> Locals]
  /\ \A k \in 1 .. Len(l) : Traced(l, cfg, Z, Y, k)

(* A checkpoint of the run has the state of its boundary. *)
Marks(l, cfg, files, Y) ==
  \A seq \in DOMAIN files :
    l[seq + 1].run_id = cfg.run_id =>
      AtBoundary(Y[seq + 1], l[seq + 1]) /\ Y[seq + 1].state = files[seq].state

Extended(F, n, v) == [k \in 1 .. n + 1 |-> IF k = n + 1 THEN v ELSE F[k]]
Cut(F, n) == [k \in 1 .. n |-> F[k]]

LEMMA AsTyped ==
  ASSUME NEW cfg \in Configs, NEW id \in RunIds
  PROVE  /\ As(cfg, id) \in Configs /\ As(cfg, id).run_id = id
         /\ As(cfg, id).stop_round = cfg.stop_round
         /\ As(cfg, id).checkpoint_every = cfg.checkpoint_every
         /\ As(cfg, id).invalid_action_policy = cfg.invalid_action_policy
         /\ As(cfg, cfg.run_id) = cfg
         /\ \A other \in RunIds : As(As(cfg, other), id) = As(cfg, id)
BY DEF As, Configs

LEMMA TraceExtends ==
  ASSUME NEW l \in Seq(Events), NEW cfg \in Configs, NEW Z, NEW Y, Trace(l, cfg, Z, Y),
         NEW x \in Locals, NEW y \in Locals, NEW e \in Events, e.run_id = cfg.run_id,
         Goes(cfg, Reached(l, cfg, Y, Len(l)), x), x.pc = "start" => x.state.round = 0,
         Writes(cfg, Len(l), x, e, y)
  PROVE  LET m == Append(l, e) n == Len(l) W == Extended(Y, n, y) IN
         /\ Trace(m, cfg, Extended(Z, n, x), W)
         /\ Reached(m, cfg, W, n + 1) = y
<1> DEFINE m == Append(l, e)
           n == Len(l)
           V == Extended(Z, n, x)
           W == Extended(Y, n, y)
<1>1. /\ n \in Nat /\ Len(m) = n + 1 /\ m[n + 1] = e /\ \A k \in 1 .. n : m[k] = l[k]
  BY AppendProperties, LenProperties
<1>2. Z \in [1 .. n -> Locals] /\ Y \in [1 .. n -> Locals]
  BY DEF Trace
<1>3. /\ V \in [1 .. n + 1 -> Locals] /\ V[n + 1] = x /\ \A k \in 1 .. n : V[k] = Z[k]
      /\ W \in [1 .. n + 1 -> Locals] /\ W[n + 1] = y /\ \A k \in 1 .. n : W[k] = Y[k]
  BY <1>1, <1>2 DEF Extended
<1>4. \A k \in 1 .. n : Traced(l, cfg, Z, Y, k)
  BY DEF Trace
<1>5. Goes(cfg, Reached(l, cfg, Y, n), x) /\ Writes(cfg, n, x, e, y)
  OBVIOUS
<1>6. l = SubSeq(l, 1, n) /\ n = Len(l)
  BY SubSeqFull
<1> HIDE DEF m, V, W
<1>7. \A k \in 1 .. n : IdAfter(m, cfg, k) = IdAfter(l, cfg, k)
  <2> SUFFICES ASSUME NEW k \in 1 .. n PROVE IdAfter(m, cfg, k) = IdAfter(l, cfg, k)
    OBVIOUS
  <2>1. CASE k < n
    <3>1. k + 1 \in 1 .. n /\ k < n + 1
      BY <1>1, <2>1
    <3> QED
      BY <1>1, <2>1, <3>1 DEF IdAfter
  <2>2. CASE k = n
    BY <1>1, <2>2 DEF IdAfter
  <2> QED
    BY <1>1, <2>1, <2>2
<1>8. \A k \in 0 .. n : Reached(m, cfg, W, k) = Reached(l, cfg, Y, k)
  <2> SUFFICES ASSUME NEW k \in 0 .. n PROVE Reached(m, cfg, W, k) = Reached(l, cfg, Y, k)
    OBVIOUS
  <2>1. CASE k = 0
    BY <2>1 DEF Reached
  <2>2. CASE k # 0
    <3>1. k \in 1 .. n
      BY <1>1, <2>2
    <3> QED
      BY <1>1, <1>3, <1>7, <3>1 DEF Reached
  <2> QED
    BY <2>1, <2>2
<1>9. IdAfter(m, cfg, n + 1) = e.run_id /\ Reached(m, cfg, W, n + 1) = y
  BY <1>1, <1>3 DEF IdAfter, Reached
<1>10. ASSUME NEW k \in 1 .. n + 1 PROVE Traced(m, cfg, V, W, k)
  <2>1. CASE k = n + 1
    <3>1. As(cfg, m[k].run_id) = cfg /\ k - 1 = n /\ m[k] = e
      BY <1>1, <2>1, AsTyped DEF Configs
    <3>2. Reached(m, cfg, W, n) = Reached(l, cfg, Y, n)
      BY <1>1, <1>8
    <3> QED
      BY <1>3, <1>5, <1>9, <2>1, <3>1, <3>2 DEF Traced
  <2>2. CASE k # n + 1
    <3>1. k \in 1 .. n /\ k - 1 \in 0 .. n
      BY <1>1, <2>2
    <3>2. Reached(m, cfg, W, k - 1) = Reached(l, cfg, Y, k - 1)
      BY <1>8, <3>1
    <3>3. m[k] = l[k] /\ V[k] = Z[k] /\ W[k] = Y[k] /\ IdAfter(m, cfg, k) = IdAfter(l, cfg, k)
      BY <1>1, <1>3, <1>7, <3>1
    <3> QED
      BY <1>4, <3>1, <3>2, <3>3 DEF Traced
  <2> QED
    BY <2>1, <2>2
<1>11. Trace(m, cfg, V, W)
  BY <1>1, <1>3, <1>10 DEF Trace
<1> QED
  BY <1>9, <1>11 DEF m, V, W

LEMMA TraceForks ==
  ASSUME NEW l \in Seq(Events), NEW cfg \in Configs, NEW Z, NEW Y, Trace(l, cfg, Z, Y),
         NEW n \in 1 .. Len(l) - 1, NEW child \in RunIds, child # cfg.run_id,
         l[n].run_id = cfg.run_id, AtBoundary(Y[n], l[n])
  PROVE  LET m == SubSeq(l, 1, n) IN
         /\ Trace(m, As(cfg, child), Cut(Z, n), Cut(Y, n))
         /\ Reached(m, As(cfg, child), Cut(Y, n), n) = Fresh("loop", Y[n].state)
<1> DEFINE m == SubSeq(l, 1, n)
           V == Cut(Z, n)
           W == Cut(Y, n)
           own == As(cfg, child)
<1>1. /\ Len(l) \in Nat /\ Len(m) = n /\ \A k \in 1 .. n : m[k] = l[k] /\ l[k].run_id \in RunIds
  <2>1. Len(l) \in Nat /\ \A k \in 1 .. Len(l) : l[k] \in Events
    BY LenProperties, ElementOfSeq
  <2>2. \A k \in 1 .. n : l[k] \in Events
    BY <2>1
  <2> QED
    BY <2>1, <2>2, SubSeqProperties DEF Events
<1>2. own \in Configs /\ own.run_id = child /\ \A id \in RunIds : As(own, id) = As(cfg, id)
  BY AsTyped
<1>3. Z \in [1 .. Len(l) -> Locals] /\ Y \in [1 .. Len(l) -> Locals]
      /\ \A k \in 1 .. Len(l) : Traced(l, cfg, Z, Y, k)
  BY DEF Trace
<1>4. /\ V \in [1 .. n -> Locals] /\ \A k \in 1 .. n : V[k] = Z[k]
      /\ W \in [1 .. n -> Locals] /\ \A k \in 1 .. n : W[k] = Y[k]
  BY <1>1, <1>3 DEF Cut
<1> HIDE DEF m, V, W, own
<1>5. \A k \in 1 .. n - 1 : IdAfter(m, own, k) = IdAfter(l, cfg, k)
  <2> SUFFICES ASSUME NEW k \in 1 .. n - 1 PROVE IdAfter(m, own, k) = IdAfter(l, cfg, k)
    OBVIOUS
  <2>1. k + 1 \in 1 .. n /\ k < n /\ k < Len(l)
    BY <1>1
  <2> QED
    BY <1>1, <2>1 DEF IdAfter
<1>6. IdAfter(m, own, n) = child
  BY <1>1, <1>2 DEF IdAfter
<1>7. Reached(m, own, W, n) = Fresh("loop", Y[n].state)
  BY <1>1, <1>4, <1>6 DEF Reached
<1>8. \A k \in 0 .. n - 1 : Reached(m, own, W, k) = Reached(l, cfg, Y, k)
  <2> SUFFICES ASSUME NEW k \in 0 .. n - 1 PROVE Reached(m, own, W, k) = Reached(l, cfg, Y, k)
    OBVIOUS
  <2>1. CASE k = 0
    BY <2>1 DEF Reached
  <2>2. CASE k # 0
    <3>1. k \in 1 .. n - 1 /\ k \in 1 .. n
      BY <1>1, <2>2
    <3> QED
      BY <1>1, <1>4, <1>5, <3>1 DEF Reached
  <2> QED
    BY <2>1, <2>2
<1>9. ASSUME NEW k \in 1 .. n PROVE Traced(m, own, V, W, k)
  <2>1. k - 1 \in 0 .. n - 1 /\ k \in 1 .. Len(l)
    BY <1>1
  <2>2. Reached(m, own, W, k - 1) = Reached(l, cfg, Y, k - 1)
    BY <1>8, <2>1
  <2>3. m[k] = l[k] /\ V[k] = Z[k] /\ W[k] = Y[k] /\ As(own, m[k].run_id) = As(cfg, l[k].run_id)
    BY <1>1, <1>2, <1>4
  <2>4. IdAfter(m, own, k) # m[k].run_id => AtBoundary(W[k], m[k])
    <3>1. CASE k = n
      BY <2>3, <3>1
    <3>2. CASE k # n
      <4>1. k \in 1 .. n - 1
        BY <1>1, <3>2
      <4> QED
        BY <1>3, <1>5, <2>1, <2>3, <4>1 DEF Traced
    <3> QED
      BY <3>1, <3>2
  <2> QED
    BY <1>3, <2>1, <2>2, <2>3, <2>4 DEF Traced
<1>10. Trace(m, own, V, W)
  BY <1>1, <1>4, <1>9 DEF Trace
<1> QED
  BY <1>7, <1>10 DEF m, V, W, own

-----------------------------------------------------------------------------
(* Every live run leaves a trace, and so does every filed one. *)

LiveTrace ==
  /\ config.stop_round = MaxRounds
  /\ Timely(ledger, config, Now)
  /\ \E Z, Y : /\ Trace(ledger, config, Z, Y) /\ Marks(ledger, config, ckpts, Y)
               /\ Goes(config, Reached(ledger, config, Y, Len(ledger)), Now)

Retraceable(dir) ==
  /\ dir.config.stop_round = MaxRounds
  /\ InOrderOfTime(dir.ledger) /\ ProposeOnce(dir.ledger) /\ SealTells(dir.ledger)
  /\ \E Z, Y : /\ Trace(dir.ledger, dir.config, Z, Y)
               /\ Marks(dir.ledger, dir.config, dir.ckpts, Y)

LEMMA QuietPlaces ==
  ASSUME NEW c, NEW x, NEW y, Silently(c, x, y)
  PROVE  /\ x.pc \in {"loop", "propose", "rejected", "resolve", "checkpoint"}
         /\ y.pc \in {"observe", "complete", "fail", "domain", "announce"}
BY DEF Silently, Quiet, Raises, Entered, At, Failing, Having

(* No two steps in a row write nothing. *)
LEMMA QuietOnce ==
  ASSUME NEW c, NEW d, NEW x, NEW y, NEW z, Silently(c, x, y)
  PROVE  ~ Silently(d, y, z)
BY QuietPlaces

LEMMA LineAppended ==
  ASSUME NEW l \in Seq(Events), NEW e, Append(l, e) \in Seq(Events)
  PROVE  e \in Events
<1> DEFINE S == Events \cup {e}
<1>1. l \in Seq(S) /\ e \in S
  BY SeqMonotonic
<1> HIDE DEF S
<1>2. Append(l, e)[Len(l) + 1] = e /\ Len(Append(l, e)) = Len(l) + 1 /\ Len(l) \in Nat
  BY <1>1, AppendProperties, LenProperties
<1>3. Len(l) + 1 \in 1 .. Len(Append(l, e))
  BY <1>2
<1> QED
  BY <1>2, <1>3, ElementOfSeq

LEMMA LiveTraceStep ==
  ASSUME EpisodeInv, LiveTrace, EngineStep \/ PolicyStep
  PROVE  LiveTrace'
<1>1. EpisodeInv' /\ TypeOK /\ TypeOK' /\ Now \in Locals /\ Now' \in Locals
  <2>1. EpisodeInv'
    BY EpisodeStep DEF Next
  <2>2. TypeOK /\ ControlInv /\ TypeOK' /\ ControlInv'
    BY <2>1 DEF EpisodeInv
  <2>3. (TypeOK /\ ControlInv => Now \in Locals)'
    BY NowTyped, PTL
  <2> QED
    BY <2>1, <2>2, <2>3, NowTyped
<1>2. PICK l : l = ledger
  OBVIOUS
<1>3. PICK c : c = config
  OBVIOUS
<1>4. PICK x : x = Now
  OBVIOUS
<1>5. PICK y : y = Now'
  OBVIOUS
<1>6. /\ l \in Seq(Events) /\ Len(l) \in Nat /\ c \in Configs /\ x \in Locals /\ y \in Locals
      /\ c.stop_round = MaxRounds /\ Timely(l, c, x) /\ DOMAIN ckpts \subseteq 0 .. Len(l) - 1
      /\ ledger' \in Seq(Events)
  BY <1>1, <1>2, <1>3, <1>4, <1>5, LenProperties DEF TypeOK, LiveTrace, Configs
<1>7. PICK Z, Y : /\ Trace(l, c, Z, Y) /\ Marks(l, c, ckpts, Y)
                  /\ Goes(c, Reached(l, c, Y, Len(l)), x)
  BY <1>2, <1>3, <1>4 DEF LiveTrace
<1>8. /\ config' = c
      /\ \/ ledger' = l /\ Silently(c, x, y)
         \/ \E e : ledger' = Append(l, e) /\ Writes(c, Len(l), x, e, y)
      /\ IF x.pc = "checkpoint" \/ (x.pc = "loop" /\ Ends(c, x.state))
           THEN ledger' = l /\ ckpts' = WriteFile(ckpts, LastSeq, Snapshot(LastSeq, x.state))
           ELSE UNCHANGED ckpts
  <2>1. x.pc = pc /\ x.state = state /\ x.proposal = proposal
    BY <1>4 DEF Now, Having
  <2>2. CASE EngineStep \/ \E action \in Actions : Propose(action)
    <3>1. pc = "rejected" => proposal = None
      BY <1>6, <2>1 DEF Timely, Placed
    <3> QED
      BY <1>2, <1>3, <1>4, <1>5, <2>1, <2>2, <3>1, StepTraced DEF Silently
  <2>3. ASSUME NEW kind \in PolicyErrors, PolicyRaises(kind)
        PROVE  /\ config' = c /\ ledger' = l /\ Silently(c, x, y) /\ UNCHANGED ckpts
               /\ x.pc = "propose"
    BY <1>2, <1>3, <1>4, <1>5, <2>3, RaiseTraced DEF Silently, Raises
  <2> QED
    BY <2>2, <2>3 DEF PolicyStep
<1>9. CASE ledger' = l /\ Silently(c, x, y)
  <2>1. Timely(l, c, y)
    BY <1>6, <1>9, QuietTimely
  <2>2. x = Reached(l, c, Y, Len(l)) /\ Goes(c, Reached(l, c, Y, Len(l)), y)
    <3>1. x = Reached(l, c, Y, Len(l))
      BY <1>7, <1>9, QuietOnce DEF Goes
    <3> QED
      BY <1>9, <3>1 DEF Goes
  <2>3. Marks(l, c, ckpts', Y)
    <3>1. CASE x.pc = "checkpoint" \/ (x.pc = "loop" /\ Ends(c, x.state))
      <4>1. /\ LastSeq = Len(l) - 1 /\ LastSeq + 1 = Len(l)
            /\ ckpts' = WriteFile(ckpts, LastSeq, Snapshot(LastSeq, x.state))
        BY <1>2, <1>6, <1>8, <3>1 DEF LastSeq
      <4>2. ASSUME l[Len(l)].run_id = c.run_id
            PROVE  AtBoundary(Y[Len(l)], l[Len(l)]) /\ Y[Len(l)].state = x.state
        <5>1. EndsRound(l, x.state.round)
          BY <1>6, <3>1, <4>2 DEF Timely, Placed
        <5>2. Len(l) # 0
          BY <1>6, <5>1, EmptySeq DEF EndsRound
        <5>3. x = Y[Len(l)]
          BY <1>6, <2>2, <4>2, <5>2 DEF Reached, IdAfter
        <5> QED
          BY <3>1, <5>1, <5>3 DEF AtBoundary, EndsRound
      <4>3. Snapshot(LastSeq, x.state).state = x.state
        BY DEF Snapshot
      <4>4. \A seq \in DOMAIN ckpts' :
              IF seq = LastSeq THEN ckpts'[seq] = Snapshot(LastSeq, x.state)
              ELSE seq \in DOMAIN ckpts /\ ckpts'[seq] = ckpts[seq]
        BY <4>1 DEF WriteFile
      <4> QED
        BY <1>7, <4>1, <4>2, <4>3, <4>4 DEF Marks
    <3>2. CASE ~ (x.pc = "checkpoint" \/ (x.pc = "loop" /\ Ends(c, x.state)))
      BY <1>7, <1>8, <3>2
    <3> QED
      BY <3>1, <3>2
  <2> QED
    BY <1>5, <1>6, <1>7, <1>8, <1>9, <2>1, <2>2, <2>3 DEF LiveTrace
<1>10. ASSUME NEW e, ledger' = Append(l, e), Writes(c, Len(l), x, e, y) PROVE LiveTrace'
  <2>1. e \in Events
    BY <1>6, <1>10, LineAppended
  <2>2. Timely(Append(l, e), c, y)
    BY <1>6, <1>10, <2>1, WritesTimely
  <2>3. x.pc = "start" => x.state.round = 0
    BY <1>6 DEF Timely, Placed
  <2>4. e.run_id = c.run_id
    BY <1>6, <1>10, <2>3, LineSays
  <2> DEFINE m == Append(l, e)
             V == Extended(Z, Len(l), x)
             W == Extended(Y, Len(l), y)
  <2>5. Trace(m, c, V, W) /\ Reached(m, c, W, Len(l) + 1) = y
    BY <1>6, <1>7, <1>10, <2>1, <2>3, <2>4, TraceExtends
  <2>6. Len(m) = Len(l) + 1 /\ \A k \in 1 .. Len(l) : m[k] = l[k] /\ W[k] = Y[k]
    BY <1>6, <2>1, AppendProperties DEF Extended
  <2>7. ckpts' = ckpts
    <3>1. Len(m) # Len(l)
      BY <1>6, <2>6
    <3> QED
      BY <1>8, <1>10, <3>1
  <2> HIDE DEF m, V, W
  <2>8. Marks(m, c, ckpts', W)
    <3> SUFFICES ASSUME NEW seq \in DOMAIN ckpts, m[seq + 1].run_id = c.run_id
                 PROVE  AtBoundary(W[seq + 1], m[seq + 1]) /\ W[seq + 1].state = ckpts[seq].state
      BY <2>7 DEF Marks
    <3>1. seq + 1 \in 1 .. Len(l)
      BY <1>6
    <3> QED
      BY <1>7, <2>6, <3>1 DEF Marks
  <2>9. Goes(c, Reached(m, c, W, Len(m)), y)
    BY <2>5, <2>6 DEF Goes
  <2>10. ledger' = m
    BY <1>10 DEF m
  <2> QED
    BY <1>5, <1>6, <1>8, <2>2, <2>5, <2>8, <2>9, <2>10 DEF LiveTrace, m
<1> QED
  BY <1>8, <1>9, <1>10

LEMMA StartTrace == Init => LiveTrace
<1> SUFFICES ASSUME Init PROVE LiveTrace
  OBVIOUS
<1>1. /\ ledger = << >> /\ ckpts = << >> /\ Now = Fresh("start", InitialState)
      /\ config.stop_round = MaxRounds /\ Len(ledger) = 0
  BY EmptySeq DEF Init, Now, Fresh
<1>2. /\ Now.pc = "start" /\ Now.state.round = 0 /\ Clock(Now) = 0
  BY <1>1 DEF Fresh, Having, InitialState, Clock
<1>3. InStep(ledger, Now)
  BY <1>1 DEF InStep, InOrderOfTime, ProposeOnce
<1>4. ProposedUpTo(ledger, 0, 0)
  BY <1>1, SizeAssumption DEF ProposedUpTo, Agents
<1>5. Timely(ledger, config, Now)
  BY <1>2, <1>3, <1>4 DEF Timely, Placed
<1> DEFINE F == [k \in 1 .. 0 |-> Now]
<1>6. Trace(ledger, config, F, F) /\ Marks(ledger, config, ckpts, F)
  <2>1. F \in [1 .. 0 -> Locals]
    OBVIOUS
  <2> HIDE DEF F
  <2> QED
    BY <1>1, <2>1 DEF Trace, Marks
<1>7. Goes(config, Reached(ledger, config, F, Len(ledger)), Now)
  BY <1>1 DEF Goes, Reached
<1> HIDE DEF F
<1> QED
  BY <1>1, <1>5, <1>6, <1>7 DEF LiveTrace

LEMMA FiledTrace ==
  ASSUME LiveTrace, Sealed
  PROVE  Retraceable(RunDir)
<1>1. PICK dir : dir = RunDir
  OBVIOUS
<1>2. dir.config = config /\ dir.ledger = ledger /\ dir.ckpts = ckpts
  BY <1>1 DEF RunDir
<1>3. SealTells(ledger)
  <2>1. Now.pc = pc /\ Timely(ledger, config, Now)
    BY DEF Now, Having, LiveTrace
  <2>2. CASE pc = "completed"
    BY <2>1, <2>2 DEF Timely, Placed, SealTells
  <2>3. CASE pc = "failed"
    BY <2>1, <2>3 DEF Timely, Placed
  <2> QED
    BY <2>2, <2>3 DEF Sealed
<1>4. Retraceable(dir)
  BY <1>2, <1>3 DEF Retraceable, LiveTrace, Timely, InStep
<1> QED
  BY <1>1, <1>4

LEMMA ForkTimely ==
  ASSUME NEW l \in Seq(Events), InOrderOfTime(l), ProposeOnce(l), NEW n \in 1 .. Len(l),
         NEW s \in States, NEW c \in Configs, NEW y, y.state = s, AtBoundary(y, l[n]),
         c.run_id # l[n].run_id
  PROVE  Timely(SubSeq(l, 1, n), c, Fresh("loop", s))
<1> DEFINE m == SubSeq(l, 1, n)
           x == Fresh("loop", s)
<1>1. /\ m \in Seq(Events) /\ Len(m) = n /\ Len(l) \in Nat /\ s.round \in Nat
      /\ \A k \in 1 .. n : m[k] = l[k]
  <2>1. Len(l) \in Nat /\ \A k \in 1 .. Len(l) : l[k] \in Events
    BY LenProperties, ElementOfSeq
  <2>2. \A k \in 1 .. n : l[k] \in Events
    BY <2>1
  <2> QED
    BY <2>1, <2>2, SubSeqProperties DEF States
<1>2. x.pc = "loop" /\ x.state = s /\ Clock(x) = s.round
  BY DEF Fresh, Having, Clock
<1> HIDE DEF m, x
<1>3. l[n].logical_time = s.round - 1
  BY DEF AtBoundary
<1>4. \A k \in 1 .. n : m[k].logical_time < s.round
  <2> SUFFICES ASSUME NEW k \in 1 .. n PROVE m[k].logical_time < s.round
    OBVIOUS
  <2>1. l[k].logical_time <= l[n].logical_time
    BY <1>1 DEF InOrderOfTime
  <2>2. l[k].logical_time \in Nat
    BY <1>1, TimesAreNumbers
  <2> QED
    BY <1>1, <1>3, <2>1, <2>2
<1>5. InOrderOfTime(m) /\ ProposeOnce(m)
  <2>1. \A k \in 1 .. n : k \in 1 .. Len(l)
    BY <1>1
  <2>2. InOrderOfTime(m)
    BY <1>1, <2>1 DEF InOrderOfTime
  <2>3. \A k \in 1 .. n : \A i, t : ProposalAt(m, k, i, t) <=> ProposalAt(l, k, i, t)
    BY <1>1 DEF ProposalAt
  <2>4. ProposeOnce(m)
    BY <1>1, <2>1, <2>3 DEF ProposeOnce
  <2> QED
    BY <2>2, <2>4
<1>6. InStep(m, x)
  <2>1. \A k \in 1 .. Len(m) : m[k].logical_time \in Nat
    BY <1>1, TimesAreNumbers
  <2> QED
    BY <1>1, <1>2, <1>4, <1>5, <2>1 DEF InStep
<1>7. ProposedUpTo(m, s.round, 0)
  BY <1>1, <1>4, NoneProposedLater
<1>8. m[Len(m)].run_id # c.run_id
  BY <1>1
<1> QED
  BY <1>2, <1>6, <1>7, <1>8 DEF Timely, Placed, m, x

LEMMA ForkTrace ==
  ASSUME LineageInv, NEW p \in DOMAIN archive, NEW seq \in DOMAIN archive[p].ckpts,
         NEW child \in RunIds, NEW changed \in Overrides, Fork(p, seq, child, changed),
         Retraceable(archive[p])
  PROVE  LiveTrace'
<1>1. PICK dir : dir = archive[p]
  OBVIOUS
<1>2. PICK l, cfg, n : l = dir.ledger /\ cfg = dir.config /\ n = seq + 1
  OBVIOUS
<1>3. /\ CanFork(dir, seq, child, changed)
      /\ config' = As(cfg, child) /\ ledger' = SubSeq(l, 1, n)
      /\ Now' = Fresh("loop", dir.ckpts[seq].state) /\ ckpts' = << >>
  <2>1. /\ <<seq, child, changed>> \in ForksOf(dir)
        /\ config' = As(cfg, child) /\ state' = dir.ckpts[seq].state
        /\ ledger' = SubSeq(l, 1, n) /\ ckpts' = << >>
        /\ pc' = "loop" /\ turn' = 1
        /\ proposal' = None /\ accepted' = NoActions /\ failure' = None
    BY <1>1, <1>2 DEF Fork, Launch, As
  <2>2. CanFork(dir, seq, child, changed)
    BY <2>1 DEF ForksOf
  <2> QED
    BY <2>1, <2>2 DEF Now, Fresh, Having
<1>4. /\ Filed(dir) /\ cfg \in Configs /\ l \in Seq(Events) /\ Len(l) \in Nat
      /\ n \in 1 .. Len(l) - 1 /\ n = seq + 1
      /\ dir.ckpts[seq].state \in States
  <2>1. Filed(dir)
    BY <1>1 DEF LineageInv, ArchiveInv
  <2>2. /\ dir.config \in Configs /\ dir.ledger \in Seq(Events)
        /\ dir.ckpts[seq] \in Snapshots
        /\ seq \in 0 .. Len(dir.ledger) - 1 /\ seq < Len(dir.ledger) - 1
    BY <1>1, <2>1 DEF Filed, ValidateCheckpoint
  <2>3. Len(l) \in Nat
    BY <1>2, <2>2, LenProperties
  <2> QED
    BY <1>2, <2>1, <2>2, <2>3 DEF Snapshots
<1>5. l[n].run_id = cfg.run_id /\ child # cfg.run_id
  BY <1>1, <1>2, <1>3, <1>4, LenProperties DEF CanFork, RunIdsIn
<1>6. PICK Z, Y : Trace(l, cfg, Z, Y) /\ Marks(l, cfg, dir.ckpts, Y)
  BY <1>1, <1>2 DEF Retraceable
<1>7. AtBoundary(Y[n], l[n]) /\ Y[n].state = dir.ckpts[seq].state
  BY <1>1, <1>2, <1>5, <1>6 DEF Marks
<1> DEFINE m == SubSeq(l, 1, n)
           own == As(cfg, child)
           s == dir.ckpts[seq].state
<1>8. own \in Configs /\ own.run_id = child /\ own.stop_round = MaxRounds
  BY <1>1, <1>2, <1>4, AsTyped DEF Retraceable
<1>9. /\ Trace(m, own, Cut(Z, n), Cut(Y, n))
      /\ Reached(m, own, Cut(Y, n), n) = Fresh("loop", s)
  BY <1>4, <1>5, <1>6, <1>7, TraceForks
<1>10. Len(m) = n
  <2>1. \A k \in 1 .. n : l[k] \in Events
    BY <1>4, ElementOfSeq
  <2> QED
    BY <1>4, <2>1, SubSeqProperties
<1>11. Timely(m, own, Fresh("loop", s))
  <2>1. InOrderOfTime(l) /\ ProposeOnce(l)
    BY <1>1, <1>2 DEF Retraceable
  <2>2. n \in 1 .. Len(l) /\ own.run_id # l[n].run_id
    BY <1>4, <1>5, <1>8
  <2> QED
    BY <1>4, <1>7, <1>8, <2>1, <2>2, ForkTimely
<1> HIDE DEF m, own, s
<1>12. PICK W : /\ Trace(m, own, Cut(Z, n), W) /\ Goes(own, Reached(m, own, W, Len(m)), Fresh("loop", s))
  BY <1>9, <1>10 DEF Goes
<1>13. Marks(m, own, << >>, W)
  BY DEF Marks
<1>14. config' = own /\ ledger' = m /\ Now' = Fresh("loop", s) /\ ckpts' = << >>
  BY <1>3 DEF m, own, s
<1> QED
  BY <1>8, <1>11, <1>12, <1>13, <1>14 DEF LiveTrace

-----------------------------------------------------------------------------
(* The runner is deterministic, but for its policies. *)

(* Where x is, runs configured as c and as d go on alike. *)
Alike(c, d, x) ==
  /\ c.run_id = d.run_id /\ c.checkpoint_every = d.checkpoint_every
  /\ c.invalid_action_policy = d.invalid_action_policy
  /\ \/ x.pc = "loop" \/ (x.pc = "domain" /\ x.turn >= Len(DomainEventTypes))
     => (Ends(c, x.state) <=> Ends(d, x.state))

LEMMA QuietAlike ==
  ASSUME NEW c, NEW d, NEW x, NEW y, Alike(c, d, x), Quiet(d, x, y)
  PROVE  Quiet(c, x, y)
BY DEF Alike, Quiet

LEMMA QuietFunctional ==
  ASSUME NEW c, NEW x, NEW y, NEW z, Quiet(c, x, y), Quiet(c, x, z)
  PROVE  y = z
BY DEF Quiet

LEMMA QuietExclusive ==
  ASSUME NEW c, NEW x, NEW y, Quiet(c, x, y)
  PROVE  x.pc # "propose" /\ \A n, e, z : ~ Writes(c, n, x, e, z)
BY DEF Quiet, Writes

LEMMA LineAlike ==
  ASSUME NEW c, NEW d, NEW x \in Locals, NEW n, NEW e, NEW y, Alike(c, d, x), Writes(d, n, x, e, y)
  PROVE  Writes(c, n, x, e, y)
<1>1. /\ c.run_id = d.run_id /\ c.checkpoint_every = d.checkpoint_every
      /\ c.invalid_action_policy = d.invalid_action_policy
  BY DEF Alike
<1>2. \A type, t, agent, action, seq, s, why :
        Entry(c, type, t, agent, action, seq, s, why) = Entry(d, type, t, agent, action, seq, s, why)
  BY <1>1 DEF Entry
<1>3. \A type, t, agent, action : Line(c, type, t, agent, action) = Line(d, type, t, agent, action)
  BY <1>2 DEF Line
<1>4. \A action : Accepts(c, x, action, e, y) <=> Accepts(d, x, action, e, y)
  BY <1>3 DEF Accepts
<1>5. CASE x.pc = "domain"
  <2>1. x.turn < Len(DomainEventTypes) \/ (Ends(c, x.state) <=> Ends(d, x.state))
    BY <1>5, DomainEventAssumption, LenProperties DEF Alike, Locals
  <2>2. Cadence(c, x.state) <=> Cadence(d, x.state)
    BY <1>1 DEF Cadence
  <2>3. /\ e = Line(c, DomainEventTypes[x.turn], x.state.round - 1, Engine, None)
        /\ y = Advanced(x, Len(DomainEventTypes),
                        IF Cadence(d, x.state) /\ ~ Ends(d, x.state) THEN "checkpoint" ELSE "loop")
    BY <1>3, <1>5 DEF Writes
  <2>4. y = Advanced(x, Len(DomainEventTypes),
                     IF Cadence(c, x.state) /\ ~ Ends(c, x.state) THEN "checkpoint" ELSE "loop")
    BY <2>1, <2>2, <2>3 DEF Advanced
  <2> QED
    BY <1>5, <2>3, <2>4 DEF Writes
<1>6. CASE x.pc = "loop"
  <2>1. Ends(c, x.state) <=> Ends(d, x.state)
    BY <1>6 DEF Alike
  <2> QED
    BY <1>3, <1>6, <2>1 DEF Writes
<1>7. CASE x.pc \notin {"domain", "loop"}
  BY <1>1, <1>2, <1>3, <1>4, <1>7 DEF Writes
<1> QED
  BY <1>5, <1>6, <1>7

LEMMA LineFunctional ==
  ASSUME NEW c, NEW n, NEW x, NEW e, NEW y, NEW f, NEW z, x.pc # "propose",
         Writes(c, n, x, e, y), Writes(c, n, x, f, z)
  PROVE  e = f /\ y = z
<1>1. CASE x.pc \in {"validate", "rejected"}
  BY <1>1 DEF Writes, Accepts
<1>2. CASE x.pc \notin {"validate", "rejected"}
  BY <1>2 DEF Writes
<1> QED
  BY <1>1, <1>2

(* Where a run ends, with the last line of a round, one that goes on does  *)
(* what differs in the place only.                                         *)
LEMMA LastLineOfRound ==
  ASSUME NEW c, NEW d, NEW n, NEW x \in Locals, NEW e, NEW y, NEW f, NEW z,
         c.run_id = d.run_id, AtBoundary(y, e), Writes(c, n, x, e, y), Writes(d, n, x, f, z)
  PROVE  /\ x.pc = "domain" /\ y.state = x.state
         /\ Ends(d, x.state) => e = f /\ z.pc = "loop" /\ z.state = x.state
<1>1. x.pc = "domain"
  <2>1. e.event_type \in DomainTypes
    BY DEF AtBoundary
  <2> QED
    BY <2>1 DEF Writes, Accepts, Line, Entry, DomainTypes
<1>2. ~ x.turn < Len(DomainEventTypes) /\ y.state = x.state
  BY <1>1 DEF Writes, Advanced, AtTurn, Having, AtBoundary
<1>3. e = f
  BY <1>1 DEF Writes, Line, Entry
<1>4. Ends(d, x.state) => z.pc = "loop" /\ z.state = x.state
  BY <1>1, <1>2 DEF Writes, Advanced, AtTurn, Having
<1> QED
  BY <1>1, <1>2, <1>3, <1>4

(* A step that writes nothing leaves the time of the next line. *)
LEMMA QuietClock ==
  ASSUME NEW c, NEW x \in Locals, NEW y, Goes(c, x, y)
  PROVE  Clock(y) = Clock(x)
<1>1. x.state \in States /\ x.state.round \in Nat
  BY LocalsTyped
<1>2. Published(x.state).round = x.state.round
  BY <1>1, PublishedTyped
<1>3. Resolved(x.state, x.accepted).round = x.state.round + 1
  BY <1>1 DEF Resolved, States
<1> QED
  BY <1>1, <1>2, <1>3 DEF Goes, Silently, Quiet, Raises, Failing, Entered, At, Having, Clock

-----------------------------------------------------------------------------
(* A source and its segments *)

(* The ledger l of a filed run, configured as cfg, that has a trace *)
Whole(l, cfg) ==
  /\ l \in Seq(Events) /\ Len(l) \in Nat \ {0} /\ cfg \in Configs
  /\ cfg.stop_round = MaxRounds
  /\ InOrderOfTime(l) /\ ProposeOnce(l) /\ SealTells(l)
  /\ \A k \in 1 .. Len(l) : l[k].event_type \in Seals <=> k = Len(l)
  /\ l[Len(l)].run_id = cfg.run_id

(* The segment that starts at line i ends before line end, or with l; d is *)
(* how it is replayed.                                                     *)
Segment(l, cfg, i, end, d) ==
  /\ i \in 1 .. Len(l) /\ d.run_id = l[i].run_id
  /\ d.checkpoint_every = cfg.checkpoint_every
  /\ d.invalid_action_policy = cfg.invalid_action_policy
  /\ IF end = None
       THEN d.stop_round = MaxRounds /\ \A k \in i .. Len(l) : l[k].run_id = d.run_id
       ELSE /\ end \in i + 1 .. Len(l) /\ l[end].run_id # d.run_id
            /\ d.stop_round = l[end].logical_time
            /\ \A k \in i .. end - 1 : l[k].run_id = d.run_id

LastOf(l, end) == IF end = None THEN Len(l) ELSE end - 1

LEMMA LeastOf ==
  ASSUME NEW S \in SUBSET Nat, S # {}
  PROVE  \E m \in S : \A n \in S : m <= n
<1> DEFINE R == OpToRel(<, Nat)
<1>1. \A m, n \in Nat : <<m, n>> \in R <=> m < n
  BY DEF OpToRel
<1>2. \E m \in S : \A n \in S : <<n, m>> \notin R
  <2> HIDE DEF R
  <2> QED
    BY NatLessThanWellFounded, WFMin DEF R
<1>3. PICK m \in S : \A n \in S : ~ (n < m)
  <2> HIDE DEF R
  <2> QED
    BY <1>1, <1>2
<1>4. \A n \in S : m <= n
  BY <1>3
<1> QED
  BY <1>4

LEMMA SegmentFound ==
  ASSUME NEW dir, Whole(dir.ledger, dir.config), NEW i \in 1 .. Len(dir.ledger)
  PROVE  Segment(dir.ledger, dir.config, i, NextSegment(dir.ledger, i), SegmentConfig(dir, i))
<1> DEFINE l == dir.ledger
           cfg == dir.config
           end == NextSegment(l, i)
           later == {k \in i + 1 .. Len(l) : l[k].run_id # l[i].run_id}
           stop == IF end = None THEN MaxRounds ELSE l[end].logical_time
<1>1. cfg \in Configs /\ Len(l) \in Nat /\ i \in 1 .. Len(l)
  BY DEF Whole
<1>2. /\ later = {} => end = None
      /\ later # {} => end \in later /\ \A j \in later : end <= j
  <2>1. later \in SUBSET Nat
    BY <1>1
  <2>2. ASSUME later # {} PROVE \E m \in later : \A j \in later : m <= j
    <3> HIDE DEF later
    <3> QED
      BY <2>1, <2>2, LeastOf
  <2>3. end = IF later = {} THEN None ELSE CHOOSE n \in later : \A j \in later : n <= j
    BY DEF NextSegment
  <2> HIDE DEF later, end
  <2> QED
    BY <2>2, <2>3
<1>3. end = None <=> later = {}
  BY <1>1, <1>2, ActionAssumption
<1> DEFINE d == SegmentConfig(dir, i)
<1>4. /\ d.run_id = l[i].run_id /\ d.stop_round = stop
      /\ d.checkpoint_every = cfg.checkpoint_every
      /\ d.invalid_action_policy = cfg.invalid_action_policy
  <2>1. d = [cfg EXCEPT !.run_id = l[i].run_id, !.stop_round = stop]
    BY DEF SegmentConfig
  <2> HIDE DEF d, stop, l
  <2> QED
    BY <1>1, <2>1 DEF Configs
<1> HIDE DEF d, end
<1>5. CASE end = None
  <2>1. \A k \in i + 1 .. Len(l) : l[k].run_id = l[i].run_id
    BY <1>3, <1>5
  <2>2. \A k \in i .. Len(l) : k = i \/ k \in i + 1 .. Len(l)
    BY <1>1
  <2>3. \A k \in i .. Len(l) : l[k].run_id = l[i].run_id
    BY <2>1, <2>2
  <2> HIDE DEF later, l
  <2> QED
    BY <1>1, <1>4, <1>5, <2>3 DEF Segment, d, end, l
<1>6. CASE end # None
  <2>1. end \in later /\ \A j \in later : end <= j
    BY <1>2, <1>3, <1>6
  <2>2. end \in i + 1 .. Len(l) /\ l[end].run_id # l[i].run_id
    BY <2>1
  <2>3. \A k \in i .. end - 1 : l[k].run_id = l[i].run_id
    <3> SUFFICES ASSUME NEW k \in i .. end - 1, l[k].run_id # l[i].run_id PROVE FALSE
      OBVIOUS
    <3>1. k \in i + 1 .. Len(l) /\ ~ end <= k
      <4>1. k # i
        OBVIOUS
      <4> QED
        BY <1>1, <2>2, <4>1
    <3> QED
      BY <2>1, <3>1
  <2> HIDE DEF later, l
  <2> QED
    BY <1>1, <1>4, <1>6, <2>2, <2>3 DEF Segment, d, end, l
<1> QED
  BY <1>5, <1>6

LEMMA ReachedTyped ==
  ASSUME NEW l, NEW cfg, NEW Z, NEW Y, Trace(l, cfg, Z, Y), Len(l) \in Nat, NEW k \in 0 .. Len(l)
  PROVE  /\ Reached(l, cfg, Y, k) \in Locals
         /\ Reached(l, cfg, Y, k).pc = "rejected" => Reached(l, cfg, Y, k).proposal = None
<1>1. \A at \in {"start", "loop"} : \A s \in States : Fresh(at, s) \in Locals
  BY DEF Fresh, Having, NoActions, Locals, PcValues
<1>2. InitialState \in States
  <2>1. << >> \in Seq(Profiles)
    BY EmptySeq
  <2> QED
    BY <2>1 DEF InitialState, States
<1>3. \A at, s : Fresh(at, s).pc = at
  BY DEF Fresh, Having
<1>4. CASE k = 0
  <2>1. Reached(l, cfg, Y, k) = Fresh("start", InitialState)
    BY <1>4 DEF Reached
  <2> QED
    BY <1>1, <1>2, <1>3, <2>1
<1>5. CASE k # 0
  <2>1. Y[k] \in Locals /\ Traced(l, cfg, Z, Y, k) /\ k > 0
    <3>1. k \in 1 .. Len(l)
      BY <1>5
    <3> QED
      BY <1>5, <3>1 DEF Trace
  <2>2. Y[k].state \in States
    BY <2>1, LocalsTyped
  <2>3. \A c, n, x, e, y : Writes(c, n, x, e, y) /\ y.pc = "rejected" => y.proposal = None
    <3> SUFFICES ASSUME NEW c, NEW n, NEW x, NEW e, NEW y, Writes(c, n, x, e, y),
                        y.pc = "rejected"
                 PROVE  y.proposal = None
      OBVIOUS
    <3> QED
      BY DEF Writes, Accepts, Advanced, At, AtTurn, Entered, Having
  <2>4. Y[k].pc = "rejected" => Y[k].proposal = None
    BY <2>1, <2>3 DEF Traced
  <2> QED
    BY <1>1, <1>3, <1>5, <2>1, <2>2, <2>4 DEF Reached
<1> QED
  BY <1>4, <1>5

(* The line a run writes next has the time of what it has in hand. *)
LEMMA TimeOfLine ==
  ASSUME NEW l, NEW cfg, Whole(l, cfg), NEW Z, NEW Y, Trace(l, cfg, Z, Y), NEW k \in 1 .. Len(l)
  PROVE  /\ l[k].logical_time = Clock(Reached(l, cfg, Y, k - 1))
         /\ As(cfg, l[k].run_id) \in Configs /\ As(cfg, l[k].run_id).run_id = l[k].run_id
         /\ As(cfg, l[k].run_id).stop_round = MaxRounds
         /\ As(cfg, l[k].run_id).checkpoint_every = cfg.checkpoint_every
         /\ As(cfg, l[k].run_id).invalid_action_policy = cfg.invalid_action_policy
         /\ Z[k] \in Locals /\ Y[k] \in Locals /\ Traced(l, cfg, Z, Y, k)
<1>1. Z[k] \in Locals /\ Y[k] \in Locals /\ Traced(l, cfg, Z, Y, k)
  BY DEF Trace
<1>2. l \in Seq(Events) /\ Len(l) \in Nat /\ cfg \in Configs /\ cfg.stop_round = MaxRounds
  BY DEF Whole
<1>3. l[k].run_id \in RunIds
  <2>1. l[k] \in Events
    BY <1>2, ElementOfSeq
  <2> QED
    BY <2>1 DEF Events
<1> DEFINE c == As(cfg, l[k].run_id)
           x == Reached(l, cfg, Y, k - 1)
<1>4. /\ c \in Configs /\ c.run_id = l[k].run_id /\ c.stop_round = MaxRounds
      /\ c.checkpoint_every = cfg.checkpoint_every
      /\ c.invalid_action_policy = cfg.invalid_action_policy
  BY <1>2, <1>3, AsTyped
<1>5. x \in Locals
  <2>1. k - 1 \in 0 .. Len(l)
    BY <1>2
  <2> QED
    BY <1>2, <2>1, ReachedTyped
<1> HIDE DEF c, x
<1>6. /\ Goes(c, x, Z[k]) /\ (Z[k].pc = "start" => Z[k].state.round = 0)
      /\ Writes(c, k - 1, Z[k], l[k], Y[k])
  BY <1>1 DEF Traced, c, x
<1>7. l[k].logical_time = Clock(Z[k]) /\ Clock(Z[k]) = Clock(x)
  BY <1>1, <1>4, <1>5, <1>6, LineSays, QuietClock
<1> QED
  BY <1>1, <1>4, <1>7 DEF c, x

(* Within a segment the replay goes on as the source did, except that it   *)
(* ends, and takes no checkpoint, where the segment does.                  *)
LEMMA GoesOnAlike ==
  ASSUME NEW l, NEW cfg, Whole(l, cfg), NEW Z, NEW Y, Trace(l, cfg, Z, Y),
         NEW i, NEW end, NEW d, Segment(l, cfg, i, end, d), NEW k \in i .. LastOf(l, end),
         NEW x, x = Reached(l, cfg, Y, k - 1) \/ x = Z[k],
         end # None /\ k = end - 1 => x.pc # "domain"
  PROVE  Alike(As(cfg, l[k].run_id), d, x)
<1> DEFINE c == As(cfg, l[k].run_id)
<1>1. /\ Len(l) \in Nat /\ i \in 1 .. Len(l) /\ k \in 1 .. Len(l) /\ k \in i .. LastOf(l, end)
      /\ LastOf(l, end) \in 1 .. Len(l)
      /\ end # None => end \in 2 .. Len(l) /\ end - 1 \in 1 .. Len(l)
                       /\ end - 1 \in i .. end - 1 /\ k <= end - 1
  BY DEF Whole, Segment, LastOf
<1>2. l[k].run_id = d.run_id
  BY <1>1 DEF Segment, LastOf
<1>3. /\ c.run_id = d.run_id /\ c.checkpoint_every = d.checkpoint_every
      /\ c.invalid_action_policy = d.invalid_action_policy /\ c.stop_round = MaxRounds
      /\ Traced(l, cfg, Z, Y, k) /\ Z[k] \in Locals /\ Y[k] \in Locals
      /\ l[k].logical_time = Clock(Reached(l, cfg, Y, k - 1))
  BY <1>1, <1>2, TimeOfLine DEF Segment
<1>4. /\ Goes(c, Reached(l, cfg, Y, k - 1), Z[k]) /\ Writes(c, k - 1, Z[k], l[k], Y[k])
  BY <1>3 DEF Traced
<1> HIDE DEF c
<1>5. x \in Locals /\ x.state.round \in Nat
  <2>1. k - 1 \in 0 .. Len(l)
    BY <1>1
  <2> QED
    BY <1>1, <1>3, <2>1, ReachedTyped, LocalsTyped
<1>6. SUFFICES ASSUME x.pc = "loop" \/ (x.pc = "domain" /\ x.turn >= Len(DomainEventTypes))
               PROVE  Ends(c, x.state) <=> Ends(d, x.state)
  BY <1>3 DEF Alike, c
<1>7. CASE end = None
  BY <1>3, <1>7 DEF Segment, Ends
<1>8. CASE end # None
  <2> DEFINE s == Y[end - 1].state
  <2>1. l[end].run_id # l[end - 1].run_id /\ end - 1 < Len(l) /\ end - 1 + 1 = end
    BY <1>1, <1>8 DEF Segment
  <2>2. AtBoundary(Y[end - 1], l[end - 1]) /\ Reached(l, cfg, Y, end - 1) = Fresh("loop", s)
    <3>1. IdAfter(l, cfg, end - 1) # l[end - 1].run_id
      BY <2>1 DEF IdAfter
    <3>2. Traced(l, cfg, Z, Y, end - 1)
      BY <1>1, <1>8 DEF Trace
    <3> QED
      BY <1>1, <1>8, <3>1, <3>2 DEF Traced, Reached
  <2>3. l[end].logical_time = s.round /\ s.round \in Nat
    <3>1. l[end].logical_time = Clock(Fresh("loop", s))
      <4>1. end \in 1 .. Len(l)
        BY <1>1, <1>8
      <4> QED
        BY <2>2, <4>1, TimeOfLine
    <3>2. Y[end - 1] \in Locals
      BY <1>1, <1>8 DEF Trace
    <3> QED
      BY <3>1, <3>2, LocalsTyped DEF Clock, Fresh, Having
  <2>4. l[end - 1].logical_time = s.round - 1
    BY <2>2 DEF AtBoundary
  <2>5. ASSUME NEW j \in 1 .. Len(l), j <= end - 1, x.state.round = l[j].logical_time
        PROVE  Ends(c, x.state) <=> Ends(d, x.state)
    <3>1. l[j].logical_time <= l[end - 1].logical_time
      BY <1>1, <1>8, <2>5 DEF Whole, InOrderOfTime
    <3>2. x.state.round < d.stop_round /\ d.stop_round \in Nat
      BY <1>5, <1>8, <2>3, <2>4, <2>5, <3>1 DEF Segment
    <3> QED
      BY <1>3, <1>5, <3>2, SizeAssumption DEF Ends
  <2>6. CASE x.pc = "loop"
    <3>1. x = Reached(l, cfg, Y, k - 1)
      BY <1>4, <2>6, QuietPlaces DEF Goes
    <3>2. x.state.round = l[k].logical_time
      BY <1>3, <2>6, <3>1 DEF Clock
    <3> QED
      BY <1>1, <1>8, <2>5, <3>2
  <2>7. CASE x.pc = "domain" /\ x.turn >= Len(DomainEventTypes)
    <3>1. x = Z[k]
      BY <1>4, <2>7, QuietPlaces DEF Goes
    <3>2. Y[k].pc \in {"loop", "checkpoint"} /\ Y[k].state = x.state
      <4>1. ~ x.turn < Len(DomainEventTypes)
        BY <1>5, <2>7, DomainEventAssumption, LenProperties DEF Locals
      <4>2. \E at \in {"loop", "checkpoint"} : Y[k] = Advanced(x, Len(DomainEventTypes), at)
        BY <1>4, <2>7, <3>1 DEF Writes
      <4> QED
        BY <4>1, <4>2 DEF Advanced, AtTurn, Having
    <3>3. k # end - 1 /\ k + 1 \in i .. end - 1 /\ k + 1 \in 1 .. Len(l) /\ k < Len(l)
      BY <1>1, <1>8, <2>7
    <3>4. Reached(l, cfg, Y, k) = Y[k]
      <4>1. l[k + 1].run_id = l[k].run_id
        BY <1>2, <1>8, <3>3 DEF Segment
      <4> QED
        BY <1>1, <3>3, <4>1 DEF Reached, IdAfter
    <3>5. l[k + 1].logical_time = Clock(Y[k])
      <4>1. k + 1 - 1 = k
        BY <1>1
      <4> QED
        BY <3>3, <3>4, <4>1, TimeOfLine
    <3>6. x.state.round = l[k + 1].logical_time
      BY <3>2, <3>5 DEF Clock
    <3>7. k + 1 <= end - 1
      BY <3>3
    <3> QED
      BY <2>5, <3>3, <3>6, <3>7
  <2> QED
    BY <1>6, <2>6, <2>7
<1> QED
  BY <1>7, <1>8

-----------------------------------------------------------------------------
(* A replay in step with its source *)

(* The exception: a run sealed by an error of a policy that no ledger tells *)
Untold(l) ==
  LET seal == l[Len(l)] IN seal.event_type = "RunFailed" /\ seal.reason.kind = "policy_error"

(* Within the segment, at the same place as the source, or as it was when  *)
(* it wrote the next line: led and x are the ledger and locals of the      *)
(* replay.                                                                 *)
Following(l, cfg, Z, Y, i, end, led, x) ==
  /\ led \in Seq(Events) /\ Len(led) + 1 \in i .. LastOf(l, end)
  /\ \A k \in 1 .. Len(led) : led[k] = l[k]
  /\ x = Reached(l, cfg, Y, Len(led)) \/ x = Z[Len(led) + 1]
  /\ x.pc = "fail" => x.failure.kind # "policy_error"

Ended(l, end, led, x) ==
  end = None /\ led = l /\ x.pc \in {"completed", "failed"} /\ ~ Untold(l)

(* At the end of an inner segment, whose lines are those of the source     *)
Closing(l, Y, end, d, led, x, files) ==
  /\ end # None /\ \A k \in 1 .. end - 1 : led[k] = l[k]
  /\ x.state = Y[end - 1].state /\ Ends(d, x.state)
  /\ \/ x.pc \in {"loop", "complete"} /\ led \in Seq(Events) /\ Len(led) = end - 1
     \/ x.pc = "completed" /\ Len(led) = end
  /\ x.pc # "loop" => files[end - 2].state = x.state

(* Failing, for want of a record *)
Lost(l, end, led, x) ==
  /\ end = None /\ Untold(l)
  /\ \/ x.pc = "fail" /\ x.failure.kind = "unrecorded" /\ led \in Seq(Events)
     \/ x.pc = "failed" /\ led[Len(led)].reason.kind = "unrecorded"

LEMMA FollowsQuietly ==
  ASSUME NEW l, NEW cfg, Whole(l, cfg), NEW Z, NEW Y, Trace(l, cfg, Z, Y),
         NEW i, NEW end, NEW d, Segment(l, cfg, i, end, d),
         NEW led, NEW x, NEW y, Following(l, cfg, Z, Y, i, end, led, x), Quiet(d, x, y)
  PROVE  Following(l, cfg, Z, Y, i, end, led, y)
<1> DEFINE k == Len(led) + 1
           c == As(cfg, l[k].run_id)
<1>1. k \in i .. LastOf(l, end) /\ k - 1 = Len(led) /\ k \in 1 .. Len(l)
  <2>1. Len(led) \in Nat
    BY LenProperties DEF Following
  <2> QED
    BY <2>1 DEF Following, Segment, LastOf, Whole
<1>2. Traced(l, cfg, Z, Y, k)
  BY <1>1 DEF Trace
<1>3. Goes(c, Reached(l, cfg, Y, k - 1), Z[k]) /\ Writes(c, k - 1, Z[k], l[k], Y[k])
  BY <1>2 DEF Traced
<1>4. x = Reached(l, cfg, Y, k - 1) \/ x = Z[k]
  BY <1>1 DEF Following
<1>5. x.pc # "propose" /\ Silently(d, x, y) /\ x.pc # "domain"
  BY QuietExclusive DEF Silently, Quiet
<1>6. Quiet(c, x, y)
  <2>1. Alike(c, d, x)
    BY <1>1, <1>4, <1>5, GoesOnAlike
  <2> QED
    BY <2>1, QuietAlike
<1> HIDE DEF c
<1>7. x # Z[k]
  BY <1>3, <1>6, QuietExclusive
<1>8. Quiet(c, x, Z[k])
  <2>1. Silently(c, x, Z[k])
    BY <1>3, <1>4, <1>7 DEF Goes
  <2> QED
    BY <1>5, <2>1 DEF Silently, Raises
<1>9. y = Z[k]
  BY <1>6, <1>8, QuietFunctional
<1>10. y.pc = "fail" => y.failure.kind # "policy_error"
  BY DEF Quiet, Failing, Entered, At, Having
<1> QED
  BY <1>1, <1>9, <1>10 DEF Following

LEMMA AppendAny ==
  ASSUME NEW l \in Seq(Events), NEW e
  PROVE  /\ Len(l) \in Nat /\ Len(Append(l, e)) = Len(l) + 1 /\ Append(l, e)[Len(l) + 1] = e
         /\ \A k \in 1 .. Len(l) : Append(l, e)[k] = l[k]
<1> DEFINE S == Events \cup {e}
<1>1. l \in Seq(S) /\ e \in S
  BY SeqMonotonic
<1> HIDE DEF S
<1> QED
  BY <1>1, AppendProperties, LenProperties

(* Only what failed or completed writes a seal, and no line leads to a     *)
(* failure: those are raised between two lines.                            *)
LEMMA SealWriters ==
  ASSUME NEW c, NEW n, NEW x \in Locals, NEW e, NEW y, Writes(c, n, x, e, y)
  PROVE  /\ y.pc # "fail"
         /\ x.pc \notin {"fail", "complete"} => e.event_type \notin Seals
         /\ x.pc = "fail" => e.reason = x.failure /\ y.pc = "failed"
         /\ x.pc = "complete" => e.event_type = "RunCompleted" /\ y.pc = "completed"
<1> USE DEF Line, Entry, Having, At, AtTurn, Seals
<1>1. CASE x.pc \in {"start", "loop", "observe"}
  BY <1>1 DEF Writes, Entered, Advanced
<1>2. CASE x.pc = "propose"
  BY <1>2 DEF Writes
<1>3. CASE x.pc \in {"validate", "rejected"}
  BY <1>3 DEF Writes, Accepts
<1>4. CASE x.pc = "domain"
  <2>1. x.turn \in 1 .. Len(DomainEventTypes)
    BY <1>4 DEF Locals
  <2>2. DomainEventTypes[x.turn] \in {"WorldTransitioned", "RewardAssigned"}
    BY <2>1, DomainEventAssumption, ElementOfSeq
  <2>3. e.event_type \notin Seals
    BY <1>4, <2>2 DEF Writes
  <2>4. \E at \in {"domain", "loop", "checkpoint"} : y.pc = at
    BY <1>4 DEF Writes, Advanced
  <2> QED
    BY <1>4, <2>3, <2>4
<1>5. CASE x.pc \in {"announce", "fail", "complete"}
  BY <1>5 DEF Writes
<1> QED
  BY <1>1, <1>2, <1>3, <1>4, <1>5 DEF Writes

(* The replay writes the line the source wrote. *)
LEMMA FollowsWriter ==
  ASSUME NEW l, NEW cfg, Whole(l, cfg), NEW Z, NEW Y, Trace(l, cfg, Z, Y),
         NEW i, NEW end, NEW d, Segment(l, cfg, i, end, d),
         NEW led, NEW x, Following(l, cfg, Z, Y, i, end, led, x), x = Z[Len(led) + 1],
         end # None => Len(led) + 1 # end - 1
  PROVE  LET k == Len(led) + 1 m == Append(led, l[k]) IN
         Following(l, cfg, Z, Y, i, end, m, Y[k]) \/ Ended(l, end, m, Y[k])
<1> DEFINE k == Len(led) + 1
           m == Append(led, l[k])
<1>1. /\ Len(led) \in Nat /\ k \in i .. LastOf(l, end) /\ k - 1 = Len(led) /\ k \in 1 .. Len(l)
      /\ led \in Seq(Events) /\ l \in Seq(Events) /\ Len(l) \in Nat
      /\ \A j \in 1 .. Len(led) : led[j] = l[j]
  <2>1. Len(led) \in Nat
    BY LenProperties DEF Following
  <2> QED
    BY <2>1 DEF Following, Segment, LastOf, Whole
<1>2. /\ m \in Seq(Events) /\ Len(m) = k /\ \A j \in 1 .. k : m[j] = l[j]
  <2>1. l[k] \in Events
    BY <1>1, ElementOfSeq
  <2>2. m \in Seq(Events) /\ Len(m) = k /\ m[k] = l[k] /\ \A j \in 1 .. Len(led) : m[j] = led[j]
    BY <1>1, <2>1, AppendProperties
  <2>3. \A j \in 1 .. k : j = k \/ j \in 1 .. Len(led)
    BY <1>1
  <2> HIDE DEF m
  <2> QED
    BY <1>1, <2>2, <2>3
<1>3. Writes(As(cfg, l[k].run_id), k - 1, x, l[k], Y[k])
  BY <1>1 DEF Trace, Traced
<1> HIDE DEF m
<1>4. CASE k < LastOf(l, end)
  <2>1. l[k + 1].run_id = l[k].run_id /\ k < Len(l)
    <3>1. CASE end = None
      <4>1. k \in i .. Len(l) /\ k + 1 \in i .. Len(l) /\ k < Len(l)
        BY <1>1, <1>4, <3>1 DEF Segment, LastOf
      <4> QED
        BY <3>1, <4>1 DEF Segment
    <3>2. CASE end # None
      <4>1. k \in i .. end - 1 /\ k + 1 \in i .. end - 1 /\ k < Len(l)
        BY <1>1, <1>4, <3>2 DEF Segment, LastOf
      <4> QED
        BY <3>2, <4>1 DEF Segment
    <3> QED
      BY <3>1, <3>2
  <2>2. Reached(l, cfg, Y, k) = Y[k]
    BY <1>1, <2>1 DEF Reached, IdAfter
  <2>3. Y[k].pc # "fail"
    BY <1>1, <1>3, SealWriters DEF Trace
  <2>4. Len(m) + 1 \in i .. LastOf(l, end)
    BY <1>1, <1>2, <1>4 DEF Segment, LastOf, Whole
  <2> QED
    BY <1>2, <2>2, <2>3, <2>4 DEF Following, m
<1>5. CASE ~ k < LastOf(l, end)
  <2>1. end = None /\ k = Len(l)
    BY <1>1, <1>5 DEF Segment, LastOf
  <2>2. m = l
    BY <1>1, <1>2, <2>1, SeqEqual
  <2>3. l[k].event_type \in Seals
    BY <1>1, <2>1 DEF Whole
  <2>4. /\ x.pc \in {"fail", "complete"}
        /\ x.pc = "fail" => l[k].reason = x.failure /\ Y[k].pc = "failed"
        /\ x.pc = "complete" => l[k].event_type = "RunCompleted" /\ Y[k].pc = "completed"
    BY <1>1, <1>3, <2>3, SealWriters DEF Trace
  <2>5. ~ Untold(l)
    BY <2>1, <2>4 DEF Untold, Following
  <2> QED
    BY <2>1, <2>2, <2>4, <2>5 DEF Ended, m
<1> QED
  BY <1>4, <1>5 DEF m

LEMMA FollowsLine ==
  ASSUME NEW l, NEW cfg, Whole(l, cfg), NEW Z, NEW Y, Trace(l, cfg, Z, Y),
         NEW i, NEW end, NEW d, Segment(l, cfg, i, end, d),
         NEW led, NEW x, NEW e, NEW y, Following(l, cfg, Z, Y, i, end, led, x),
         x.pc # "propose", Writes(d, Len(led), x, e, y)
  PROVE  LET m == Append(led, e) IN
         \/ Following(l, cfg, Z, Y, i, end, m, y) \/ Ended(l, end, m, y)
         \/ \A files : Closing(l, Y, end, d, m, y, files)
<1> DEFINE k == Len(led) + 1
           m == Append(led, e)
           c == As(cfg, l[k].run_id)
<1>1. /\ Len(led) \in Nat /\ k \in i .. LastOf(l, end) /\ k - 1 = Len(led) /\ k \in 1 .. Len(l)
      /\ led \in Seq(Events) /\ l \in Seq(Events) /\ Len(l) \in Nat
      /\ \A j \in 1 .. Len(led) : led[j] = l[j]
  <2>1. Len(led) \in Nat
    BY LenProperties DEF Following
  <2> QED
    BY <2>1 DEF Following, Segment, LastOf, Whole
<1>2. /\ Traced(l, cfg, Z, Y, k) /\ c.run_id = d.run_id /\ Z[k] \in Locals /\ Y[k] \in Locals
  <2>1. l[k].run_id = d.run_id
    BY <1>1 DEF Segment, LastOf
  <2> QED
    BY <1>1, <2>1, TimeOfLine
<1>3. /\ Goes(c, Reached(l, cfg, Y, k - 1), Z[k]) /\ Writes(c, k - 1, Z[k], l[k], Y[k])
      /\ IdAfter(l, cfg, k) # l[k].run_id => AtBoundary(Y[k], l[k])
  BY <1>2 DEF Traced
<1>4. x = Reached(l, cfg, Y, k - 1) \/ x = Z[k]
  BY <1>1 DEF Following
<1>5. end # None /\ k = end - 1 /\ x.pc # "domain" => Alike(c, d, x)
  BY <1>1, <1>4, GoesOnAlike
<1>6. ~ (end # None /\ k = end - 1) => Alike(c, d, x)
  BY <1>1, <1>4, GoesOnAlike
<1> HIDE DEF c, m
<1>7. x = Z[k]
  <2> SUFFICES ASSUME x # Z[k] PROVE FALSE
    OBVIOUS
  <2>1. Silently(c, x, Z[k])
    BY <1>3, <1>4 DEF Goes
  <2>2. Quiet(c, x, Z[k]) /\ x.pc # "domain"
    BY <2>1, QuietPlaces DEF Silently, Raises
  <2>3. Alike(c, d, x)
    BY <1>5, <1>6, <2>2
  <2>4. x \in Locals
    <3>1. k - 1 \in 0 .. Len(l)
      BY <1>1
    <3> QED
      BY <1>1, <1>2, <1>4, <3>1, ReachedTyped
  <2>5. Writes(c, Len(led), x, e, y)
    BY <2>3, <2>4, LineAlike
  <2> QED
    BY <2>2, <2>5, QuietExclusive
<1>8. Writes(c, k - 1, x, l[k], Y[k]) /\ x \in Locals /\ Writes(d, k - 1, x, e, y)
  BY <1>1, <1>2, <1>3, <1>7
<1>9. ASSUME Alike(c, d, x) PROVE e = l[k] /\ y = Y[k]
  <2>1. Writes(c, k - 1, x, e, y)
    BY <1>8, <1>9, LineAlike
  <2> QED
    BY <1>8, <2>1, LineFunctional
<1>10. CASE ~ (end # None /\ k = end - 1)
  <2>1. e = l[k] /\ y = Y[k]
    BY <1>6, <1>9, <1>10
  <2>2. Following(l, cfg, Z, Y, i, end, m, y) \/ Ended(l, end, m, y)
    BY <1>7, <1>10, <2>1, FollowsWriter DEF m
  <2> QED
    BY <2>2 DEF m
<1>11. CASE end # None /\ k = end - 1
  <2>1. /\ end \in i + 1 .. Len(l) /\ l[end].run_id # d.run_id
        /\ d.stop_round = l[end].logical_time /\ l[k].run_id = d.run_id /\ end = k + 1 /\ k < Len(l)
    BY <1>1, <1>11 DEF Segment, LastOf
  <2>2. IdAfter(l, cfg, k) # l[k].run_id
    BY <2>1 DEF IdAfter
  <2>3. AtBoundary(Y[k], l[k]) /\ Reached(l, cfg, Y, k) = Fresh("loop", Y[k].state)
    BY <1>1, <1>3, <2>2 DEF Reached
  <2>4. x.pc = "domain" /\ Y[k].state = x.state
        /\ (Ends(d, x.state) => l[k] = e /\ y.pc = "loop" /\ y.state = x.state)
    BY <1>2, <1>8, <2>3, LastLineOfRound
  <2>5. d.stop_round = x.state.round /\ x.state.round \in Nat
    <3>1. end \in 1 .. Len(l) /\ end - 1 = k
      BY <1>1, <2>1
    <3>2. l[end].logical_time = Clock(Fresh("loop", Y[k].state))
      BY <2>3, <3>1, TimeOfLine
    <3> QED
      BY <1>8, <2>1, <2>4, <3>2, LocalsTyped DEF Clock, Fresh, Having
  <2>6. Ends(d, x.state)
    BY <2>5 DEF Ends
  <2>7. l[k] = e /\ y.pc = "loop" /\ y.state = x.state /\ l[k] \in Events
    BY <1>1, <2>4, <2>6, ElementOfSeq
  <2>8. /\ m \in Seq(Events) /\ Len(m) = k /\ m[k] = l[k]
        /\ \A j \in 1 .. Len(led) : m[j] = led[j]
    BY <1>1, <2>7, AppendProperties DEF m
  <2>9. \A j \in 1 .. end - 1 : m[j] = l[j]
    <3>1. \A j \in 1 .. end - 1 : j = k \/ j \in 1 .. Len(led)
      BY <1>1, <2>1
    <3> QED
      BY <1>1, <2>8, <3>1
  <2>10. Len(m) = end - 1
    BY <1>1, <2>1, <2>8
  <2>11. \A files : Closing(l, Y, end, d, m, y, files)
    BY <1>11, <2>4, <2>6, <2>7, <2>8, <2>9, <2>10 DEF Closing
  <2> QED
    BY <2>11 DEF m
<1> QED
  BY <1>10, <1>11

LEMMA RecordedSays ==
  ASSUME NEW l \in Seq(Events), NEW j, NEW t
  PROVE  /\ Recorded(l, j, t) = {} <=> ~ \E n \in 1 .. Len(l) : ProposalAt(l, n, j, t)
         /\ \A a : a \in Recorded(l, j, t)
                     <=> \E n \in 1 .. Len(l) : ProposalAt(l, n, j, t) /\ l[n].action = a
<1>1. \A a : a \in Recorded(l, j, t)
               <=> \E n \in 1 .. Len(l) : ProposalAt(l, n, j, t) /\ l[n].action = a
  <2>1. DOMAIN l = 1 .. Len(l)
    BY LenProperties
  <2>2. \A n : n \in {k \in Positions(l, "ActionProposed") :
                        l[k].agent = j /\ l[k].logical_time = t}
               <=> n \in 1 .. Len(l) /\ ProposalAt(l, n, j, t)
    BY <2>1 DEF Positions, ProposalAt
  <2> QED
    BY <2>2 DEF Recorded
<1> QED
  BY <1>1

(* What a replayed policy is told: the proposal of the source, its         *)
(* recorded error, or nothing, and that only where the source was sealed   *)
(* by an error that no ledger tells.                                       *)
PolicyTold(l, Z, Y, end, d, led, x) ==
  LET k == Len(led) + 1 t == x.state.round IN
  \/ \E a \in Actions :
       /\ ~ ProviderErrorAt(l, x.turn, t) /\ Recorded(l, x.turn, t) = {a}
       /\ x = Z[k] /\ (end # None => k # end - 1)
       /\ l[k] = Line(d, "ActionProposed", t, x.turn, a)
       /\ Y[k] = Having("validate", x.turn, a, x.accepted, x.failure, x.state)
  \/ ProviderErrorAt(l, x.turn, t) /\ Raises(x, "provider_error", Z[k])
  \/ ~ ProviderErrorAt(l, x.turn, t) /\ Recorded(l, x.turn, t) = {}
     /\ Untold(l) /\ end = None

LEMMA ProposalTold ==
  ASSUME NEW l, NEW cfg, Whole(l, cfg), NEW Z, NEW Y, Trace(l, cfg, Z, Y),
         NEW i, NEW end, NEW d, Segment(l, cfg, i, end, d),
         NEW led, NEW x, Following(l, cfg, Z, Y, i, end, led, x), x.pc = "propose"
  PROVE  PolicyTold(l, Z, Y, end, d, led, x)
<1> DEFINE k == Len(led) + 1
           t == x.state.round
           c == As(cfg, l[k].run_id)
<1>1. /\ Len(led) \in Nat /\ k \in i .. LastOf(l, end) /\ k - 1 = Len(led) /\ k \in 1 .. Len(l)
      /\ led \in Seq(Events) /\ l \in Seq(Events) /\ Len(l) \in Nat
  <2>1. Len(led) \in Nat
    BY LenProperties DEF Following
  <2> QED
    BY <2>1 DEF Following, Segment, LastOf, Whole
<1>2. /\ Traced(l, cfg, Z, Y, k) /\ c.run_id = d.run_id /\ Z[k] \in Locals /\ Y[k] \in Locals
  <2>1. l[k].run_id = d.run_id
    BY <1>1 DEF Segment, LastOf
  <2> QED
    BY <1>1, <2>1, TimeOfLine
<1>3. /\ Goes(c, Reached(l, cfg, Y, k - 1), Z[k]) /\ Writes(c, k - 1, Z[k], l[k], Y[k])
      /\ IdAfter(l, cfg, k) # l[k].run_id => AtBoundary(Y[k], l[k])
  BY <1>2 DEF Traced
<1>4. x = Reached(l, cfg, Y, k - 1) \/ x = Z[k]
  BY <1>1 DEF Following
<1>5. x \in Locals /\ x.turn \in Agents
  <2>1. k - 1 \in 0 .. Len(l)
    BY <1>1
  <2>2. x \in Locals
    BY <1>1, <1>2, <1>4, <2>1, ReachedTyped
  <2> QED
    BY <2>2 DEF Locals
<1> HIDE DEF c
<1>6. CASE x = Z[k]
  <2>1. PICK a \in Actions :
          /\ l[k] = Line(c, "ActionProposed", t, x.turn, a)
          /\ Y[k] = Having("validate", x.turn, a, x.accepted, x.failure, x.state)
    BY <1>3, <1>6 DEF Writes
  <2>2. l[k] = Line(d, "ActionProposed", t, x.turn, a)
    BY <1>2, <2>1 DEF Line, Entry
  <2>3. /\ ProposalAt(l, k, x.turn, t) /\ l[k].agent = x.turn /\ l[k].logical_time = t
        /\ l[k].action = a /\ l[k].event_type = "ActionProposed"
    BY <2>1 DEF Line, Entry, ProposalAt
  <2>4. \A n \in 1 .. Len(l) : ProposalAt(l, n, x.turn, t) => n = k
    BY <1>1, <2>3 DEF Whole, ProposeOnce
  <2>5. Recorded(l, x.turn, t) = {a}
    BY <1>1, <2>3, <2>4, RecordedSays
  <2>6. ~ ProviderErrorAt(l, x.turn, t)
    BY <2>5 DEF ProviderErrorAt
  <2>7. ASSUME end # None PROVE k # end - 1
    <3> SUFFICES ASSUME k = end - 1 PROVE FALSE
      OBVIOUS
    <3>1. IdAfter(l, cfg, k) # l[k].run_id
      BY <1>1, <2>7 DEF Segment, LastOf, IdAfter
    <3> QED
      BY <1>3, <2>3, <3>1 DEF AtBoundary, DomainTypes
  <2> QED
    BY <1>6, <2>1, <2>2, <2>5, <2>6, <2>7 DEF PolicyTold
<1>7. CASE x # Z[k]
  <2>1. PICK kind \in PolicyErrors : Raises(x, kind, Z[k])
    BY <1>3, <1>4, <1>7 DEF Goes, Silently, Quiet
  <2>2. /\ Z[k].pc = "fail" /\ Z[k].state = x.state
        /\ Z[k].failure = [kind |-> kind, agent |-> x.turn]
    BY <2>1 DEF Raises, Failing, Having
  <2>3. l[k] = Entry(c, "RunFailed", t, Engine, None, None, x.state, Z[k].failure)
    BY <1>3, <2>2 DEF Writes
  <2>4. /\ l[k].event_type = "RunFailed" /\ l[k].logical_time = t
        /\ l[k].reason = [kind |-> kind, agent |-> x.turn]
    BY <2>2, <2>3 DEF Entry
  <2>5. k = Len(l) /\ end = None
    <3>1. k = Len(l)
      BY <1>1, <2>4 DEF Whole, Seals
    <3> QED
      BY <1>1, <3>1 DEF Segment, LastOf
  <2>6. l[k].reason.kind = kind /\ l[k].reason.agent = x.turn
    BY <2>4
  <2>7. ProposedUpTo(l, t, x.turn - 1)
    BY <2>4, <2>5, <2>6 DEF Whole, SealTells
  <2>8. \A j \in Agents : Recorded(l, j, t) = {} <=> x.turn <= j
    <3> SUFFICES ASSUME NEW j \in Agents PROVE Recorded(l, j, t) = {} <=> x.turn <= j
      OBVIOUS
    <3>1. Recorded(l, j, t) = {} <=> ~ (j <= x.turn - 1)
      BY <1>1, <2>7, RecordedSays DEF ProposedUpTo
    <3>2. j \in Int /\ x.turn \in Int
      BY <1>5, SizeAssumption DEF Agents
    <3> QED
      BY <3>1, <3>2
  <2>9. ProviderErrorAt(l, x.turn, t) <=> kind = "provider_error"
    <3>1. x.turn <= x.turn
      BY <1>5, SizeAssumption DEF Agents
    <3> DEFINE silent == {j \in Agents : Recorded(l, j, t) = {}}
    <3>2. x.turn \in silent /\ \A j \in silent : x.turn <= j
      BY <1>5, <2>8, <3>1
    <3>3. ProviderErrorAt(l, x.turn, t) <=>
            l[k].reason = [kind |-> "provider_error", agent |-> x.turn]
      BY <2>4, <2>5, <3>2 DEF ProviderErrorAt
    <3>4. l[k].reason = [kind |-> "provider_error", agent |-> x.turn] => kind = "provider_error"
      BY <2>6
    <3> QED
      BY <2>4, <3>3, <3>4
  <2>10. Recorded(l, x.turn, t) = {}
    BY <1>5, <2>8, SizeAssumption DEF Agents
  <2>11. kind # "provider_error" => Untold(l)
    BY <2>4, <2>5, <2>6 DEF Untold, PolicyErrors
  <2> QED
    BY <2>1, <2>5, <2>9, <2>10, <2>11 DEF PolicyTold
<1> QED
  BY <1>6, <1>7

LEMMA FollowingRuns ==
  ASSUME NEW l, NEW cfg, Whole(l, cfg), NEW Z, NEW Y, Trace(l, cfg, Z, Y),
         NEW i, NEW end, NEW d, Segment(l, cfg, i, end, d),
         NEW led, NEW x, Following(l, cfg, Z, Y, i, end, led, x)
  PROVE  /\ x.pc \notin {"completed", "failed"}
         /\ x.pc = "rejected" => x.proposal = None
<1> DEFINE k == Len(led) + 1
           c == As(cfg, l[k].run_id)
<1>1. k - 1 = Len(led) /\ k \in 1 .. Len(l) /\ Len(l) \in Nat /\ k - 1 \in 0 .. Len(l)
  <2>1. Len(led) \in Nat
    BY LenProperties DEF Following
  <2> QED
    BY <2>1 DEF Following, Segment, LastOf, Whole
<1>2. Goes(c, Reached(l, cfg, Y, k - 1), Z[k]) /\ Writes(c, k - 1, Z[k], l[k], Y[k])
  BY <1>1 DEF Trace, Traced
<1>3. x = Reached(l, cfg, Y, k - 1) \/ x = Z[k]
  BY <1>1 DEF Following
<1>4. Reached(l, cfg, Y, k - 1).pc = "rejected" => Reached(l, cfg, Y, k - 1).proposal = None
  BY <1>1, ReachedTyped
<1> HIDE DEF c
<1>5. Z[k].pc \notin {"completed", "failed"}
  BY <1>2 DEF Writes
<1>6. CASE x = Z[k]
  BY <1>2, <1>4, <1>5, <1>6, QuietPlaces DEF Goes
<1>7. CASE x # Z[k]
  BY <1>2, <1>3, <1>4, <1>7, QuietPlaces DEF Goes
<1> QED
  BY <1>6, <1>7

-----------------------------------------------------------------------------
(* Families of runs and their replays *)

InReplay ==
  LET l == Source.ledger cfg == Source.config end == NextSegment(l, job.start) IN
  /\ job.start \in 1 .. Len(l) /\ config = SegmentConfig(Source, job.start)
  /\ \/ \E Z, Y : /\ Trace(l, cfg, Z, Y)
                  /\ \/ Following(l, cfg, Z, Y, job.start, end, ledger, Now)
                     \/ Closing(l, Y, end, config, ledger, Now, ckpts)
     \/ Ended(l, end, ledger, Now) \/ Lost(l, end, ledger, Now)

ReplayInv ==
  job.kind = "replay" =>
    /\ job.source \in DOMAIN archive
    /\ job.outcome = "pending" => InReplay
    /\ job.outcome # "pending" => (job.outcome = "diverged" <=> Untold(Source.ledger))

FamilyInv ==
  /\ LineageInv
  /\ \A r \in DOMAIN archive : Retraceable(archive[r])
  /\ job.kind \in {"run", "branch"} => LiveTrace
  /\ ReplayInv

LEMMA SourceWhole ==
  ASSUME FamilyInv, NEW r \in DOMAIN archive
  PROVE  Whole(archive[r].ledger, archive[r].config)
<1>1. PICK dir : dir = archive[r]
  OBVIOUS
<1>2. Filed(dir) /\ Retraceable(dir)
  BY <1>1 DEF FamilyInv, LineageInv, ArchiveInv
<1>3. dir.ledger \in Seq(Events) /\ dir.config \in Configs /\ LoadRun(dir)
  BY <1>2 DEF Filed
<1>4. DOMAIN dir.ledger = 1 .. Len(dir.ledger) /\ Len(dir.ledger) \in Nat
  BY <1>3, LenProperties
<1>5. /\ {k \in DOMAIN dir.ledger : dir.ledger[k].event_type \in Seals} = {Len(dir.ledger)}
      /\ dir.ledger[Len(dir.ledger)].run_id = dir.config.run_id
  BY <1>3 DEF LoadRun, ValidateRun
<1>6. Len(dir.ledger) # 0
  BY <1>4, <1>5
<1>7. \A k \in 1 .. Len(dir.ledger) : dir.ledger[k].event_type \in Seals <=> k = Len(dir.ledger)
  BY <1>4, <1>5
<1>8. Whole(dir.ledger, dir.config)
  BY <1>2, <1>3, <1>4, <1>5, <1>6, <1>7 DEF Retraceable, Whole
<1> QED
  BY <1>1, <1>8

LEMMA ReplayBegins ==
  ASSUME FamilyInv, NEW r \in DOMAIN archive, BeginReplay(r)
  PROVE  ReplayInv'
<1>1. PICK dir : dir = archive[r]
  OBVIOUS
<1>2. /\ UNCHANGED archive /\ config' = SegmentConfig(dir, 1)
      /\ Now' = Fresh("start", InitialState) /\ ledger' = << >>
      /\ job'.kind = "replay" /\ job'.source = r /\ job'.start = 1 /\ job'.outcome = "pending"
  BY <1>1 DEF BeginReplay, Launch, Idle, Now, Fresh, Having
<1>3. PICK l, cfg : l = dir.ledger /\ cfg = dir.config
  OBVIOUS
<1>4. Whole(l, cfg)
  BY <1>1, <1>3, SourceWhole
<1>5. PICK Z, Y : Trace(l, cfg, Z, Y)
  BY <1>1, <1>3 DEF FamilyInv, Retraceable
<1>6. PICK end : end = NextSegment(l, 1)
  OBVIOUS
<1>7. Segment(l, cfg, 1, end, SegmentConfig(dir, 1)) /\ 1 \in 1 .. Len(l)
  BY <1>3, <1>4, <1>6, SegmentFound DEF Whole
<1>8. Following(l, cfg, Z, Y, 1, end, << >>, Fresh("start", InitialState))
  <2>1. << >> \in Seq(Events) /\ Len(<< >>) = 0
    BY EmptySeq
  <2>2. 1 \in 1 .. LastOf(l, end)
    BY <1>4, <1>7 DEF Segment, LastOf, Whole
  <2>3. Fresh("start", InitialState).pc = "start"
    BY DEF Fresh, Having
  <2> QED
    BY <2>1, <2>2, <2>3 DEF Following, Reached
<1>9. archive'[job'.source] = dir
  BY <1>1, <1>2
<1>10. InReplay'
  BY <1>2, <1>3, <1>5, <1>6, <1>7, <1>8, <1>9 DEF InReplay, Source
<1> QED
  BY <1>2, <1>10 DEF ReplayInv

(* A step of the runner under a replay. *)
LEMMA ReplayStepKeeps ==
  ASSUME FamilyInv, ReplayStep
  PROVE  ReplayInv'
<1>1. /\ job.kind = "replay" /\ job.outcome = "pending" /\ UNCHANGED <<archive, job>>
      /\ EngineStep \/ ReplayPolicyStep
      /\ job.source \in DOMAIN archive /\ InReplay
  BY DEF ReplayStep, FamilyInv, ReplayInv
<1>2. PICK dir, i : dir = Source /\ i = job.start
  OBVIOUS
<1>3. PICK l, cfg, end : l = dir.ledger /\ cfg = dir.config /\ end = NextSegment(dir.ledger, i)
  OBVIOUS
<1>4. PICK d : d = SegmentConfig(dir, i)
  OBVIOUS
<1>5. PICK led, x, y, files : led = ledger /\ x = Now /\ y = Now' /\ files = ckpts
  OBVIOUS
<1>6. Whole(l, cfg)
  BY <1>1, <1>2, <1>3, SourceWhole DEF Source
<1>7. i \in 1 .. Len(l) /\ config = d
  BY <1>1, <1>2, <1>3, <1>4 DEF InReplay
<1>8. Segment(l, cfg, i, end, d)
  BY <1>3, <1>4, <1>6, <1>7, SegmentFound
<1>9. /\ x.pc = pc /\ x.state = state /\ x.turn = turn /\ x.proposal = proposal
      /\ x.accepted = accepted /\ x.failure = failure
  BY <1>5 DEF Now, Having
<1>10. ASSUME config' = d,
              \/ \E Z, Y : /\ Trace(l, cfg, Z, Y)
                           /\ \/ Following(l, cfg, Z, Y, i, end, ledger', y)
                              \/ Closing(l, Y, end, d, ledger', y, ckpts')
              \/ Ended(l, end, ledger', y) \/ Lost(l, end, ledger', y)
       PROVE  ReplayInv'
  <2>1. /\ job' = job /\ archive' = archive /\ Source' = dir /\ job.start = i
        /\ dir.ledger = l /\ dir.config = cfg
    BY <1>1, <1>2, <1>3 DEF Source
  <2>2. NextSegment(l, i) = end
    BY <1>3
  <2>3. InReplay'
    BY <1>4, <1>5, <1>7, <1>10, <2>1, <2>2 DEF InReplay
  <2> QED
    BY <1>1, <2>1, <2>3 DEF ReplayInv
<1>11. ASSUME EngineStep, pc = "rejected" => proposal = None
       PROVE  /\ config' = d
              /\ \/ ledger' = led /\ Quiet(d, x, y)
                 \/ \E e : ledger' = Append(led, e) /\ Writes(d, Len(led), x, e, y)
              /\ IF x.pc = "checkpoint" \/ (x.pc = "loop" /\ Ends(d, x.state))
                   THEN ledger' = led /\ ckpts' = WriteFile(files, Len(led) - 1, Snapshot(Len(led) - 1, x.state))
                   ELSE ckpts' = files
  BY <1>5, <1>7, <1>9, <1>11, StepTraced DEF LastSeq
<1>12. ReplayPolicyStep => pc = "propose"
  BY DEF ReplayPolicyStep, Propose, PolicyRaises
<1>13. EngineStep => pc # "propose"
  BY DEF EngineStep, StartRun, OpenRound, IssueObservation, AcceptProposal,
     RejectProposal, FallBackToAbstain, FailOnInvalidAction, Resolve, EmitDomainEvent,
     SaveCheckpoint, AnnounceCheckpoint, SealFailed, SaveFinalCheckpoint, SealCompleted
<1>14. ASSUME NEW Z, NEW Y, Trace(l, cfg, Z, Y), Following(l, cfg, Z, Y, i, end, led, x)
       PROVE  ReplayInv'
  <2>1. x.pc = "rejected" => x.proposal = None
    BY <1>6, <1>8, <1>14, FollowingRuns
  <2>2. CASE EngineStep
    <3>1. /\ config' = d /\ x.pc # "propose"
          /\ \/ ledger' = led /\ Quiet(d, x, y)
             \/ \E e : ledger' = Append(led, e) /\ Writes(d, Len(led), x, e, y)
      BY <1>9, <1>11, <1>13, <2>1, <2>2
    <3>2. CASE ledger' = led /\ Quiet(d, x, y)
      <4>1. Following(l, cfg, Z, Y, i, end, led, y)
        BY <1>6, <1>8, <1>14, <3>2, FollowsQuietly
      <4> QED
        BY <1>10, <1>14, <3>1, <3>2, <4>1
    <3>3. ASSUME NEW e, ledger' = Append(led, e), Writes(d, Len(led), x, e, y) PROVE ReplayInv'
      <4>1. PICK m : m = Append(led, e)
        OBVIOUS
      <4>2. \/ Following(l, cfg, Z, Y, i, end, m, y) \/ Ended(l, end, m, y)
            \/ \A f : Closing(l, Y, end, d, m, y, f)
        BY <1>6, <1>8, <1>14, <3>1, <3>3, <4>1, FollowsLine
      <4>3. ledger' = m
        BY <3>3, <4>1
      <4> QED
        BY <1>10, <1>14, <3>1, <4>2, <4>3
    <3> QED
      BY <3>1, <3>2, <3>3
  <2>3. CASE ReplayPolicyStep
    <3> DEFINE k == Len(led) + 1
               t == x.state.round
    <3>1. x.pc = "propose"
      BY <1>9, <1>12, <2>3
    <3>2. IF ProviderErrorAt(l, x.turn, t) THEN PolicyRaises("provider_error")
          ELSE IF Recorded(l, x.turn, t) = {} THEN PolicyRaises("unrecorded")
          ELSE \E action \in Recorded(l, x.turn, t) : Propose(action)
      BY <1>2, <1>3, <1>9, <2>3 DEF ReplayPolicyStep
    <3>3. \/ \E a \in Actions :
               /\ ~ ProviderErrorAt(l, x.turn, t) /\ Recorded(l, x.turn, t) = {a}
               /\ x = Z[k] /\ (end # None => k # end - 1)
               /\ l[k] = Line(d, "ActionProposed", t, x.turn, a)
               /\ Y[k] = Having("validate", x.turn, a, x.accepted, x.failure, x.state)
          \/ ProviderErrorAt(l, x.turn, t) /\ Raises(x, "provider_error", Z[k])
          \/ ~ ProviderErrorAt(l, x.turn, t) /\ Recorded(l, x.turn, t) = {}
             /\ Untold(l) /\ end = None
      <4>1. PolicyTold(l, Z, Y, end, d, led, x)
        BY <1>6, <1>8, <1>14, <3>1, ProposalTold
      <4> QED
        BY <4>1 DEF PolicyTold
    <3> HIDE DEF k, t
    <3>4. ASSUME NEW a \in Actions, ~ ProviderErrorAt(l, x.turn, t),
                 Recorded(l, x.turn, t) = {a}, x = Z[k], end # None => k # end - 1,
                 l[k] = Line(d, "ActionProposed", t, x.turn, a),
                 Y[k] = Having("validate", x.turn, a, x.accepted, x.failure, x.state)
          PROVE  ReplayInv'
      <4>1. Propose(a)
        BY <3>2, <3>4
      <4>2. config' = d /\ y = Y[k]
        BY <1>5, <1>7, <1>9, <3>4, <4>1 DEF Propose, Now, Having
      <4>3. ledger' = Append(led, l[k])
        <5>1. Event("ActionProposed", state.round, turn, a) = l[k]
          BY <1>7, <1>9, <3>4 DEF Event, Line, Entry, t
        <5> QED
          BY <1>5, <4>1, <5>1 DEF Propose, Emit
      <4>4. PICK m : m = Append(led, l[k])
        OBVIOUS
      <4>5. Following(l, cfg, Z, Y, i, end, m, Y[k]) \/ Ended(l, end, m, Y[k])
        BY <1>6, <1>8, <1>14, <3>4, <4>4, FollowsWriter DEF k
      <4> QED
        BY <1>10, <1>14, <4>2, <4>3, <4>4, <4>5
    <3>5. CASE ProviderErrorAt(l, x.turn, t) /\ Raises(x, "provider_error", Z[k])
      <4>1. PolicyRaises("provider_error")
        BY <3>2, <3>5
      <4>2. config' = d /\ ledger' = led /\ Raises(x, "provider_error", y)
        BY <1>5, <1>7, <4>1, RaiseTraced
      <4>3. y = Z[k] /\ y.failure.kind = "provider_error"
        BY <3>5, <4>2 DEF Raises, Failing, Having
      <4>4. Following(l, cfg, Z, Y, i, end, led, y)
        BY <1>14, <4>3 DEF Following, k
      <4> QED
        BY <1>10, <1>14, <4>2, <4>4
    <3>6. CASE ~ ProviderErrorAt(l, x.turn, t) /\ Recorded(l, x.turn, t) = {}
               /\ Untold(l) /\ end = None
      <4>1. PolicyRaises("unrecorded")
        BY <3>2, <3>6
      <4>2. config' = d /\ ledger' = led /\ Raises(x, "unrecorded", y)
        BY <1>5, <1>7, <4>1, RaiseTraced
      <4>3. y.pc = "fail" /\ y.failure.kind = "unrecorded" /\ led \in Seq(Events)
        BY <1>14, <4>2 DEF Raises, Failing, Having, Following
      <4>4. Lost(l, end, led, y)
        BY <3>6, <4>3 DEF Lost
      <4> QED
        BY <1>10, <4>2, <4>4
    <3> QED
      BY <3>3, <3>4, <3>5, <3>6
  <2> QED
    BY <1>1, <2>2, <2>3
<1>15. ASSUME NEW Z, NEW Y, Trace(l, cfg, Z, Y), Closing(l, Y, end, d, led, x, files)
       PROVE  ReplayInv'
  <2>1. /\ x.pc \in {"loop", "complete", "completed"} /\ end # None /\ Ends(d, x.state)
        /\ x.state = Y[end - 1].state
    BY <1>15 DEF Closing
  <2>2. EngineStep /\ (pc = "rejected" => proposal = None)
    BY <1>1, <1>9, <1>12, <2>1
  <2>3. CASE x.pc = "loop"
    <3>1. led \in Seq(Events) /\ Len(led) = end - 1 /\ end \in Nat
      BY <1>8, <1>15, <2>3 DEF Closing, Segment
    <3>2. /\ config' = d /\ ledger' = led /\ y = At(x, "complete")
          /\ ckpts' = WriteFile(files, Len(led) - 1, Snapshot(Len(led) - 1, x.state))
      <4>1. \A n, e, z : ~ Writes(d, n, x, e, z)
        BY <2>1, <2>3 DEF Writes
      <4>2. Quiet(d, x, y) => y = At(x, "complete")
        BY <2>1, <2>3 DEF Quiet
      <4> QED
        BY <1>11, <2>1, <2>2, <2>3, <4>1, <4>2
    <3>3. y.pc = "complete" /\ y.state = x.state
      BY <3>2 DEF At, Having
    <3>4. Len(led) - 1 = end - 2
      BY <3>1
    <3>5. ckpts'[end - 2].state = x.state
      <4>1. ckpts'[end - 2] = Snapshot(end - 2, x.state)
        BY <3>2, <3>4 DEF WriteFile
      <4> QED
        BY <4>1 DEF Snapshot
    <3>6. Closing(l, Y, end, d, led, y, ckpts')
      BY <1>15, <2>1, <3>1, <3>3, <3>5 DEF Closing
    <3> QED
      BY <1>10, <1>15, <3>2, <3>6
  <2>4. CASE x.pc = "complete"
    <3>1. led \in Seq(Events) /\ Len(led) = end - 1 /\ end \in Nat /\ files[end - 2].state = x.state
      BY <1>8, <1>15, <2>4 DEF Closing, Segment
    <3>2. PICK e : ledger' = Append(led, e) /\ Writes(d, Len(led), x, e, y)
      BY <1>11, <2>2, <2>4 DEF Quiet
    <3>3. config' = d /\ ckpts' = files /\ y.pc = "completed" /\ y.state = x.state
      <4>1. y = At(x, "completed")
        BY <2>4, <3>2 DEF Writes
      <4> QED
        BY <1>11, <2>2, <2>4, <4>1 DEF At, Having
    <3>4. Len(ledger') = end /\ \A k \in 1 .. end - 1 : ledger'[k] = led[k]
      BY <3>1, <3>2, AppendAny
    <3>5. Closing(l, Y, end, d, ledger', y, ckpts')
      BY <1>15, <2>1, <3>1, <3>3, <3>4 DEF Closing
    <3> QED
      BY <1>10, <1>15, <3>3, <3>5
  <2>5. CASE x.pc = "completed"
    BY <1>11, <2>2, <2>5 DEF Quiet, Writes
  <2> QED
    BY <2>1, <2>3, <2>4, <2>5
<1>16. ASSUME Ended(l, end, led, x) PROVE ReplayInv'
  <2>1. x.pc \in {"completed", "failed"}
    BY <1>16 DEF Ended
  <2>2. EngineStep /\ (pc = "rejected" => proposal = None)
    BY <1>1, <1>9, <1>12, <2>1
  <2> QED
    BY <1>11, <2>1, <2>2 DEF Quiet, Writes
<1>17. ASSUME Lost(l, end, led, x) PROVE ReplayInv'
  <2>1. x.pc \in {"fail", "failed"}
    BY <1>17 DEF Lost
  <2>2. EngineStep /\ (pc = "rejected" => proposal = None)
    BY <1>1, <1>9, <1>12, <2>1
  <2>3. PICK e : ledger' = Append(led, e) /\ Writes(d, Len(led), x, e, y)
    BY <1>11, <2>1, <2>2 DEF Quiet
  <2>4. x.pc = "fail"
    BY <2>1, <2>3 DEF Writes
  <2>5. x.failure.kind = "unrecorded" /\ led \in Seq(Events)
    BY <1>17, <2>4 DEF Lost
  <2>6. e.reason = x.failure /\ y.pc = "failed"
    BY <2>3, <2>4 DEF Writes, Entry, At, Having
  <2>7. ledger'[Len(ledger')].reason.kind = "unrecorded"
    <3>1. ledger'[Len(ledger')] = e
      BY <2>3, <2>5, AppendAny
    <3> QED
      BY <2>5, <2>6, <3>1
  <2>8. Lost(l, end, ledger', y)
    BY <1>17, <2>6, <2>7 DEF Lost
  <2>9. config' = d
    BY <1>11, <2>2
  <2> QED
    BY <1>10, <2>8, <2>9
<1>18. \/ \E Z, Y : /\ Trace(l, cfg, Z, Y)
                    /\ \/ Following(l, cfg, Z, Y, i, end, led, x)
                       \/ Closing(l, Y, end, d, led, x, files)
       \/ Ended(l, end, led, x) \/ Lost(l, end, led, x)
  BY <1>1, <1>2, <1>3, <1>5, <1>7 DEF InReplay
<1> QED
  BY <1>14, <1>15, <1>16, <1>17, <1>18

(* An inner segment ends closing: with the lines and the state of its source. *)
LEMMA SegmentCloses ==
  ASSUME FamilyInv, NextReplaySegment
  PROVE  LET l == Source.ledger end == NextSegment(l, job.start) IN
         \E Z, Y : Trace(l, Source.config, Z, Y) /\ Closing(l, Y, end, config, ledger, Now, ckpts)
<1>1. PICK dir, i : dir = Source /\ i = job.start
  OBVIOUS
<1>2. PICK l, cfg, end : l = dir.ledger /\ cfg = dir.config /\ end = NextSegment(dir.ledger, i)
  OBVIOUS
<1>3. /\ job.kind = "replay" /\ job.outcome = "pending" /\ Sealed /\ end # None
      /\ UNCHANGED archive /\ job.source \in DOMAIN archive /\ InReplay
  BY <1>1, <1>2 DEF NextReplaySegment, FamilyInv, ReplayInv
<1>4. Whole(l, cfg)
  BY <1>1, <1>2, <1>3, SourceWhole DEF Source
<1>5. PICK d : d = SegmentConfig(dir, i)
  OBVIOUS
<1>6. i \in 1 .. Len(l) /\ config = d
  BY <1>1, <1>2, <1>3, <1>5 DEF InReplay
<1>7. Segment(l, cfg, i, end, d)
  BY <1>2, <1>4, <1>5, <1>6, SegmentFound
<1>8. Now.pc = pc /\ pc \in {"completed", "failed"}
  BY <1>3 DEF Now, Having, Sealed
<1>9. \E Z, Y : Trace(l, cfg, Z, Y) /\ Closing(l, Y, end, d, ledger, Now, ckpts)
  <2>1. ~ Ended(l, end, ledger, Now) /\ ~ Lost(l, end, ledger, Now)
    BY <1>3 DEF Ended, Lost
  <2>2. ASSUME NEW Z, NEW Y, Trace(l, cfg, Z, Y)
        PROVE  ~ Following(l, cfg, Z, Y, i, end, ledger, Now)
    BY <1>4, <1>7, <1>8, <2>2, FollowingRuns
  <2> QED
    BY <1>1, <1>2, <1>3, <1>6, <2>1, <2>2 DEF InReplay
<1> QED
  BY <1>1, <1>2, <1>6, <1>9

(* At the end of an inner segment the replay goes on where the source did. *)
LEMMA NextSegmentKeeps ==
  ASSUME FamilyInv, NextReplaySegment
  PROVE  ReplayInv'
<1>1. PICK dir, i : dir = Source /\ i = job.start
  OBVIOUS
<1>2. PICK l, cfg, end : l = dir.ledger /\ cfg = dir.config /\ end = NextSegment(dir.ledger, i)
  OBVIOUS
<1>3. /\ job.kind = "replay" /\ job.outcome = "pending" /\ Sealed /\ end # None
      /\ UNCHANGED archive /\ job.source \in DOMAIN archive /\ InReplay
  BY <1>1, <1>2 DEF NextReplaySegment, FamilyInv, ReplayInv
<1>4. Whole(l, cfg)
  BY <1>1, <1>2, <1>3, SourceWhole DEF Source
<1>5. PICK d : d = SegmentConfig(dir, i)
  OBVIOUS
<1>6. i \in 1 .. Len(l) /\ config = d
  BY <1>1, <1>2, <1>3, <1>5 DEF InReplay
<1>7. Segment(l, cfg, i, end, d)
  BY <1>2, <1>4, <1>5, <1>6, SegmentFound
<1>8. Now.pc = pc /\ pc \in {"completed", "failed"}
  BY <1>3 DEF Now, Having, Sealed
<1>9. PICK Z, Y : Trace(l, cfg, Z, Y) /\ Closing(l, Y, end, d, ledger, Now, ckpts)
  BY <1>1, <1>2, <1>6, SegmentCloses
<1>10. /\ pc = "completed" /\ Len(ledger) = end /\ ckpts[end - 2].state = Y[end - 1].state
       /\ \A k \in 1 .. end - 1 : ledger[k] = l[k]
  BY <1>8, <1>9 DEF Closing
<1>11. /\ end \in 2 .. Len(l) /\ end - 1 \in 1 .. Len(l) /\ Len(l) \in Nat /\ l \in Seq(Events)
       /\ end - 1 < Len(l) /\ end - 1 + 1 = end /\ l[end].run_id # l[end - 1].run_id
  BY <1>3, <1>4, <1>7 DEF Segment, Whole
<1> DEFINE lines == SubSeq(ledger, 1, Len(ledger) - 1)
           s == Y[end - 1].state
<1>12. /\ lines \in Seq(Events) /\ Len(lines) = end - 1
       /\ \A k \in 1 .. end - 1 : lines[k] = l[k]
       /\ lines = SubSeq(l, 1, end - 1)
  <2>1. \A k \in 1 .. end - 1 : l[k] \in Events /\ ledger[k] = l[k]
    <3>1. \A k \in 1 .. end - 1 : k \in 1 .. Len(l)
      BY <1>11
    <3> QED
      BY <1>10, <1>11, <3>1, ElementOfSeq
  <2>2. lines = SubSeq(ledger, 1, end - 1)
    BY <1>10
  <2>3. /\ lines \in Seq(Events) /\ Len(lines) = end - 1
        /\ \A k \in 1 .. end - 1 : lines[k] = l[k]
    BY <1>11, <2>1, <2>2, SubSeqProperties
  <2>4. /\ SubSeq(l, 1, end - 1) \in Seq(Events) /\ Len(SubSeq(l, 1, end - 1)) = end - 1
        /\ \A k \in 1 .. end - 1 : SubSeq(l, 1, end - 1)[k] = l[k]
    BY <1>11, <2>1, SubSeqProperties
  <2> HIDE DEF lines
  <2>5. lines = SubSeq(l, 1, end - 1)
    BY <2>3, <2>4, SeqEqual
  <2> QED
    BY <2>3, <2>5
<1>13. /\ Launch(SegmentConfig(Source, end), ckpts[Len(ledger) - 2].state, lines, ckpts, "loop")
       /\ job' = [job EXCEPT !.start = end]
  BY <1>1, <1>2, <1>10, <1>12 DEF NextReplaySegment
<1> HIDE DEF lines, s
<1>14. /\ config' = SegmentConfig(dir, end) /\ ledger' = lines /\ Now' = Fresh("loop", s)
  BY <1>1, <1>10, <1>13 DEF Launch, Now, Fresh, Having, s
<1>15. /\ job'.kind = "replay" /\ job'.outcome = "pending" /\ job'.start = end
       /\ job'.source = job.source /\ Source' = dir
  <2>1. job = [kind |-> job.kind, source |-> job.source, fork |-> job.fork,
               changed |-> job.changed, policies |-> job.policies, start |-> job.start,
               outcome |-> job.outcome]
    BY DEF FamilyInv, LineageInv
  <2>2. /\ job'.kind = job.kind /\ job'.outcome = job.outcome /\ job'.start = end
        /\ job'.source = job.source
    BY <1>13, <2>1
  <2> QED
    BY <1>1, <1>3, <2>2 DEF Source
<1>16. PICK stop : stop = NextSegment(l, end)
  OBVIOUS
<1>17. Segment(l, cfg, end, stop, SegmentConfig(dir, end)) /\ end \in 1 .. Len(l)
  BY <1>2, <1>4, <1>11, <1>16, SegmentFound
<1>18. Following(l, cfg, Z, Y, end, stop, lines, Fresh("loop", s))
  <2>1. Reached(l, cfg, Y, end - 1) = Fresh("loop", s)
    BY <1>11 DEF Reached, IdAfter, s
  <2>2. end \in end .. LastOf(l, stop)
    BY <1>11, <1>17 DEF Segment, LastOf
  <2>3. Fresh("loop", s).pc = "loop"
    BY DEF Fresh, Having
  <2> QED
    BY <1>11, <1>12, <2>1, <2>2, <2>3 DEF Following
<1>19. InReplay'
  BY <1>2, <1>9, <1>14, <1>15, <1>16, <1>17, <1>18 DEF InReplay
<1> QED
  BY <1>3, <1>15, <1>19 DEF ReplayInv

(* The verdict on the whole ledger *)
LEMMA FinishKeeps ==
  ASSUME FamilyInv, FinishReplay
  PROVE  ReplayInv'
<1>1. PICK dir, i : dir = Source /\ i = job.start
  OBVIOUS
<1>2. PICK l, cfg, end : l = dir.ledger /\ cfg = dir.config /\ end = NextSegment(dir.ledger, i)
  OBVIOUS
<1>3. /\ job.kind = "replay" /\ job.outcome = "pending" /\ Sealed /\ end = None
      /\ UNCHANGED <<vars, archive>> /\ job.source \in DOMAIN archive /\ InReplay
      /\ job' = [job EXCEPT !.outcome = IF ledger = l THEN "match" ELSE "diverged"]
  BY <1>1, <1>2 DEF FinishReplay, FamilyInv, ReplayInv
<1>4. Whole(l, cfg)
  BY <1>1, <1>2, <1>3, SourceWhole DEF Source
<1>5. PICK d : d = SegmentConfig(dir, i)
  OBVIOUS
<1>6. Segment(l, cfg, i, end, d)
  BY <1>1, <1>2, <1>3, <1>4, <1>5, SegmentFound DEF InReplay
<1>7. Now.pc = pc /\ pc \in {"completed", "failed"}
  BY <1>3 DEF Now, Having, Sealed
<1>8. Ended(l, end, ledger, Now) \/ Lost(l, end, ledger, Now)
  <2>1. ASSUME NEW Z, NEW Y, Trace(l, cfg, Z, Y)
        PROVE  ~ Following(l, cfg, Z, Y, i, end, ledger, Now)
    BY <1>4, <1>6, <1>7, <2>1, FollowingRuns
  <2>2. \A Y : ~ Closing(l, Y, end, config, ledger, Now, ckpts)
    BY <1>3 DEF Closing
  <2> QED
    BY <1>1, <1>2, <1>3, <2>1, <2>2 DEF InReplay
<1>9. ledger = l <=> ~ Untold(l)
  <2>1. CASE Ended(l, end, ledger, Now)
    BY <2>1 DEF Ended
  <2>2. CASE Lost(l, end, ledger, Now)
    <3>1. Untold(l) /\ ledger[Len(ledger)].reason.kind = "unrecorded"
      BY <1>7, <2>2 DEF Lost
    <3>2. l[Len(l)].reason.kind = "policy_error"
      BY <3>1 DEF Untold
    <3> QED
      BY <3>1, <3>2
  <2> QED
    BY <1>8, <2>1, <2>2
<1>10. /\ job'.kind = "replay" /\ job'.source = job.source
       /\ job'.outcome = IF ledger = l THEN "match" ELSE "diverged"
  <2>1. job = [kind |-> job.kind, source |-> job.source, fork |-> job.fork,
               changed |-> job.changed, policies |-> job.policies, start |-> job.start,
               outcome |-> job.outcome]
    BY DEF FamilyInv, LineageInv
  <2> QED
    BY <1>3, <2>1
<1>11. Source' = dir
  BY <1>1, <1>3, <1>10 DEF Source
<1> QED
  BY <1>2, <1>3, <1>9, <1>10, <1>11 DEF ReplayInv

LEMMA FiledLast ==
  ASSUME \E S : archive \in Seq(S), NEW dir, archive' = Append(archive, dir)
  PROVE  \A r \in DOMAIN archive' : \/ r \in DOMAIN archive /\ archive'[r] = archive[r]
                                   \/ archive'[r] = dir
<1>1. PICK S : archive \in Seq(S)
  OBVIOUS
<1> DEFINE T == S \cup {dir}
<1>2. archive \in Seq(T) /\ dir \in T
  BY <1>1, SeqMonotonic
<1> HIDE DEF T
<1>3. /\ Len(archive) \in Nat /\ DOMAIN archive = 1 .. Len(archive)
      /\ archive' \in Seq(T) /\ Len(archive') = Len(archive) + 1
      /\ archive'[Len(archive) + 1] = dir
      /\ \A r \in 1 .. Len(archive) : archive'[r] = archive[r]
  BY <1>2, AppendProperties, LenProperties
<1>4. DOMAIN archive' = 1 .. Len(archive) + 1
  BY <1>3, LenProperties
<1>5. \A r \in 1 .. Len(archive) + 1 : r \in 1 .. Len(archive) \/ r = Len(archive) + 1
  BY <1>3
<1> QED
  BY <1>3, <1>4, <1>5

LEMMA FamilyStep == FamilyInv /\ [LineageNext]_lineageVars => FamilyInv'
<1> SUFFICES ASSUME FamilyInv, [LineageNext]_lineageVars PROVE FamilyInv'
  OBVIOUS
<1>1. LineageInv /\ LineageInv'
  BY LineageStep DEF FamilyInv
<1>2. ASSUME UNCHANGED archive PROVE \A r \in DOMAIN archive' : Retraceable(archive'[r])
  BY <1>2 DEF FamilyInv
<1>3. CASE LiveStep
  <2>1. /\ job.kind \in {"run", "branch"}
        /\ EngineStep \/ PolicyStep
        /\ archive' = archive /\ job' = job
    BY <1>3 DEF LiveStep
  <2>2. EpisodeInv /\ LiveTrace
    BY <1>1, <2>1 DEF LineageInv, FamilyInv
  <2>3. LiveTrace'
    BY <2>1, <2>2, LiveTraceStep
  <2> QED
    BY <1>1, <1>2, <2>1, <2>3 DEF FamilyInv, ReplayInv
<1>4. CASE FileRun
  <2>1. /\ job.kind \in {"run", "branch"} /\ Sealed /\ job'.kind = "idle"
        /\ archive' = Append(archive, RunDir)
    BY <1>4 DEF FileRun, Idle
  <2>2. PICK dir : dir = RunDir
    OBVIOUS
  <2>3. Retraceable(dir)
    BY <2>1, <2>2, FiledTrace DEF FamilyInv
  <2>4. \A r \in DOMAIN archive' : \/ r \in DOMAIN archive /\ archive'[r] = archive[r]
                                   \/ archive'[r] = dir
    BY <1>1, <2>1, <2>2, FiledLast DEF LineageInv
  <2>5. \A r \in DOMAIN archive' : Retraceable(archive'[r])
    BY <2>3, <2>4 DEF FamilyInv
  <2> QED
    BY <1>1, <2>1, <2>5 DEF FamilyInv, ReplayInv
<1>5. ASSUME NEW p \in DOMAIN archive, NEW seq \in DOMAIN archive[p].ckpts,
             NEW child \in RunIds, NEW changed \in Overrides, Fork(p, seq, child, changed)
      PROVE  FamilyInv'
  <2>1. LiveTrace'
    BY <1>1, <1>5, ForkTrace DEF FamilyInv
  <2>2. UNCHANGED archive /\ job'.kind = "branch"
    BY <1>5 DEF Fork, Idle
  <2> QED
    BY <1>1, <1>2, <2>1, <2>2 DEF FamilyInv, ReplayInv
<1>6. ASSUME UNCHANGED archive, job'.kind = "replay", ReplayInv' PROVE FamilyInv'
  BY <1>1, <1>2, <1>6 DEF FamilyInv
<1>7. ASSUME NEW r \in DOMAIN archive, BeginReplay(r) PROVE FamilyInv'
  <2>1. UNCHANGED archive /\ job'.kind = "replay"
    BY <1>7 DEF BeginReplay, Idle
  <2> QED
    BY <1>6, <1>7, <2>1, ReplayBegins
<1>8. CASE ReplayStep \/ NextReplaySegment \/ FinishReplay
  <2>1. UNCHANGED archive /\ job'.kind = "replay"
    <3>1. job = [kind |-> job.kind, source |-> job.source, fork |-> job.fork,
                 changed |-> job.changed, policies |-> job.policies, start |-> job.start,
                 outcome |-> job.outcome]
      BY <1>1 DEF LineageInv
    <3>2. /\ UNCHANGED archive /\ job.kind = "replay"
          /\ \/ UNCHANGED job
             \/ \E v : job' = [job EXCEPT !.outcome = v] \/ job' = [job EXCEPT !.start = v]
      BY <1>8 DEF ReplayStep, NextReplaySegment, FinishReplay
    <3> QED
      BY <3>1, <3>2
  <2> QED
    BY <1>6, <1>8, <2>1, ReplayStepKeeps, NextSegmentKeeps, FinishKeeps
<1>9. CASE DiscardReplay
  <2>1. UNCHANGED archive /\ job'.kind = "idle"
    BY <1>9 DEF DiscardReplay, Idle
  <2> QED
    BY <1>1, <1>2, <2>1 DEF FamilyInv, ReplayInv
<1>10. CASE UNCHANGED lineageVars
  BY <1>1, <1>10 DEF FamilyInv, ReplayInv, InReplay, Source, LiveTrace, Now, lineageVars, vars
<1> QED
  BY <1>3, <1>4, <1>5, <1>7, <1>8, <1>9, <1>10 DEF LineageNext

LEMMA FamilyInit == LineageInit => FamilyInv
<1> SUFFICES ASSUME LineageInit PROVE FamilyInv
  OBVIOUS
<1>1. Init /\ archive = << >> /\ job.kind = "run"
  BY DEF LineageInit, Idle
<1>2. LiveTrace /\ LineageInv /\ DOMAIN archive = {}
  BY <1>1, StartTrace, StartsRight
<1> QED
  BY <1>1, <1>2 DEF FamilyInv, ReplayInv

LEMMA FamilyAlways == LineageSpec => []FamilyInv
BY FamilyInit, FamilyStep, PTL DEF LineageSpec

-----------------------------------------------------------------------------
(* The theorems *)

(* branch_run and the readers agree, at any depth of ancestry: every sealed *)
(* run filed, a fork of a fork of a failed run included, is accepted by     *)
(* load_run, and each of its checkpoints can be forked again except one at  *)
(* the fork point itself (branching.py:113, 147-209 against                 *)
(* validation.py:82-168).                                                   *)
THEOREM FiledRunsAlwaysLoad == LineageSpec => []FiledRunsLoad
<1>1. LineageInv => FiledRunsLoad
  BY DEF LineageInv, ArchiveInv, Filed, FiledRunsLoad, RunsAtRest, Runs
<1>2. QED
  BY <1>1, LineageAlways, PTL

(* What a branch is sealed with, and saves, is what its whole ledger adds   *)
(* up to, the lines copied from every ancestor included: a fork never       *)
(* starts from a state other than the one its copy ends at.                 *)
THEOREM BranchesAlwaysAccount == LineageSpec => []BranchesAccountForAncestry
<1>1. LineageInv => BranchesAccountForAncestry
  BY DEF LineageInv, ArchiveInv, Filed, BranchesAccountForAncestry, RunsAtRest, Runs
<1>2. QED
  BY <1>1, LineageAlways, PTL

(* An agent of a branch that branch.json does not list as changed plays     *)
(* under the policy it had in the parent, for every chain of branches       *)
(* (branching.py:131-133).                                                  *)
THEOREM PoliciesAlwaysInherited == LineageSpec => []PoliciesAreInherited
<1>1. LineageInv => PoliciesAreInherited
  BY DEF LineageInv, ArchiveInv, Descends, Inherits, PoliciesAreInherited, RunsAtRest, Runs
<1>2. QED
  BY <1>1, LineageAlways, PTL

(* Replay is exact for whole families: segment by segment, each one with    *)
(* its ancestor's identity and a checkpoint where the next one started, it  *)
(* writes again every line of a sealed run, forks of forks and runs that    *)
(* failed included, and says so.  The one exception is a run sealed by an   *)
(* exception of a policy other than a provider error, of which the ledger   *)
(* holds only the seal: there the replay fails too, for another reason      *)
(* (agents/replay.py:49-56, engine/replay.py).                              *)
THEOREM ReplaysAlwaysReproduce == LineageSpec => []ReplayReproduces
<1>1. FamilyInv => ReplayReproduces
  BY DEF FamilyInv, ReplayInv, ReplayReproduces, Untold
<1>2. QED
  BY <1>1, FamilyAlways, PTL

-----------------------------------------------------------------------------
(* Progress.  An episode of a family goes down like any other, and so does *)
(* a replay, which starts an episode per segment: the line its segment     *)
(* starts at moves on.  What is left of ReplaysEnd is the fairness.        *)

Pending == job.kind = "replay" /\ job.outcome = "pending"

(* the most steps a replay still takes: every line of the source could     *)
(* start a segment of its own, and the verdict comes last                  *)
ReplayLeft ==
  IF Pending
    THEN (Len(Source.ledger) - job.start) * (MostSteps + 1) + Ahead + 1
    ELSE 0

(* What is saved, and may be forked, is a state of some round. *)
SavedInv ==
  /\ job.kind \in {"run", "branch"} =>
       \A seq \in DOMAIN ckpts : ckpts[seq].state.round <= MaxRounds
  /\ \A r \in DOMAIN archive : \A seq \in DOMAIN archive[r].ckpts :
       archive[r].ckpts[seq].state.round <= MaxRounds

RunDownInv == FamilyInv /\ PlaceInv /\ SavedInv

(* An episode has fewer steps ahead at its start than one from round 0. *)
AheadAtStart == pc = "loop" => Ahead <= MostSteps

LEMMA StartsBelow == PlaceInv => AheadAtStart
<1> SUFFICES ASSUME PlaceInv, pc = "loop" PROVE Ahead <= MostSteps
  BY DEF AheadAtStart
<1>1. Ahead = Later + 2
  BY DEF Ahead
<1>2. RoundSteps \in Nat
  BY LaterCounts
<1>3. PICK r, l, R : /\ r = state.round /\ l = MaxRounds - state.round /\ R = RoundSteps
  OBVIOUS
<1>4. r \in Nat /\ l \in Nat /\ R \in Nat /\ MaxRounds = l + r
  BY <1>2, <1>3, SizeAssumption DEF PlaceInv, Within
<1>5. (l + r) * R = l * R + r * R /\ l * R \in Nat /\ r * R \in Nat
  BY <1>4
<1>6. Later = l * R /\ MostSteps = (l + r) * R + 3
  BY <1>3, <1>4 DEF Later, MostSteps
<1> QED
  BY <1>1, <1>5, <1>6

LEMMA LaunchPlaces ==
  ASSUME NEW cfg, NEW s \in States, s.round <= MaxRounds, NEW lines \in Seq(Events), NEW files,
         NEW at \in {"start", "loop"}, Launch(cfg, s, lines, files, at)
  PROVE  PlaceInv'
<1>1. "round" \in DOMAIN s /\ s.round \in Nat /\ MaxRounds \in Nat
  BY SizeAssumption DEF States
<1>2. /\ state' = s /\ ledger' = lines /\ pc' = at /\ turn' = 1
  BY DEF Launch
<1>3. LedgerIsASequence'
  BY <1>2 DEF LedgerIsASequence
<1> QED
  BY <1>1, <1>2, <1>3 DEF PlaceInv, Within, PcValues

(* Only a step of the runner saves, and what it saves is the state. *)
LEMMA SavesItsState ==
  ASSUME EngineStep \/ PolicyStep
  PROVE  UNCHANGED ckpts \/ ckpts' = WriteFile(ckpts, LastSeq, Snapshot(LastSeq, state))
BY DEF EngineStep, PolicyStep, StartRun, OpenRound, IssueObservation, AcceptProposal,
   RejectProposal, FallBackToAbstain, FailOnInvalidAction, Resolve, EmitDomainEvent,
   SaveCheckpoint, AnnounceCheckpoint, SealFailed, SaveFinalCheckpoint, SealCompleted, Propose,
   PolicyRaises, Accept

(* The next segment starts in the state that the one before ended in. *)
LEMMA HandsOver ==
  ASSUME FamilyInv, NextReplaySegment
  PROVE  LET l == Source.ledger end == NextSegment(l, job.start) IN
         /\ ckpts[Len(ledger) - 2].state = state
         /\ job.start \in Nat /\ Len(l) \in Nat /\ end \in job.start + 1 .. Len(l)
         /\ SubSeq(l, 1, end - 1) \in Seq(Events)
<1>1. PICK l, end, cfg : /\ l = Source.ledger /\ end = NextSegment(l, job.start)
                         /\ cfg = Source.config
  OBVIOUS
<1>2. /\ job.kind = "replay" /\ job.outcome = "pending" /\ end # None
      /\ Now.pc \in {"completed", "failed"} /\ Now.state = state
      /\ job.source \in DOMAIN archive /\ InReplay
  BY <1>1 DEF NextReplaySegment, Sealed, Now, Having, FamilyInv, ReplayInv
<1>3. PICK Z, Y : Closing(l, Y, end, config, ledger, Now, ckpts)
  BY <1>1, SegmentCloses
<1>4. ckpts[Len(ledger) - 2].state = state
  <2>1. /\ Now.state = Y[end - 1].state /\ Len(ledger) = end
        /\ ckpts[end - 2].state = Now.state
    BY <1>2, <1>3 DEF Closing
  <2> QED
    BY <1>2, <2>1
<1>5. Whole(l, cfg) /\ job.start \in 1 .. Len(l)
  BY <1>1, <1>2, SourceWhole DEF Source, InReplay
<1>6. Segment(l, cfg, job.start, end, SegmentConfig(Source, job.start))
  BY <1>1, <1>5, SegmentFound
<1>7. l \in Seq(Events) /\ Len(l) \in Nat /\ end \in job.start + 1 .. Len(l)
  BY <1>2, <1>5, <1>6 DEF Segment, Whole
<1>8. SubSeq(l, 1, end - 1) \in Seq(Events)
  <2>1. end - 1 \in Nat /\ \A k \in 1 .. end - 1 : k \in 1 .. Len(l)
    BY <1>5, <1>7
  <2>2. \A k \in 1 .. end - 1 : l[k] \in Events
    BY <1>7, <2>1, ElementOfSeq
  <2> QED
    BY <2>1, <2>2, SubSeqProperties
<1> QED
  BY <1>1, <1>4, <1>5, <1>7, <1>8

LEMMA RunDownInit == LineageInit => RunDownInv
<1> SUFFICES ASSUME LineageInit PROVE RunDownInv
  OBVIOUS
<1>1. Init /\ FamilyInv /\ archive = << >> /\ ckpts = << >>
  BY FamilyInit DEF LineageInit, Init
<1>2. PlaceInv
  BY <1>1, ProgressInit DEF ProgressInv
<1>3. DOMAIN archive = {} /\ DOMAIN ckpts = {}
  BY <1>1
<1> QED
  BY <1>1, <1>2, <1>3 DEF RunDownInv, SavedInv

LEMMA RunDownStep == RunDownInv /\ [LineageNext]_lineageVars => RunDownInv'
<1> SUFFICES ASSUME RunDownInv, [LineageNext]_lineageVars PROVE RunDownInv'
  OBVIOUS
<1>1. /\ FamilyInv /\ FamilyInv' /\ LineageInv /\ LineageInv' /\ PlaceInv /\ SavedInv
  BY FamilyStep DEF RunDownInv, FamilyInv
<1>2. state.round \in Nat /\ state.round <= MaxRounds /\ MaxRounds \in Nat
  BY <1>1, SizeAssumption DEF PlaceInv, Within
<1>3. ASSUME UNCHANGED vars PROVE PlaceInv'
  BY <1>1, <1>3 DEF PlaceInv, Within, LedgerIsASequence, vars
<1>4. ASSUME AnyStep PROVE PlaceInv'
  BY <1>1, <1>4, StepIsProgress
<1>5. ASSUME PlaceInv', SavedInv' PROVE RunDownInv'
  BY <1>1, <1>5 DEF RunDownInv
<1>6. ASSUME UNCHANGED archive, job'.kind \notin {"run", "branch"} PROVE SavedInv'
  BY <1>1, <1>6 DEF SavedInv
<1>7. CASE LiveStep
  <2>1. /\ job.kind \in {"run", "branch"} /\ (EngineStep \/ PolicyStep)
        /\ UNCHANGED <<archive, job>>
    BY <1>7 DEF LiveStep
  <2>2. \A seq \in DOMAIN ckpts' : ckpts'[seq].state.round <= MaxRounds
    <3>1. CASE UNCHANGED ckpts
      BY <1>1, <2>1, <3>1 DEF SavedInv
    <3>2. CASE ckpts' = WriteFile(ckpts, LastSeq, Snapshot(LastSeq, state))
      <4>1. Snapshot(LastSeq, state).state = state
        BY DEF Snapshot
      <4>2. \A seq \in DOMAIN ckpts' :
              \/ ckpts'[seq] = Snapshot(LastSeq, state)
              \/ seq \in DOMAIN ckpts /\ ckpts'[seq] = ckpts[seq]
        BY <3>2 DEF WriteFile
      <4> QED
        BY <1>1, <1>2, <2>1, <4>1, <4>2 DEF SavedInv
    <3> QED
      BY <2>1, <3>1, <3>2, SavesItsState
  <2>3. SavedInv'
    BY <1>1, <2>1, <2>2 DEF SavedInv
  <2>4. AnyStep
    BY <2>1 DEF AnyStep, PolicyStep
  <2> QED
    BY <1>4, <1>5, <2>3, <2>4
<1>8. CASE FileRun
  <2>1. /\ job.kind \in {"run", "branch"} /\ job'.kind = "idle" /\ UNCHANGED vars
        /\ archive' = Append(archive, RunDir)
    BY <1>8 DEF FileRun, Idle
  <2>2. PICK dir : dir = RunDir
    OBVIOUS
  <2>3. dir.ckpts = ckpts
    BY <2>2 DEF RunDir
  <2>4. \A r \in DOMAIN archive' : \/ r \in DOMAIN archive /\ archive'[r] = archive[r]
                                   \/ archive'[r] = dir
    BY <1>1, <2>1, <2>2, FiledLast DEF LineageInv
  <2>5. SavedInv'
    BY <1>1, <2>1, <2>3, <2>4 DEF SavedInv
  <2> QED
    BY <1>3, <1>5, <2>1, <2>5
<1>9. ASSUME NEW p \in DOMAIN archive, NEW seq \in DOMAIN archive[p].ckpts,
             NEW child \in RunIds, NEW changed \in Overrides, Fork(p, seq, child, changed)
      PROVE  RunDownInv'
  <2> DEFINE dir == archive[p]
  <2>1. /\ Launch([dir.config EXCEPT !.run_id = child], dir.ckpts[seq].state,
                  SubSeq(dir.ledger, 1, seq + 1), << >>, "loop")
        /\ UNCHANGED archive /\ job'.kind = "branch"
    BY <1>9 DEF Fork, Idle
  <2>2. TypeOK'
    BY <1>1, <2>1 DEF LineageInv, EpisodeInv
  <2>3. /\ SubSeq(dir.ledger, 1, seq + 1) \in Seq(Events) /\ dir.ckpts[seq].state \in States
        /\ ckpts' = << >>
    BY <2>1, <2>2 DEF TypeOK, Launch
  <2>4. dir.ckpts[seq].state.round <= MaxRounds
    BY <1>1 DEF SavedInv
  <2>5. PlaceInv'
    <3> HIDE DEF dir
    <3> QED
      BY <2>1, <2>3, <2>4, LaunchPlaces
  <2>6. DOMAIN ckpts' = {}
    BY <2>3
  <2>7. SavedInv'
    BY <1>1, <2>1, <2>6 DEF SavedInv
  <2> QED
    BY <1>5, <2>5, <2>7
<1>10. ASSUME NEW r \in DOMAIN archive, BeginReplay(r) PROVE RunDownInv'
  <2>1. /\ Launch(SegmentConfig(archive[r], 1), InitialState, << >>, << >>, "start")
        /\ UNCHANGED archive /\ job'.kind = "replay"
    BY <1>10 DEF BeginReplay, Idle
  <2>2. InitialState \in States /\ InitialState.round <= MaxRounds /\ << >> \in Seq(Events)
    BY <1>2, EmptySeq DEF InitialState, States
  <2> QED
    BY <1>5, <1>6, <2>1, <2>2, LaunchPlaces
<1>11. CASE ReplayStep
  <2>1. AnyStep /\ UNCHANGED <<archive, job>> /\ job.kind = "replay"
    BY <1>11 DEF ReplayStep, ReplayPolicyStep, AnyStep
  <2> QED
    BY <1>4, <1>5, <1>6, <2>1
<1>12. CASE NextReplaySegment
  <2>1. UNCHANGED archive /\ job'.kind = "replay"
    BY <1>1, <1>12 DEF NextReplaySegment, LineageInv
  <2>2. CASE UNCHANGED vars
    BY <1>3, <1>5, <1>6, <2>1, <2>2
  <2>3. CASE ~ UNCHANGED vars
    <3>1. PICK lines : /\ lines = SubSeq(Source.ledger, 1, NextSegment(Source.ledger, job.start) - 1)
                       /\ \E cfg : Launch(cfg, ckpts[Len(ledger) - 2].state, lines, ckpts, "loop")
      BY <1>12, <2>3 DEF NextReplaySegment
    <3>2. lines \in Seq(Events) /\ ckpts[Len(ledger) - 2].state = state
      BY <1>1, <1>12, <3>1, HandsOver
    <3>3. UNCHANGED state /\ pc' = "loop" /\ turn' = 1 /\ ledger' = lines
      BY <3>1, <3>2 DEF Launch
    <3>4. PlaceInv'
      BY <1>1, <1>2, <3>2, <3>3 DEF PlaceInv, Within, PcValues, LedgerIsASequence
    <3> QED
      BY <1>5, <1>6, <2>1, <3>4
  <2> QED
    BY <2>2, <2>3
<1>13. CASE FinishReplay \/ DiscardReplay
  <2>1. UNCHANGED vars /\ UNCHANGED archive /\ job'.kind \notin {"run", "branch"}
    BY <1>1, <1>13 DEF FinishReplay, DiscardReplay, Idle, LineageInv
  <2> QED
    BY <1>3, <1>5, <1>6, <2>1
<1>14. CASE UNCHANGED lineageVars
  <2>1. UNCHANGED vars /\ SavedInv'
    BY <1>1, <1>14 DEF lineageVars, vars, SavedInv
  <2> QED
    BY <1>3, <1>5, <2>1
<1> QED
  BY <1>7, <1>8, <1>9, <1>10, <1>11, <1>12, <1>13, <1>14 DEF LineageNext

(* No episode of a family goes on for ever: every step of a run or of a    *)
(* branch, whatever its policies propose and wherever it was forked,       *)
(* leaves fewer steps ahead (runner.py:148-321, branching.py:147-209).     *)
THEOREM EveryEpisodeRunsDown ==
  LineageSpec => [](Ahead \in Nat) /\ [][LiveStep => Ahead' < Ahead]_lineageVars
<1>1. RunDownInv => Ahead \in Nat
  BY AheadCounts DEF RunDownInv, AheadBound
<1>2. RunDownInv /\ [LineageNext]_lineageVars => [LiveStep => Ahead' < Ahead]_lineageVars
  <2> SUFFICES ASSUME RunDownInv, LiveStep PROVE Ahead' < Ahead
    OBVIOUS
  <2>1. AnyStep
    BY DEF LiveStep, AnyStep, PolicyStep
  <2> QED
    BY <2>1, StepIsProgress DEF RunDownInv
<1> QED
  BY <1>1, <1>2, RunDownInit, RunDownStep, PTL DEF LineageSpec

(* While a replay has no verdict it has something left, a natural number. *)
LEMMA LeftCounts == RunDownInv /\ Pending => ReplayLeft \in Nat \ {0}
<1> SUFFICES ASSUME RunDownInv, Pending PROVE ReplayLeft \in Nat \ {0}
  OBVIOUS
<1>1. Ahead \in Nat
  BY AheadCounts DEF RunDownInv, AheadBound
<1>2. /\ Whole(Source.ledger, Source.config) /\ job.start \in 1 .. Len(Source.ledger)
  BY SourceWhole DEF RunDownInv, FamilyInv, ReplayInv, InReplay, Pending, Source
<1>3. PICK lines : lines = Len(Source.ledger) - job.start
  OBVIOUS
<1>4. lines \in Nat
  BY <1>2, <1>3 DEF Whole
<1>5. PICK most : most = MostSteps + 1
  OBVIOUS
<1>6. lines * most \in Nat
  BY <1>4, <1>5, MostStepsCounted
<1>7. ReplayLeft = lines * most + Ahead + 1
  BY <1>3, <1>5 DEF ReplayLeft
<1> QED
  BY <1>1, <1>6, <1>7

LEMMA ReplayGoesOn ==
  ASSUME RunDownInv, RunDownInv', Pending, LineageNext
  PROVE  ReplayLeft' < ReplayLeft
<1>1. /\ FamilyInv /\ PlaceInv /\ PlaceInv' /\ job.kind = "replay" /\ job.outcome = "pending"
      /\ ReplayLeft \in Nat \ {0}
  BY LeftCounts DEF RunDownInv, Pending
<1>2. Ahead \in Nat /\ Ahead' \in Nat
  <2>1. PlaceInv' => AheadBound'
    BY AheadCounts, PTL
  <2> QED
    BY <1>1, <2>1, AheadCounts DEF AheadBound
<1>3. PICK l, most : l = Source.ledger /\ most = MostSteps + 1
  OBVIOUS
<1>4. /\ most \in Nat \ {0} /\ MostSteps' = MostSteps
      /\ ReplayLeft = (Len(l) - job.start) * most + Ahead + 1
  BY <1>1, <1>3, MostStepsCounted DEF ReplayLeft, Pending, MostSteps, RoundSteps
<1>5. CASE ReplayStep
  <2>1. AnyStep /\ UNCHANGED <<archive, job>>
    BY <1>5 DEF ReplayStep, ReplayPolicyStep, AnyStep
  <2>2. Ahead' < Ahead
    BY <1>1, <2>1, StepIsProgress
  <2>3. ReplayLeft' = (Len(l) - job.start) * most + Ahead' + 1
    BY <1>1, <1>3, <1>4, <2>1 DEF ReplayLeft, Pending, Source
  <2>4. PICK before : before = (Len(l) - job.start) * most
    OBVIOUS
  <2>5. before \in Int
    <3>1. Len(l) - job.start \in Int
      BY <1>1, <1>3, SourceWhole DEF FamilyInv, ReplayInv, InReplay, Source, Whole
    <3> QED
      BY <1>4, <2>4, <3>1
  <2> QED
    BY <1>2, <1>4, <2>2, <2>3, <2>4, <2>5
<1>6. ASSUME ~ Pending' PROVE ReplayLeft' < ReplayLeft
  BY <1>1, <1>6 DEF ReplayLeft
<1>7. CASE FinishReplay
  <2>1. job'.outcome \in {"match", "diverged"}
    BY <1>1, <1>7 DEF FinishReplay, FamilyInv, LineageInv
  <2> QED
    BY <1>6, <2>1 DEF Pending
<1>8. CASE NextReplaySegment
  <2>1. PICK end : end = NextSegment(l, job.start)
    OBVIOUS
  <2>2. /\ job.start \in Nat /\ Len(l) \in Nat /\ end \in job.start + 1 .. Len(l)
    BY <1>1, <1>3, <1>8, <2>1, HandsOver
  <2>3. CASE job' = [job EXCEPT !.outcome = "diverged"]
    <3>1. job'.outcome = "diverged"
      BY <1>1, <2>3 DEF FamilyInv, LineageInv
    <3> QED
      BY <1>6, <3>1 DEF Pending
  <2>4. CASE /\ job' = [job EXCEPT !.start = end] /\ pc' = "loop"
    <3>1. /\ job'.start = end /\ job'.kind = "replay" /\ job'.outcome = "pending"
          /\ job'.source = job.source
      BY <1>1, <2>4 DEF FamilyInv, LineageInv
    <3>2. UNCHANGED archive
      BY <1>8 DEF NextReplaySegment
    <3>3. ReplayLeft' = (Len(l) - end) * most + Ahead' + 1
      BY <1>3, <1>4, <3>1, <3>2 DEF ReplayLeft, Pending, Source
    <3>4. Ahead' < most
      <4>1. PlaceInv' => AheadAtStart'
        BY StartsBelow, PTL
      <4>2. Ahead' <= MostSteps'
        BY <1>1, <2>4, <4>1 DEF AheadAtStart
      <4> QED
        BY <1>2, <1>3, <1>4, <4>2, MostStepsCounted
    <3>5. PICK lines, more : lines = Len(l) - end /\ more = end - job.start
      OBVIOUS
    <3>6. lines \in Nat /\ more \in Nat \ {0} /\ Len(l) - job.start = lines + more
      BY <2>2, <3>5
    <3>7. (lines + more) * most >= lines * most + most
      <4>1. PICK less \in Nat : more = less + 1
        <5>1. more - 1 \in Nat /\ more = (more - 1) + 1
          BY <3>6
        <5> QED
          BY <5>1
      <4>2. /\ lines * most \in Nat /\ less * most \in Nat
            /\ (lines + (less + 1)) * most = lines * most + less * most + most
        BY <1>4, <3>6, <4>1
      <4> QED
        BY <1>4, <4>1, <4>2
    <3>8. lines * most \in Nat /\ (lines + more) * most \in Nat
      BY <1>4, <3>6
    <3>9. PICK x, y : x = lines * most /\ y = (lines + more) * most
      OBVIOUS
    <3>10. ReplayLeft' = x + Ahead' + 1 /\ ReplayLeft = y + Ahead + 1
      BY <1>4, <3>3, <3>5, <3>6, <3>9
    <3> QED
      BY <1>2, <1>4, <3>4, <3>7, <3>8, <3>9, <3>10
  <2> QED
    BY <1>3, <1>8, <2>1, <2>3, <2>4 DEF NextReplaySegment, Launch
<1> QED
  <2>1. ~ LiveStep /\ ~ FileRun /\ ~ DiscardReplay
    BY <1>1 DEF LiveStep, FileRun, DiscardReplay
  <2>2. \A p, seq, child, changed : ~ Fork(p, seq, child, changed)
    BY <1>1 DEF Fork
  <2>3. \A r : ~ BeginReplay(r)
    BY <1>1 DEF BeginReplay
  <2> QED
    BY <1>5, <1>7, <1>8, <2>1, <2>2, <2>3 DEF LineageNext

(* A replay comes down to its verdict: until it has one, every step, one   *)
(* that starts the next segment included, leaves it fewer, whatever the    *)
(* ancestry of its source and however that run ended (replay.py:82-152).   *)
THEOREM ReplaysRunDown ==
  LineageSpec => /\ [](Pending => ReplayLeft \in Nat \ {0})
                 /\ [][Pending => ReplayLeft' < ReplayLeft]_lineageVars
<1>1. /\ RunDownInv /\ RunDownInv' /\ [LineageNext]_lineageVars
         => [Pending => ReplayLeft' < ReplayLeft]_lineageVars
  BY ReplayGoesOn
<1> QED
  BY <1>1, LeftCounts, RunDownInit, RunDownStep, PTL DEF LineageSpec
==============================================================================
