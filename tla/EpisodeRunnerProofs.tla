------------------------- MODULE EpisodeRunnerProofs -------------------------
(***************************************************************************)
(* Proofs about EpisodeRunner, for every roster, action set, legality      *)
(* relation, number of rounds, cadence and opening schedule: types, shape  *)
(* and account of the ledger, the game it tells, and that every step       *)
(* leaves fewer ahead.                                                     *)
(***************************************************************************)
EXTENDS LedgerValidation, SequenceTheorems, FiniteSetTheorems, TLAPS

(* What the program counter says about the loop variables: the part of the *)
(* inductive invariant that makes TypeOK inductive.                        *)
ControlInv ==
  /\ pc \in {"observe", "propose", "validate", "rejected"} => turn \in Agents
  /\ pc = "domain" => turn \in 1 .. Len(DomainEventTypes) /\ state.round > 0
  /\ pc = "validate" => proposal \in Actions
  /\ pc = "fail" => failure \in Reasons
  /\ pc \in {"propose", "validate", "rejected"} =>
       \A i \in Agents : i < turn => accepted[i] \in Actions
  /\ pc = "resolve" => accepted \in Profiles
  /\ pc \notin {"start", "crashed"} => ledger # << >>

-----------------------------------------------------------------------------
(* Lemmas on the data *)

(* An event built by Event is a ledger line. *)
LEMMA EventTyped ==
  ASSUME TypeOK, NEW type \in EventTypes, NEW t \in Nat,
         NEW agent \in Agents \cup {Engine}, NEW action \in Actions \cup {None}
  PROVE  Event(type, t, agent, action) \in Events
BY DEF TypeOK, Event, Events

(* Emit appends one line and disturbs no earlier one. *)
LEMMA EmitTyped ==
  ASSUME TypeOK, NEW e \in Events, Emit(e)
  PROVE  /\ ledger' \in Seq(Events)
         /\ Len(ledger') = Len(ledger) + 1
         /\ ledger' # << >>
         /\ \A k \in 1 .. Len(ledger) : ledger'[k] = ledger[k]
         /\ ledger'[Len(ledger) + 1] = e
         /\ DOMAIN ckpts \subseteq 0 .. Len(ledger') - 1
<1>1. ledger \in Seq(Events) /\ DOMAIN ckpts \subseteq 0 .. Len(ledger) - 1
  BY DEF TypeOK
<1>2. ledger' = Append(ledger, e)
  BY DEF Emit
<1>3. QED
  BY <1>1, <1>2, AppendProperties

(* A resolved round is a state again. *)
LEMMA ResolvedTyped ==
  ASSUME NEW s \in States, NEW profile \in Profiles
  PROVE  /\ Resolved(s, profile) \in States
         /\ Resolved(s, profile).round = s.round + 1
<1>1. s.moves \in Seq(Profiles)
  BY DEF States
<1>2. Append(s.moves, profile) \in Seq(Profiles)
  BY <1>1, AppendProperties
<1>3. s.round + 1 \in Nat
  BY DEF States
<1>4. QED
  BY <1>2, <1>3 DEF States, Resolved

LEMMA PublishedTyped ==
  ASSUME NEW s \in States
  PROVE  Published(s) \in States /\ Published(s).round = s.round
BY DEF States, Published

-----------------------------------------------------------------------------
(* Type correctness *)

LEMMA InitTyped == Init => TypeOK /\ ControlInv
<1> SUFFICES ASSUME Init PROVE TypeOK /\ ControlInv
  OBVIOUS
<1>1. config \in [run_id : RunIds, checkpoint_every : Cadences,
                  invalid_action_policy : InvalidPolicies, stop_round : Nat]
  BY SizeAssumption DEF Init
<1>2. state \in States
  BY DEF Init, InitialState, States
<1>3. ledger \in Seq(Events) /\ Len(ledger) = 0 /\ DOMAIN ckpts = {}
  BY DEF Init
<1>4. accepted \in [Agents -> Actions \cup {None}]
  BY DEF Init, NoActions
<1>5. QED
  BY <1>1, <1>2, <1>3, <1>4 DEF Init, TypeOK, PcValues, ControlInv

(* A written checkpoint file is named by a line of the ledger. *)
LEMMA SaveTyped ==
  ASSUME TypeOK, ledger # << >>, NEW record \in Snapshots \cup {Torn},
         ckpts' = WriteFile(ckpts, LastSeq, record)
  PROVE  /\ DOMAIN ckpts' \subseteq 0 .. Len(ledger) - 1
         /\ \A seq \in DOMAIN ckpts' : ckpts'[seq] \in Snapshots \cup {Torn}
<1>1. Len(ledger) \in Nat \ {0}
  BY EmptySeq DEF TypeOK
<1>2. DOMAIN ckpts' = DOMAIN ckpts \cup {LastSeq}
  BY DEF WriteFile
<1>3. QED
  BY <1>1, <1>2 DEF TypeOK, WriteFile, LastSeq

LEMMA SnapshotTyped ==
  ASSUME TypeOK, ledger # << >>
  PROVE  Snapshot(LastSeq, state) \in Snapshots
<1>1. Len(ledger) \in Nat \ {0}
  BY EmptySeq DEF TypeOK
<1>2. LastSeq \in Nat /\ LastSeq + 1 = Len(ledger)
  BY <1>1 DEF LastSeq
<1>3. SubSeq(ledger, 1, LastSeq + 1) \in Seq(Events)
  BY <1>2, SubSeqFull DEF TypeOK
<1>4. state \in States /\ state.round \in Nat
  BY DEF TypeOK, States
<1>5. QED
  BY <1>2, <1>3, <1>4 DEF Snapshot, Snapshots

(* Every step preserves the types and what the program counter promises:   *)
(* one lemma for the steps that append a line, one for those that do not.  *)
LEMMA EmittingStepTyped ==
  ASSUME TypeOK, ControlInv,
         \/ StartRun \/ IssueObservation \/ AcceptProposal \/ RejectProposal
         \/ FallBackToAbstain \/ EmitDomainEvent \/ AnnounceCheckpoint
         \/ SealFailed \/ SealCompleted
         \/ \E action \in Actions : Propose(action)
  PROVE  \E e \in Events : Emit(e)
<1>1. state \in States /\ state.round \in Nat
  BY DEF TypeOK, States
<1>2. Engine \in Agents \cup {Engine} /\ None \in Actions \cup {None}
  OBVIOUS
<1>3. CASE StartRun
  BY <1>3, <1>2, EventTyped DEF StartRun, EventTypes
<1>4. CASE IssueObservation
  BY <1>4, <1>1, EventTyped DEF IssueObservation, EventTypes, ControlInv
<1>5. CASE AcceptProposal
  BY <1>5, <1>1, EventTyped DEF AcceptProposal, Accept, EventTypes, ControlInv
<1>6. CASE RejectProposal
  BY <1>6, <1>1, EventTyped DEF RejectProposal, EventTypes, ControlInv
<1>7. CASE FallBackToAbstain
  BY <1>7, <1>1, EventTyped, ActionAssumption
  DEF FallBackToAbstain, Accept, EventTypes, ControlInv
<1>8. CASE EmitDomainEvent
  <2>1. turn \in 1 .. Len(DomainEventTypes) /\ state.round - 1 \in Nat
    BY <1>8, <1>1 DEF EmitDomainEvent, ControlInv
  <2>2. DomainEventTypes[turn] \in EventTypes
    BY <2>1, DomainEventAssumption, ElementOfSeq DEF EventTypes
  <2>3. QED
    BY <1>8, <2>1, <2>2, EventTyped DEF EmitDomainEvent
<1>9. CASE AnnounceCheckpoint
  <2>1. LastSeq \in Nat
    BY <1>9, EmptySeq DEF AnnounceCheckpoint, ControlInv, TypeOK, LastSeq
  <2> DEFINE e == Event("CheckpointCreated", state.round, Engine, None)
  <2>2. e \in Events
    BY <1>1, EventTyped DEF EventTypes
  <2>3. [e EXCEPT !.at_seq = LastSeq, !.state_hash = state] \in Events
    BY <1>1, <2>1, <2>2 DEF Events
  <2>4. QED
    BY <1>9, <2>3 DEF AnnounceCheckpoint
<1>10. CASE SealFailed
  <2> DEFINE e == Event("RunFailed", state.round, Engine, None)
  <2>1. failure \in Reasons
    BY <1>10 DEF SealFailed, ControlInv
  <2>2. e \in Events
    BY <1>1, EventTyped DEF EventTypes
  <2>3. [e EXCEPT !.reason = failure, !.state_hash = state] \in Events
    BY <1>1, <2>1, <2>2 DEF Events
  <2>4. QED
    BY <1>10, <2>3 DEF SealFailed
<1>11. CASE SealCompleted
  <2> DEFINE e == Event("RunCompleted", state.round, Engine, None)
  <2>1. e \in Events
    BY <1>1, EventTyped DEF EventTypes
  <2>2. [e EXCEPT !.state_hash = state] \in Events
    BY <1>1, <2>1 DEF Events
  <2>3. QED
    BY <1>11, <2>2 DEF SealCompleted
<1>12. ASSUME NEW action \in Actions, Propose(action) PROVE \E e \in Events : Emit(e)
  BY <1>12, <1>1, EventTyped DEF Propose, EventTypes, ControlInv
<1>13. QED
  BY <1>3, <1>4, <1>5, <1>6, <1>7, <1>8, <1>9, <1>10, <1>11, <1>12

LEMMA TypeStep == TypeOK /\ ControlInv /\ [Next]_vars => TypeOK' /\ ControlInv'
<1> SUFFICES ASSUME TypeOK, ControlInv, [Next]_vars PROVE TypeOK' /\ ControlInv'
  OBVIOUS
<1> USE DEF PcValues
<1>1. /\ state \in States /\ state.round \in Nat /\ turn \in Nat \ {0}
      /\ NumAgents \in Nat \ {0} /\ Agents = 1 .. NumAgents
  BY SizeAssumption DEF TypeOK, States, Agents
(* facts about the ledger shared by all the steps that append a line *)
<1>2. ASSUME NEW e \in Events, Emit(e), UNCHANGED ckpts
      PROVE  /\ ledger' \in Seq(Events) /\ ledger' # << >>
             /\ DOMAIN ckpts' \subseteq 0 .. Len(ledger') - 1
             /\ \A seq \in DOMAIN ckpts' : ckpts'[seq] \in Snapshots \cup {Torn}
  BY <1>2, EmitTyped DEF TypeOK
<1>3. CASE StartRun
  <2>1. \E e \in Events : Emit(e)
    BY <1>3, EmittingStepTyped
  <2>2. QED
    BY <1>2, <1>3, <2>1 DEF StartRun, TypeOK, ControlInv
<1>4. CASE OpenRound
  <2>1. state' \in States
    BY <1>4, PublishedTyped, <1>1 DEF OpenRound
  <2>2. accepted' \in [Agents -> Actions \cup {None}]
    BY <1>4 DEF OpenRound, NoActions
  <2>3. turn' \in Agents
    BY <1>1, <1>4 DEF OpenRound
  <2>4. CASE UNCHANGED ledger
    BY <1>4, <2>1, <2>2, <2>3, <2>4 DEF OpenRound, TypeOK, ControlInv
  <2>5. CASE Emit(Event("AuditPublished", state.round, Engine, None))
    <3>1. Event("AuditPublished", state.round, Engine, None) \in Events
      BY <1>1, EventTyped DEF EventTypes
    <3>2. QED
      BY <1>2, <1>4, <2>1, <2>2, <2>3, <2>5, <3>1 DEF OpenRound, TypeOK, ControlInv
  <2>6. QED
    BY <1>4, <2>4, <2>5 DEF OpenRound
<1>5. CASE IssueObservation
  <2>1. \E e \in Events : Emit(e)
    BY <1>5, EmittingStepTyped
  <2>2. turn' \in Agents /\ (pc' = "propose" => turn' = 1)
    BY <1>1, <1>5 DEF IssueObservation, ControlInv
  <2>3. QED
    BY <1>1, <1>2, <1>5, <2>1, <2>2 DEF IssueObservation, TypeOK, ControlInv
<1>6. ASSUME NEW action \in Actions, Propose(action) PROVE TypeOK' /\ ControlInv'
  <2>1. \E e \in Events : Emit(e)
    BY <1>6, EmittingStepTyped
  <2>2. QED
    BY <1>2, <1>6, <2>1 DEF Propose, TypeOK, ControlInv
<1>7. ASSUME NEW kind \in PolicyErrors, PolicyRaises(kind) PROVE TypeOK' /\ ControlInv'
  <2>1. failure' \in Reasons
    BY <1>7 DEF PolicyRaises, Reasons, ControlInv
  <2>2. QED
    BY <1>7, <2>1 DEF PolicyRaises, TypeOK, ControlInv
(* accepting fills accepted[turn]; after the last agent the profile is total *)
<1>8. ASSUME NEW action \in Actions, Accept(action), turn \in Agents,
             \A i \in Agents : i < turn => accepted[i] \in Actions
      PROVE  /\ accepted' \in [Agents -> Actions \cup {None}]
             /\ turn' \in Agents
             /\ pc' \in {"propose", "resolve"}
             /\ pc' = "propose" => \A i \in Agents : i < turn' => accepted'[i] \in Actions
             /\ pc' = "resolve" => accepted' \in Profiles
  <2>1. accepted' \in [Agents -> Actions \cup {None}]
    BY <1>8 DEF Accept, TypeOK
  <2>2. \A i \in Agents : i <= turn => accepted'[i] \in Actions
    BY <1>1, <1>8 DEF Accept, TypeOK
  <2>3. CASE turn < NumAgents
    BY <1>1, <1>8, <2>1, <2>2, <2>3 DEF Accept
  <2>4. CASE ~ (turn < NumAgents)
    <3>1. \A i \in Agents : accepted'[i] \in Actions
      BY <1>1, <1>8, <2>2, <2>4
    <3>2. accepted' \in Profiles
      BY <2>1, <3>1 DEF Profiles
    <3>3. QED
      BY <1>1, <1>8, <2>1, <2>4, <3>2 DEF Accept
  <2>5. QED
    BY <2>3, <2>4
<1>9. CASE AcceptProposal
  <2>1. \E e \in Events : Emit(e)
    BY <1>9, EmittingStepTyped
  <2>2. proposal \in Actions /\ Accept(proposal) /\ turn \in Agents
        /\ \A i \in Agents : i < turn => accepted[i] \in Actions
    BY <1>9 DEF AcceptProposal, ControlInv
  <2>3. QED
    BY <1>1, <1>2, <1>8, <1>9, <2>1, <2>2 DEF AcceptProposal, TypeOK, ControlInv
<1>10. CASE RejectProposal
  <2>1. \E e \in Events : Emit(e)
    BY <1>10, EmittingStepTyped
  <2>2. QED
    BY <1>2, <1>10, <2>1 DEF RejectProposal, TypeOK, ControlInv
<1>11. CASE FallBackToAbstain
  <2>1. \E e \in Events : Emit(e)
    BY <1>11, EmittingStepTyped
  <2>2. Abstain \in Actions /\ Accept(Abstain) /\ turn \in Agents
        /\ \A i \in Agents : i < turn => accepted[i] \in Actions
    BY <1>11, ActionAssumption DEF FallBackToAbstain, ControlInv
  <2>3. QED
    BY <1>1, <1>2, <1>8, <1>11, <2>1, <2>2 DEF FallBackToAbstain, TypeOK, ControlInv
<1>12. CASE FailOnInvalidAction
  <2>1. failure' \in Reasons
    BY <1>12 DEF FailOnInvalidAction, Reasons, ControlInv
  <2>2. QED
    BY <1>12, <2>1 DEF FailOnInvalidAction, TypeOK, ControlInv
<1>13. CASE Resolve
  <2>1. state' \in States /\ state'.round > 0
    BY <1>1, <1>13, ResolvedTyped DEF Resolve, ControlInv
  <2>2. turn' \in 1 .. Len(DomainEventTypes)
    BY <1>13, DomainEventAssumption DEF Resolve
  <2>3. QED
    BY <1>13, <2>1, <2>2 DEF Resolve, TypeOK, ControlInv
<1>14. CASE EmitDomainEvent
  <2>1. \E e \in Events : Emit(e)
    BY <1>14, EmittingStepTyped
  <2>2. Len(DomainEventTypes) \in Nat
    BY DomainEventAssumption
  <2>3. turn' \in Nat \ {0} /\ (pc' = "domain" => turn' \in 1 .. Len(DomainEventTypes))
    BY <1>14, <2>2 DEF EmitDomainEvent, ControlInv
  <2>4. QED
    BY <1>2, <1>14, <2>1, <2>3 DEF EmitDomainEvent, TypeOK, ControlInv
<1>15. CASE SaveCheckpoint
  BY <1>15, SaveTyped, SnapshotTyped DEF SaveCheckpoint, TypeOK, ControlInv
<1>16. CASE AnnounceCheckpoint
  <2>1. \E e \in Events : Emit(e)
    BY <1>16, EmittingStepTyped
  <2>2. QED
    BY <1>2, <1>16, <2>1 DEF AnnounceCheckpoint, TypeOK, ControlInv
<1>17. CASE SealFailed
  <2>1. \E e \in Events : Emit(e)
    BY <1>17, EmittingStepTyped
  <2>2. QED
    BY <1>2, <1>17, <2>1 DEF SealFailed, TypeOK, ControlInv
<1>18. CASE SaveFinalCheckpoint
  BY <1>18, SaveTyped, SnapshotTyped DEF SaveFinalCheckpoint, TypeOK, ControlInv
<1>19. CASE SealCompleted
  <2>1. \E e \in Events : Emit(e)
    BY <1>19, EmittingStepTyped
  <2>2. QED
    BY <1>2, <1>19, <2>1 DEF SealCompleted, TypeOK, ControlInv
<1>20. CASE Crash
  <2>1. CASE UNCHANGED ckpts
    BY <1>20, <2>1 DEF Crash, TypeOK, ControlInv
  <2>2. CASE pc \in {"checkpoint", "loop"} /\ ckpts' = WriteFile(ckpts, LastSeq, Torn)
    BY <1>20, <2>2, SaveTyped DEF Crash, TypeOK, ControlInv
  <2>3. QED
    BY <1>20, <2>1, <2>2 DEF Crash
<1>21. CASE UNCHANGED vars
  BY <1>21 DEF vars, TypeOK, ControlInv
<1>22. QED
  BY <1>3, <1>4, <1>5, <1>6, <1>7, <1>9, <1>10, <1>11, <1>12, <1>13, <1>14, <1>15,
     <1>16, <1>17, <1>18, <1>19, <1>20, <1>21 DEF Next, EngineStep, PolicyStep

(* Type correctness: every line of the ledger is a well-formed event, every *)
(* checkpoint file is named by the seq of a line that exists, and the       *)
(* action profile handed to resolve is total (runner.py:129-321).           *)
THEOREM TypeCorrect == Spec => []TypeOK
<1>1. Init => TypeOK /\ ControlInv
  BY InitTyped
<1>2. TypeOK /\ ControlInv /\ [Next]_vars => TypeOK' /\ ControlInv'
  BY TypeStep
<1>3. QED
  BY <1>1, <1>2, PTL DEF Spec

-----------------------------------------------------------------------------
(* The artifacts: seals and checkpoint files *)

(* The line announcing a checkpoint, and the line sealing a completed run. *)
Boundary(e, seq, s) ==
  /\ e.logical_time = s.round /\ e.state_hash = s
  /\ \/ e.event_type = "CheckpointCreated" /\ e.at_seq = seq
     \/ e.event_type = "RunCompleted"

(* What one step may do to the artifacts. *)
OpensLedger ==
  /\ pc = "start" /\ pc' = "loop" /\ UNCHANGED ckpts
  /\ \E e \in Events : Emit(e) /\ e.event_type = "RunStarted"

AppendsLine ==
  /\ pc \notin {"start", "complete", "crashed"} /\ ~ Sealed
  /\ pc' \notin {"start", "announce", "complete", "crashed", "completed", "failed"}
  /\ UNCHANGED ckpts
  /\ \E e \in Events :
       /\ Emit(e) /\ e.event_type \notin Seals \cup {"RunStarted"}
       /\ pc = "announce" => Boundary(e, LastSeq, state)

SealsRun ==
  /\ pc \in {"complete", "fail"} /\ Sealed' /\ UNCHANGED <<state, ckpts>>
  /\ \E e \in Events : /\ Emit(e) /\ e.event_type = SealOf[pc'] /\ e.state_hash = state
                       /\ pc = "complete" => Boundary(e, LastSeq, state)

SavesSnapshot ==
  /\ pc \in {"checkpoint", "loop"} /\ pc' \in {"announce", "complete"}
  /\ ckpts' = WriteFile(ckpts, LastSeq, Snapshot(LastSeq, state))
  /\ UNCHANGED <<ledger, state>>

TearsSnapshot ==
  /\ pc \in {"checkpoint", "loop"} /\ pc' = "crashed"
  /\ ckpts' = WriteFile(ckpts, LastSeq, Torn) /\ UNCHANGED <<ledger, state>>

LeavesArtifacts ==
  /\ UNCHANGED <<ledger, ckpts>>
  /\ \/ UNCHANGED <<pc, state>>
     \/ ~ Sealed /\ pc' = "crashed" /\ UNCHANGED state
     \/ /\ pc \notin {"start", "announce", "complete", "crashed"} /\ ~ Sealed
        /\ pc' \notin {"start", "announce", "complete", "crashed", "completed", "failed"}

LEMMA StepShape ==
  ASSUME TypeOK, ControlInv, [Next]_vars
  PROVE  \/ OpensLedger \/ AppendsLine \/ SealsRun
         \/ SavesSnapshot \/ TearsSnapshot \/ LeavesArtifacts
<1> USE DEF Sealed, Seals, EventTypes
<1>1. state \in States /\ state.round \in Nat
  BY DEF TypeOK, States
(* an event built by Event has the fields it was given *)
<1>2. ASSUME NEW type, NEW t, NEW agent, NEW action
      PROVE  Event(type, t, agent, action).event_type = type
  BY DEF Event
<1>3. CASE StartRun
  <2>1. \E e \in Events : Emit(e) /\ e.event_type = "RunStarted"
    BY <1>2, <1>3, EventTyped DEF StartRun
  <2>2. QED
    BY <1>3, <2>1 DEF StartRun, OpensLedger
<1>4. CASE OpenRound
  <2>1. CASE UNCHANGED ledger
    BY <1>4, <2>1 DEF OpenRound, LeavesArtifacts
  <2>2. CASE Emit(Event("AuditPublished", state.round, Engine, None))
    <3>1. Event("AuditPublished", state.round, Engine, None) \in Events
      BY <1>1, EventTyped
    <3>2. QED
      BY <1>2, <1>4, <2>2, <3>1 DEF OpenRound, AppendsLine
  <2>3. QED
    BY <1>4, <2>1, <2>2 DEF OpenRound
<1>5. CASE IssueObservation
  <2>1. turn \in Agents
    BY <1>5 DEF IssueObservation, ControlInv
  <2>2. \E e \in Events : Emit(e) /\ e.event_type = "ObservationIssued"
    BY <1>1, <1>2, <1>5, <2>1, EventTyped DEF IssueObservation
  <2>3. QED
    BY <1>5, <2>2 DEF IssueObservation, AppendsLine
<1>6. ASSUME NEW action \in Actions, Propose(action) PROVE AppendsLine
  <2>1. turn \in Agents
    BY <1>6 DEF Propose, ControlInv
  <2>2. \E e \in Events : Emit(e) /\ e.event_type = "ActionProposed"
    BY <1>1, <1>2, <1>6, <2>1, EventTyped DEF Propose
  <2>3. QED
    BY <1>6, <2>2 DEF Propose, AppendsLine
<1>7. ASSUME NEW kind \in PolicyErrors, PolicyRaises(kind) PROVE LeavesArtifacts
  BY <1>7 DEF PolicyRaises, LeavesArtifacts
<1>8. ASSUME NEW action \in Actions, Accept(action), turn \in Agents,
             pc \in {"validate", "rejected"}, UNCHANGED ckpts
      PROVE  AppendsLine
  <2>1. \E e \in Events : Emit(e) /\ e.event_type = "ActionAccepted"
    BY <1>1, <1>2, <1>8, EventTyped DEF Accept
  <2>2. QED
    BY <1>8, <2>1 DEF Accept, AppendsLine
<1>9. CASE AcceptProposal
  BY <1>8, <1>9 DEF AcceptProposal, ControlInv
<1>10. CASE RejectProposal
  <2>1. turn \in Agents /\ proposal \in Actions
    BY <1>10 DEF RejectProposal, ControlInv
  <2>2. \E e \in Events : Emit(e) /\ e.event_type = "ActionRejected"
    BY <1>1, <1>2, <1>10, <2>1, EventTyped DEF RejectProposal
  <2>3. QED
    BY <1>10, <2>2 DEF RejectProposal, AppendsLine
<1>11. CASE FallBackToAbstain
  BY <1>8, <1>11, ActionAssumption DEF FallBackToAbstain, ControlInv
<1>12. CASE FailOnInvalidAction
  BY <1>12 DEF FailOnInvalidAction, LeavesArtifacts
<1>13. CASE Resolve
  BY <1>13 DEF Resolve, LeavesArtifacts
<1>14. CASE EmitDomainEvent
  <2>1. turn \in 1 .. Len(DomainEventTypes) /\ state.round - 1 \in Nat
    BY <1>14, <1>1 DEF EmitDomainEvent, ControlInv
  <2>2. DomainEventTypes[turn] \in {"WorldTransitioned", "RewardAssigned"}
    BY <2>1, DomainEventAssumption, ElementOfSeq
  <2> DEFINE type == DomainEventTypes[turn]
             e == Event(type, state.round - 1, Engine, None)
  <2>3. e \in Events /\ e.event_type = type
    <3>1. type \in EventTypes
      BY <2>2
    <3>2. e \in Events
      BY <2>1, <3>1, EventTyped
    <3>3. QED
      BY <1>2, <3>2
  <2>4. QED
    BY <1>14, <2>2, <2>3 DEF EmitDomainEvent, AppendsLine
<1>15. CASE SaveCheckpoint
  BY <1>15 DEF SaveCheckpoint, SavesSnapshot
<1>16. CASE AnnounceCheckpoint
  <2> DEFINE e == Event("CheckpointCreated", state.round, Engine, None)
             f == [e EXCEPT !.at_seq = LastSeq, !.state_hash = state]
  <2>1. LastSeq \in Nat
    BY <1>16, EmptySeq DEF AnnounceCheckpoint, ControlInv, TypeOK, LastSeq
  <2>2. e \in Events /\ e.event_type = "CheckpointCreated" /\ e.logical_time = state.round
    BY <1>1, EventTyped DEF Event
  <2>3. f \in Events
    BY <1>1, <2>1, <2>2 DEF Events
  <2>4. Boundary(f, LastSeq, state) /\ f.event_type = "CheckpointCreated"
    BY <2>2 DEF Boundary, Events
  <2>5. QED
    BY <1>16, <2>3, <2>4 DEF AnnounceCheckpoint, AppendsLine
<1>17. CASE SealFailed
  <2> DEFINE e == Event("RunFailed", state.round, Engine, None)
             f == [e EXCEPT !.reason = failure, !.state_hash = state]
  <2>1. failure \in Reasons
    BY <1>17 DEF SealFailed, ControlInv
  <2>2. e \in Events /\ e.event_type = "RunFailed"
    BY <1>1, <1>2, EventTyped
  <2>3. f \in Events /\ f.event_type = "RunFailed" /\ f.state_hash = state
    BY <1>1, <2>1, <2>2 DEF Events
  <2>4. QED
    BY <1>17, <2>3 DEF SealFailed, SealsRun, SealOf
<1>18. CASE SaveFinalCheckpoint
  BY <1>18 DEF SaveFinalCheckpoint, SavesSnapshot
<1>19. CASE SealCompleted
  <2> DEFINE e == Event("RunCompleted", state.round, Engine, None)
             f == [e EXCEPT !.state_hash = state]
  <2>1. e \in Events /\ e.event_type = "RunCompleted" /\ e.logical_time = state.round
    BY <1>1, EventTyped DEF Event
  <2>2. /\ f \in Events /\ f.event_type = "RunCompleted" /\ f.state_hash = state
        /\ Boundary(f, LastSeq, state)
    BY <1>1, <2>1 DEF Events, Boundary
  <2>3. QED
    BY <1>19, <2>2 DEF SealCompleted, SealsRun, SealOf
<1>20. CASE Crash
  BY <1>20 DEF Crash, Running, LeavesArtifacts, TearsSnapshot
<1>21. CASE UNCHANGED vars
  BY <1>21 DEF vars, LeavesArtifacts
<1>22. QED
  BY <1>3, <1>4, <1>5, <1>6, <1>7, <1>9, <1>10, <1>11, <1>12, <1>13, <1>14, <1>15,
     <1>16, <1>17, <1>18, <1>19, <1>20, <1>21 DEF Next, EngineStep, PolicyStep

(* The invariant behind the two theorems: a run that is not sealed has no  *)
(* seal in its ledger, and a checkpoint that no line follows yet is the    *)
(* one the runner is about to announce.                                    *)
LedgerShapeInv ==
  /\ pc = "start" => ledger = << >>
  /\ ledger # << >> => ledger[1].event_type = "RunStarted"
  /\ \A k \in 2 .. Len(ledger) : ledger[k].event_type # "RunStarted"
  /\ ~ Sealed => \A k \in 1 .. Len(ledger) : ledger[k].event_type \notin Seals
  /\ Sealed => /\ ledger # << >> /\ ledger[Len(ledger)].event_type = SealOf[pc]
               /\ \A k \in 1 .. Len(ledger) - 1 : ledger[k].event_type \notin Seals

LEMMA LedgerShapeStep ==
  TypeOK /\ ControlInv /\ LedgerShapeInv /\ [Next]_vars => LedgerShapeInv'
<1> SUFFICES ASSUME TypeOK, ControlInv, LedgerShapeInv, [Next]_vars
             PROVE  LedgerShapeInv'
  OBVIOUS
<1> USE DEF Sealed, Seals, SealOf
<1>1. ledger \in Seq(Events) /\ Len(ledger) \in Nat /\ (ledger = << >> <=> Len(ledger) = 0)
  BY EmptySeq DEF TypeOK
<1>2. CASE OpensLedger
  <2>1. PICK e \in Events : Emit(e) /\ e.event_type = "RunStarted"
    BY <1>2 DEF OpensLedger
  <2>2. /\ Len(ledger') = 1 /\ ledger' # << >> /\ ledger'[1].event_type = "RunStarted"
    BY <1>1, <1>2, <2>1, EmitTyped DEF OpensLedger, LedgerShapeInv
  <2>3. QED
    BY <1>2, <2>2 DEF OpensLedger, LedgerShapeInv
<1>3. CASE AppendsLine
  <2>1. PICK e \in Events : Emit(e) /\ e.event_type \notin Seals \cup {"RunStarted"}
    BY <1>3 DEF AppendsLine
  <2>2. ledger # << >>
    BY <1>3 DEF AppendsLine, ControlInv
  <2>3. QED
    BY <1>1, <1>3, <2>1, <2>2, EmitTyped DEF AppendsLine, LedgerShapeInv
<1>4. CASE SealsRun
  <2>1. PICK e \in Events : Emit(e) /\ e.event_type = SealOf[pc']
    BY <1>4 DEF SealsRun
  <2>2. ledger # << >> /\ ~ Sealed /\ pc' \in {"completed", "failed"}
    BY <1>4 DEF SealsRun, ControlInv
  <2>3. e.event_type # "RunStarted"
    BY <2>1, <2>2
  <2>4. QED
    BY <1>1, <1>4, <2>1, <2>2, <2>3, EmitTyped DEF SealsRun, LedgerShapeInv
<1>5. CASE SavesSnapshot
  BY <1>5 DEF SavesSnapshot, LedgerShapeInv
<1>6. CASE TearsSnapshot
  BY <1>6 DEF TearsSnapshot, LedgerShapeInv
<1>7. CASE LeavesArtifacts
  BY <1>7 DEF LeavesArtifacts, LedgerShapeInv
<1>8. QED
  BY <1>2, <1>3, <1>4, <1>5, <1>6, <1>7, StepShape

LEMMA SealedValidates == TypeOK /\ LedgerShapeInv => SealedRunsValidate
<1> SUFFICES ASSUME TypeOK, LedgerShapeInv, Sealed PROVE ValidateRun(ledger, pc)
  BY DEF SealedRunsValidate
<1>1. ledger \in Seq(Events) /\ Len(ledger) \in Nat \ {0} /\ DOMAIN ledger = 1 .. Len(ledger)
  BY EmptySeq, LenProperties DEF TypeOK, LedgerShapeInv
<1>2. Positions(ledger, "RunStarted") = {1}
  BY <1>1 DEF Positions, LedgerShapeInv
<1>3. {k \in DOMAIN ledger : ledger[k].event_type \in Seals} = {Len(ledger)}
  BY <1>1 DEF LedgerShapeInv, Seals, SealOf, Sealed
<1>4. QED
  BY <1>2, <1>3 DEF ValidateRun, LedgerShapeInv

(* Every sealed run validates: its one RunStarted is its first line, its    *)
(* one seal is its last line and names its status (validation.py:14-26).    *)
THEOREM SealedRunsAlwaysValidate == Spec => []SealedRunsValidate
<1>1. Init => TypeOK /\ ControlInv /\ LedgerShapeInv
  <2>1. Init => LedgerShapeInv
    BY DEF Init, LedgerShapeInv, Sealed
  <2>2. QED
    BY <2>1, InitTyped
<1>2. TypeOK /\ ControlInv /\ LedgerShapeInv /\ [Next]_vars
        => TypeOK' /\ ControlInv' /\ LedgerShapeInv'
  BY TypeStep, LedgerShapeStep
<1>3. QED
  BY <1>1, <1>2, SealedValidates, PTL DEF Spec

(* A checkpoint file is the state at its line; the line after it announces *)
(* that state, or the runner is about to, or the process died in between.  *)
CheckpointInv ==
  \A seq \in DOMAIN ckpts :
    LET record == ckpts[seq] IN
    \/ record = Torn /\ pc = "crashed"
    \/ /\ record \in Snapshots /\ record.seq = seq
       /\ record.logical_time = record.state.round
       /\ record.prefix = SubSeq(ledger, 1, seq + 1)
       /\ \/ seq + 1 < Len(ledger) /\ Boundary(ledger[seq + 2], seq, record.state)
          \/ /\ seq + 1 = Len(ledger)
             /\ \/ pc \in {"announce", "complete"} /\ record.state = state
                \/ pc = "crashed"

(* Appending a line leaves every prefix of the old ledger as it was. *)
LEMMA PrefixUntouched ==
  ASSUME TypeOK, NEW e \in Events, Emit(e), NEW n \in 1 .. Len(ledger)
  PROVE  SubSeq(ledger', 1, n) = SubSeq(ledger, 1, n)
<1>1. ledger \in Seq(Events) /\ ledger' \in Seq(Events) /\ Len(ledger) \in Nat
      /\ Len(ledger') = Len(ledger) + 1
      /\ \A k \in 1 .. Len(ledger) : ledger'[k] = ledger[k]
  BY EmitTyped DEF TypeOK
<1>2. /\ SubSeq(ledger, 1, n) \in Seq(Events) /\ Len(SubSeq(ledger, 1, n)) = n
      /\ \A i \in 1 .. n : SubSeq(ledger, 1, n)[i] = ledger[i]
  BY <1>1, SubSeqProperties
<1>3. /\ SubSeq(ledger', 1, n) \in Seq(Events) /\ Len(SubSeq(ledger', 1, n)) = n
      /\ \A i \in 1 .. n : SubSeq(ledger', 1, n)[i] = ledger'[i]
  BY <1>1, SubSeqProperties
<1>4. QED
  BY <1>1, <1>2, <1>3, SeqEqual

(* The checkpoints that existed before an append are still right after it. *)
LEMMA CheckpointsSurviveAppend ==
  ASSUME TypeOK, CheckpointInv, NEW e \in Events, Emit(e), UNCHANGED ckpts,
         pc # "crashed",
         pc \in {"announce", "complete"} => Boundary(e, LastSeq, state)
  PROVE  CheckpointInv'
<1> SUFFICES ASSUME NEW seq \in DOMAIN ckpts
             PROVE  /\ ckpts[seq] \in Snapshots /\ ckpts[seq].seq = seq
                    /\ ckpts[seq].logical_time = ckpts[seq].state.round
                    /\ ckpts[seq].prefix = SubSeq(ledger', 1, seq + 1)
                    /\ seq + 1 < Len(ledger')
                    /\ Boundary(ledger'[seq + 2], seq, ckpts[seq].state)
  BY DEF CheckpointInv
<1>1. seq + 1 \in 1 .. Len(ledger) /\ Len(ledger) \in Nat /\ seq \in Nat
  BY DEF TypeOK
<1>2. /\ Len(ledger') = Len(ledger) + 1 /\ ledger'[Len(ledger) + 1] = e
      /\ \A k \in 1 .. Len(ledger) : ledger'[k] = ledger[k]
  BY EmitTyped
<1>3. ckpts[seq].prefix = SubSeq(ledger', 1, seq + 1)
  BY <1>1, PrefixUntouched DEF CheckpointInv
<1>4. CASE seq + 1 < Len(ledger)
  BY <1>1, <1>2, <1>3, <1>4 DEF CheckpointInv
<1>5. CASE seq + 1 = Len(ledger)
  <2>1. LastSeq = seq /\ seq + 2 = Len(ledger) + 1
    BY <1>1, <1>5 DEF LastSeq
  <2>2. QED
    BY <1>1, <1>2, <1>3, <1>5, <2>1 DEF CheckpointInv
<1>6. QED
  BY <1>1, <1>4, <1>5

LEMMA CheckpointStep ==
  TypeOK /\ ControlInv /\ CheckpointInv /\ [Next]_vars => CheckpointInv'
<1> SUFFICES ASSUME TypeOK, ControlInv, CheckpointInv, [Next]_vars
             PROVE  CheckpointInv'
  OBVIOUS
<1> USE DEF Sealed
<1>1. Len(ledger) \in Nat /\ DOMAIN ckpts \subseteq 0 .. Len(ledger) - 1
  BY DEF TypeOK
<1>2. CASE OpensLedger
  BY <1>2, CheckpointsSurviveAppend DEF OpensLedger
<1>3. CASE AppendsLine
  BY <1>3, CheckpointsSurviveAppend DEF AppendsLine
<1>4. CASE SealsRun
  BY <1>4, CheckpointsSurviveAppend DEF SealsRun
<1>5. CASE SavesSnapshot
  <2>1. ledger # << >>
    BY <1>5 DEF SavesSnapshot, ControlInv
  <2>2. Snapshot(LastSeq, state) \in Snapshots
    BY <2>1, SnapshotTyped
  <2>3. Len(ledger) > 0 /\ LastSeq + 1 = Len(ledger)
    BY <1>1, <2>1, EmptySeq DEF TypeOK, LastSeq
  <2>4. QED
    BY <1>1, <1>5, <2>2, <2>3 DEF SavesSnapshot, CheckpointInv, WriteFile, Snapshot
<1>6. CASE TearsSnapshot
  <2>1. ledger # << >>
    BY <1>6 DEF TearsSnapshot, ControlInv
  <2>2. Len(ledger) > 0 /\ LastSeq + 1 = Len(ledger)
    BY <1>1, <2>1, EmptySeq DEF TypeOK, LastSeq
  <2>3. QED
    BY <1>1, <1>6, <2>2 DEF TearsSnapshot, CheckpointInv, WriteFile
<1>7. CASE LeavesArtifacts
  BY <1>7 DEF LeavesArtifacts, CheckpointInv
<1>8. QED
  BY <1>2, <1>3, <1>4, <1>5, <1>6, <1>7, StepShape

LEMMA SavedValidates == TypeOK /\ CheckpointInv => CheckpointsAreForkable
<1> SUFFICES ASSUME TypeOK, CheckpointInv, Sealed, NEW seq \in DOMAIN ckpts
             PROVE  ValidateCheckpoint(ckpts[seq], seq, ledger)
  BY DEF CheckpointsAreForkable
<1>1. /\ ckpts[seq] \in Snapshots /\ ckpts[seq].seq = seq
      /\ ckpts[seq].logical_time = ckpts[seq].state.round
      /\ ckpts[seq].prefix = SubSeq(ledger, 1, seq + 1)
      /\ seq + 1 < Len(ledger) /\ Boundary(ledger[seq + 2], seq, ckpts[seq].state)
  BY DEF CheckpointInv, Sealed
<1>2. ckpts[seq] # Torn
  BY <1>1, ActionAssumption DEF Snapshots, Torn
<1>3. seq \in Nat /\ Len(ledger) \in Nat
  BY DEF TypeOK
<1>4. QED
  BY <1>1, <1>2, <1>3 DEF ValidateCheckpoint, Boundary

(* Every checkpoint of a sealed run can be forked: validate_checkpoint      *)
(* accepts it, whether the run completed or failed in a later round         *)
(* (runner.py:285-315 against validation.py:145-168).                       *)
THEOREM CheckpointsAlwaysForkable == Spec => []CheckpointsAreForkable
<1>1. Init => TypeOK /\ ControlInv /\ CheckpointInv
  <2>1. Init => CheckpointInv
    BY DEF Init, CheckpointInv
  <2>2. QED
    BY <2>1, InitTyped
<1>2. TypeOK /\ ControlInv /\ CheckpointInv /\ [Next]_vars
        => TypeOK' /\ ControlInv' /\ CheckpointInv'
  BY TypeStep, CheckpointStep
<1>3. QED
  BY <1>1, <1>2, SavedValidates, PTL DEF Spec

(* No step rewrites a ledger line or a checkpoint file, and a sealed run is *)
(* left alone: in particular no two checkpoints of a run share a file name  *)
(* (store.py:122-132 and 156-182).                                          *)
THEOREM ArtifactsNeverShrink == Spec => ArtifactsOnlyGrow
<1>1. Init => TypeOK /\ ControlInv /\ CheckpointInv
  <2>1. Init => CheckpointInv
    BY DEF Init, CheckpointInv
  <2>2. QED
    BY <2>1, InitTyped
<1>2. TypeOK /\ ControlInv /\ CheckpointInv /\ [Next]_vars
        => TypeOK' /\ ControlInv' /\ CheckpointInv'
  BY TypeStep, CheckpointStep
<1>3. TypeOK /\ ControlInv /\ CheckpointInv /\ [Next]_vars => GrowStep
  <2> SUFFICES ASSUME TypeOK, ControlInv, CheckpointInv, [Next]_vars PROVE GrowStep
    OBVIOUS
  <2> USE DEF Sealed
  <2>1. /\ Len(ledger) \in Nat /\ SubSeq(ledger, 1, Len(ledger)) = ledger
        /\ (ledger # << >> => Len(ledger) > 0)
    <3>1. ledger \in Seq(Events) /\ Len(ledger) \in Nat
      BY DEF TypeOK
    <3>2. QED
      BY <3>1, SubSeqFull, EmptySeq
  <2>2. ASSUME NEW e \in Events, Emit(e)
        PROVE  Len(ledger') >= Len(ledger) /\ SubSeq(ledger', 1, Len(ledger)) = ledger
    <3>1. Len(ledger') = Len(ledger) + 1
      BY <2>2, EmitTyped
    <3>2. CASE ledger = << >>
      <4>1. ledger' \in Seq(Events) /\ Len(ledger) = 0
        BY <2>2, <3>2, EmitTyped
      <4>2. SubSeq(ledger', 1, 0) = << >>
        BY <4>1, SubSeqEmpty
      <4>3. QED
        BY <3>1, <3>2, <4>1, <4>2
    <3>3. CASE ledger # << >>
      BY <2>1, <2>2, <3>1, <3>3, PrefixUntouched
    <3>4. QED
      BY <3>2, <3>3
  <2>3. CASE OpensLedger \/ AppendsLine \/ SealsRun
    BY <2>2, <2>3 DEF OpensLedger, AppendsLine, SealsRun, GrowStep
  <2>4. CASE SavesSnapshot \/ TearsSnapshot
    <3>1. pc \in {"checkpoint", "loop"} /\ UNCHANGED ledger
      BY <2>4 DEF SavesSnapshot, TearsSnapshot
    <3>2. LastSeq + 1 = Len(ledger)
      BY <2>1 DEF LastSeq
    <3>3. LastSeq \notin DOMAIN ckpts
      BY <3>1, <3>2 DEF CheckpointInv
    <3>4. QED
      BY <2>1, <2>4, <3>1, <3>3 DEF SavesSnapshot, TearsSnapshot, WriteFile, GrowStep
  <2>5. CASE LeavesArtifacts
    BY <2>1, <2>5 DEF LeavesArtifacts, GrowStep
  <2>6. QED
    BY <2>3, <2>4, <2>5, StepShape
<1>4. QED
  BY <1>1, <1>2, <1>3, PTL DEF Spec, ArtifactsOnlyGrow

-----------------------------------------------------------------------------
(* The ledger accounts for the state *)

(* Rounds whose WorldTransitioned line is in the ledger: the round just    *)
(* resolved counts from the first such line on.                            *)
Moved == \E k \in 1 .. turn - 1 : DomainEventTypes[k] = "WorldTransitioned"
Told == IF pc = "domain" /\ ~ Moved THEN state.round - 1 ELSE state.round

(* Agents whose action of the current round is accepted. *)
Decided(i) ==
  (pc \in {"propose", "validate", "rejected"} /\ i < turn) \/ pc = "resolve"

(* AccountsFor, strengthened by what holds in the middle of a round: which *)
(* of its actions are in the ledger already, and none of a later round.    *)
AccountInv ==
  pc # "crashed" =>
    /\ TimesOf(ledger, "WorldTransitioned") = 0 .. Told - 1
    /\ Len(state.moves) = state.round
    /\ \A r \in 1 .. state.round : \A i \in Agents :
         AcceptedActions(ledger, r - 1, i) = {state.moves[r][i]}
    /\ state.published = TimesOf(ledger, "AuditPublished")
    /\ \A r \in Nat : \A i \in Agents :
         r > state.round => AcceptedActions(ledger, r, i) = {}
    /\ pc \notin {"fail", "failed"} =>
         \A i \in Agents : AcceptedActions(ledger, state.round, i)
                             = IF Decided(i) THEN {accepted[i]} ELSE {}

(* The last part: what has been saved or sealed.                           *)
ArtifactInv ==
  /\ \A seq \in DOMAIN ckpts :
       ckpts[seq] # Torn => AccountsFor(SubSeq(ledger, 1, seq + 1), ckpts[seq].state)
  /\ Sealed => ledger[Len(ledger)].state_hash = state

(* What an appended line adds to the views of a ledger. *)
LEMMA TimeAdded ==
  ASSUME NEW l \in Seq(Events), NEW e \in Events, NEW type
  PROVE  TimesOf(Append(l, e), type)
           = IF e.event_type = type THEN TimesOf(l, type) \cup {e.logical_time}
             ELSE TimesOf(l, type)
<1> DEFINE m == Append(l, e)
<1>1. /\ Len(l) \in Nat /\ DOMAIN l = 1 .. Len(l) /\ DOMAIN m = 1 .. Len(l) + 1
      /\ \A k \in 1 .. Len(l) : m[k] = l[k]
      /\ m[Len(l) + 1] = e
  BY AppendProperties, LenProperties
<1> HIDE DEF m
<1>2. TimesOf(m, type) = IF e.event_type = type THEN TimesOf(l, type) \cup {e.logical_time}
                         ELSE TimesOf(l, type)
  BY <1>1 DEF TimesOf, Positions
<1>3. QED
  BY <1>2 DEF m

LEMMA ActionAdded ==
  ASSUME NEW l \in Seq(Events), NEW e \in Events, NEW r, NEW i
  PROVE  AcceptedActions(Append(l, e), r, i)
           = IF e.event_type = "ActionAccepted" /\ e.logical_time = r /\ e.agent = i
             THEN AcceptedActions(l, r, i) \cup {e.action} ELSE AcceptedActions(l, r, i)
<1> DEFINE m == Append(l, e)
<1>1. /\ Len(l) \in Nat /\ DOMAIN l = 1 .. Len(l) /\ DOMAIN m = 1 .. Len(l) + 1
      /\ \A k \in 1 .. Len(l) : m[k] = l[k]
      /\ m[Len(l) + 1] = e
  BY AppendProperties, LenProperties
<1> HIDE DEF m
<1>2. AcceptedActions(m, r, i)
        = IF e.event_type = "ActionAccepted" /\ e.logical_time = r /\ e.agent = i
          THEN AcceptedActions(l, r, i) \cup {e.action} ELSE AcceptedActions(l, r, i)
  BY <1>1 DEF AcceptedActions, AcceptedLines, Positions
<1>3. QED
  BY <1>2 DEF m

(* Most lines change nothing that the ledger accounts for. *)
Neutral == EventTypes \ {"WorldTransitioned", "AuditPublished", "ActionAccepted"}

SameAccount ==
  /\ TimesOf(ledger', "WorldTransitioned") = TimesOf(ledger, "WorldTransitioned")
  /\ TimesOf(ledger', "AuditPublished") = TimesOf(ledger, "AuditPublished")
  /\ \A r, i : AcceptedActions(ledger', r, i) = AcceptedActions(ledger, r, i)

LEMMA NeutralLine ==
  ASSUME TypeOK, NEW e \in Events, Emit(e), e.event_type \in Neutral
  PROVE  SameAccount
<1>1. ledger \in Seq(Events) /\ ledger' = Append(ledger, e)
  BY DEF TypeOK, Emit
<1>2. e.event_type \notin {"WorldTransitioned", "AuditPublished", "ActionAccepted"}
  BY DEF Neutral
<1>3. ASSUME NEW type, type \in {"WorldTransitioned", "AuditPublished"}
      PROVE  TimesOf(ledger', type) = TimesOf(ledger, type)
  BY <1>1, <1>2, <1>3, TimeAdded
<1>4. ASSUME NEW r, NEW i PROVE AcceptedActions(ledger', r, i) = AcceptedActions(ledger, r, i)
  BY <1>1, <1>2, ActionAdded
<1>5. QED
  BY <1>3, <1>4 DEF SameAccount

(* The fields of a line made by Event. *)
LEMMA EventFields ==
  ASSUME NEW type, NEW t, NEW agent, NEW action
  PROVE  /\ Event(type, t, agent, action).event_type = type
         /\ Event(type, t, agent, action).logical_time = t
         /\ Event(type, t, agent, action).agent = agent
         /\ Event(type, t, agent, action).action = action
BY DEF Event

(* The steps that write a line the account does not depend on. *)
LEMMA NeutralStep ==
  ASSUME TypeOK, ControlInv,
         \/ StartRun \/ IssueObservation \/ RejectProposal \/ AnnounceCheckpoint
         \/ SealFailed \/ SealCompleted \/ \E action \in Actions : Propose(action)
  PROVE  SameAccount
<1>1. state \in States /\ state.round \in Nat
  BY DEF TypeOK, States
<1>2. ASSUME NEW type \in Neutral, NEW t \in Nat, NEW agent \in Agents \cup {Engine},
             NEW action \in Actions \cup {None}, Emit(Event(type, t, agent, action))
      PROVE  SameAccount
  BY <1>2, EventTyped, EventFields, NeutralLine DEF Neutral
<1> USE DEF Neutral, EventTypes
<1>3. CASE StartRun
  BY <1>2, <1>3 DEF StartRun
<1>4. CASE IssueObservation
  BY <1>1, <1>2, <1>4 DEF IssueObservation, ControlInv
<1>5. CASE RejectProposal
  BY <1>1, <1>2, <1>5 DEF RejectProposal, ControlInv
<1>6. ASSUME NEW action \in Actions, Propose(action) PROVE SameAccount
  BY <1>1, <1>2, <1>6 DEF Propose, ControlInv
<1>7. CASE AnnounceCheckpoint
  <2> DEFINE e == Event("CheckpointCreated", state.round, Engine, None)
             f == [e EXCEPT !.at_seq = LastSeq, !.state_hash = state]
  <2>1. LastSeq \in Nat
    BY <1>7, EmptySeq DEF AnnounceCheckpoint, ControlInv, TypeOK, LastSeq
  <2>2. e \in Events /\ e.event_type = "CheckpointCreated"
    BY <1>1, EventTyped DEF Event
  <2>3. f \in Events /\ f.event_type = "CheckpointCreated"
    BY <1>1, <2>1, <2>2 DEF Events
  <2>4. QED
    BY <1>7, <2>3, NeutralLine DEF AnnounceCheckpoint
<1>8. CASE SealFailed
  <2> DEFINE e == Event("RunFailed", state.round, Engine, None)
             f == [e EXCEPT !.reason = failure, !.state_hash = state]
  <2>1. failure \in Reasons
    BY <1>8 DEF SealFailed, ControlInv
  <2>2. e \in Events /\ e.event_type = "RunFailed"
    BY <1>1, EventTyped DEF Event
  <2>3. f \in Events /\ f.event_type = "RunFailed"
    BY <1>1, <2>1, <2>2 DEF Events
  <2>4. QED
    BY <1>8, <2>3, NeutralLine DEF SealFailed
<1>9. CASE SealCompleted
  <2> DEFINE e == Event("RunCompleted", state.round, Engine, None)
             f == [e EXCEPT !.state_hash = state]
  <2>1. e \in Events /\ e.event_type = "RunCompleted"
    BY <1>1, EventTyped DEF Event
  <2>2. f \in Events /\ f.event_type = "RunCompleted"
    BY <1>1, <2>1 DEF Events
  <2>3. QED
    BY <1>9, <2>2, NeutralLine DEF SealCompleted
<1>10. QED
  BY <1>3, <1>4, <1>5, <1>6, <1>7, <1>8, <1>9

LEMMA AccountStep ==
  TypeOK /\ ControlInv /\ AccountInv /\ [Next]_vars => AccountInv'
<1> SUFFICES ASSUME TypeOK, ControlInv, AccountInv, [Next]_vars, pc # "crashed"
             PROVE  AccountInv'
  BY DEF AccountInv, Next, EngineStep, PolicyStep, StartRun, OpenRound, IssueObservation,
         AcceptProposal, RejectProposal, FallBackToAbstain, FailOnInvalidAction, Resolve,
         EmitDomainEvent, SaveCheckpoint, AnnounceCheckpoint, SealFailed,
         SaveFinalCheckpoint, SealCompleted, Propose, PolicyRaises, Crash, Running, vars
<1>1. /\ state \in States /\ state.round \in Nat /\ turn \in Nat \ {0}
      /\ NumAgents \in Nat \ {0} /\ Agents = 1 .. NumAgents /\ ledger \in Seq(Events)
  BY SizeAssumption DEF TypeOK, States, Agents
<1>2. /\ TimesOf(ledger, "WorldTransitioned") = 0 .. Told - 1
      /\ Len(state.moves) = state.round
      /\ \A r \in 1 .. state.round : \A i \in Agents :
           AcceptedActions(ledger, r - 1, i) = {state.moves[r][i]}
      /\ state.published = TimesOf(ledger, "AuditPublished")
      /\ \A r \in Nat : \A i \in Agents :
           r > state.round => AcceptedActions(ledger, r, i) = {}
      /\ pc \notin {"fail", "failed"} =>
           \A i \in Agents : AcceptedActions(ledger, state.round, i)
                               = IF Decided(i) THEN {accepted[i]} ELSE {}
  BY DEF AccountInv
(* steps that neither resolve nor accept, and tell nothing new *)
<1>3. ASSUME SameAccount \/ UNCHANGED ledger, UNCHANGED state, Told' = Told,
             \/ pc' \in {"crashed", "fail", "failed"}
             \/ /\ pc \notin {"fail", "failed"}
                /\ \A i \in Agents : /\ Decided(i)' <=> Decided(i)
                                     /\ Decided(i) => accepted'[i] = accepted[i]
      PROVE  AccountInv'
  <2>1. SameAccount
    BY <1>3 DEF SameAccount
  <2> HIDE DEF SameAccount
  <2>2. \A i \in Agents : pc' \notin {"crashed", "fail", "failed"} =>
          AcceptedActions(ledger', state'.round, i) = IF Decided(i)' THEN {accepted'[i]} ELSE {}
    BY <1>2, <1>3, <2>1 DEF SameAccount
  <2>3. QED
    <3>1. /\ TimesOf(ledger', "WorldTransitioned") = 0 .. Told' - 1
          /\ Len(state'.moves) = state'.round
          /\ state'.published = TimesOf(ledger', "AuditPublished")
      BY <1>2, <1>3, <2>1 DEF SameAccount
    <3>2. /\ \A r \in 1 .. state'.round : \A i \in Agents :
               AcceptedActions(ledger', r - 1, i) = {state'.moves[r][i]}
          /\ \A r \in Nat : \A i \in Agents :
               r > state'.round => AcceptedActions(ledger', r, i) = {}
      BY <1>2, <1>3, <2>1 DEF SameAccount
    <3>3. QED
      BY <2>2, <3>1, <3>2 DEF AccountInv, Decided
<1>4. CASE StartRun
  BY <1>3, <1>4, NeutralStep DEF StartRun, Told, Decided
<1>5. CASE IssueObservation
  BY <1>1, <1>3, <1>5, NeutralStep DEF IssueObservation, Told, Decided
<1>6. CASE RejectProposal
  BY <1>3, <1>6, NeutralStep DEF RejectProposal, Told, Decided
<1>7. CASE AnnounceCheckpoint
  BY <1>3, <1>7, NeutralStep DEF AnnounceCheckpoint, Told, Decided
<1>8. CASE SealFailed
  BY <1>3, <1>8, NeutralStep DEF SealFailed, Told, Decided
<1>9. CASE SealCompleted
  BY <1>3, <1>9, NeutralStep DEF SealCompleted, Told, Decided
<1>10. ASSUME NEW action \in Actions, Propose(action) PROVE AccountInv'
  BY <1>3, <1>10, NeutralStep DEF Propose, Told, Decided
<1>11. ASSUME NEW kind \in PolicyErrors, PolicyRaises(kind) PROVE AccountInv'
  BY <1>3, <1>11 DEF PolicyRaises, Told, Decided
<1>12. CASE FailOnInvalidAction
  BY <1>3, <1>12 DEF FailOnInvalidAction, Told, Decided
<1>13. CASE SaveCheckpoint
  BY <1>3, <1>13 DEF SaveCheckpoint, Told, Decided
<1>14. CASE SaveFinalCheckpoint
  BY <1>3, <1>14 DEF SaveFinalCheckpoint, Told, Decided
<1>15. CASE Crash
  BY <1>15 DEF Crash, AccountInv
<1>16. CASE UNCHANGED vars
  BY <1>2, <1>16 DEF vars, AccountInv, Told, Moved, Decided
<1>17. CASE OpenRound
  <2>1. CASE UNCHANGED ledger /\ UNCHANGED state
    BY <1>1, <1>3, <1>17, <2>1 DEF OpenRound, Told, Decided
  <2>2. CASE UNCHANGED ledger /\ state.round \in OpeningRounds \cap state.published
    <3>1. UNCHANGED state
      BY <1>1, <1>17, <2>2 DEF OpenRound, Published, States
    <3>2. QED
      BY <2>1, <2>2, <3>1
  <2>3. CASE state.round \in OpeningRounds \ state.published
    <3> DEFINE e == Event("AuditPublished", state.round, Engine, None)
    <3>1. e \in Events /\ Emit(e)
      BY <1>1, <1>17, <2>3, EventTyped DEF OpenRound, EventTypes
    <3>2. e.event_type = "AuditPublished" /\ e.logical_time = state.round
      BY DEF Event
    <3> HIDE DEF e
    <3>3. ledger' = Append(ledger, e)
      BY <3>1 DEF Emit
    <3>4. /\ TimesOf(ledger', "WorldTransitioned") = TimesOf(ledger, "WorldTransitioned")
          /\ TimesOf(ledger', "AuditPublished")
               = TimesOf(ledger, "AuditPublished") \cup {state.round}
      BY <1>1, <3>1, <3>2, <3>3, TimeAdded
    <3>5. \A r, i : AcceptedActions(ledger', r, i) = AcceptedActions(ledger, r, i)
      BY <1>1, <3>1, <3>2, <3>3, ActionAdded
    <3>6. /\ state'.round = state.round /\ state'.moves = state.moves
          /\ state'.published = state.published \cup {state.round}
      BY <1>1, <1>17, <2>3 DEF OpenRound, Published, States
    <3>7. pc = "loop" /\ pc' = "observe" /\ Told' = Told /\ Told = state.round
      BY <1>17, <3>6 DEF OpenRound, Told
    <3>8. \A i : ~ Decided(i) /\ ~ Decided(i)'
      BY <3>7 DEF Decided
    <3>9. QED
      BY <1>2, <3>4, <3>5, <3>6, <3>7, <3>8 DEF AccountInv, Decided
  <2>4. QED
    BY <1>1, <1>17, <2>1, <2>2, <2>3 DEF OpenRound, Published
(* accepting adds the action of the agent whose turn it is, and only that *)
<1>18. ASSUME NEW action \in Actions, Accept(action), pc \in {"validate", "rejected"},
              turn \in Agents, UNCHANGED state
       PROVE  AccountInv'
  <2> DEFINE e == Event("ActionAccepted", state.round, turn, action)
  <2>1. e \in Events /\ Emit(e)
    BY <1>1, <1>18, EventTyped DEF Accept, EventTypes
  <2>2. /\ e.event_type = "ActionAccepted" /\ e.logical_time = state.round
        /\ e.agent = turn /\ e.action = action
    BY DEF Event
  <2> HIDE DEF e
  <2>3. ledger' = Append(ledger, e)
    BY <2>1 DEF Emit
  <2>4. /\ TimesOf(ledger', "WorldTransitioned") = TimesOf(ledger, "WorldTransitioned")
        /\ TimesOf(ledger', "AuditPublished") = TimesOf(ledger, "AuditPublished")
    BY <1>1, <2>1, <2>2, <2>3, TimeAdded
  <2>5. /\ \A r, i : r # state.round \/ i # turn =>
             AcceptedActions(ledger', r, i) = AcceptedActions(ledger, r, i)
        /\ AcceptedActions(ledger', state.round, turn) = {action}
    <3>1. AcceptedActions(ledger, state.round, turn) = {}
      <4>1. ~ Decided(turn)
        BY <1>1, <1>18 DEF Decided
      <4>2. QED
        BY <1>2, <1>18, <4>1
    <3>2. QED
      BY <1>1, <2>1, <2>2, <2>3, <3>1, ActionAdded
  <2>6. pc' \in {"propose", "resolve"} /\ Told' = Told
    BY <1>18 DEF Accept, Told
  <2>7. \A i \in Agents : AcceptedActions(ledger', state.round, i)
                            = IF Decided(i)' THEN {accepted'[i]} ELSE {}
    <3>1. accepted'[turn] = action /\ \A i \in Agents : i # turn => accepted'[i] = accepted[i]
      BY <1>18 DEF Accept, TypeOK
    <3>2. \A i \in Agents : Decided(i)' <=> Decided(i) \/ i = turn
      BY <1>1, <1>18 DEF Accept, Decided
    <3>3. QED
      <4> SUFFICES ASSUME NEW i \in Agents
                   PROVE  AcceptedActions(ledger', state.round, i)
                            = IF Decided(i)' THEN {accepted'[i]} ELSE {}
        OBVIOUS
      <4>1. CASE i = turn
        BY <2>5, <3>1, <3>2, <4>1
      <4>2. CASE i # turn
        <5>1. AcceptedActions(ledger, state.round, i) = IF Decided(i) THEN {accepted[i]} ELSE {}
          BY <1>2, <1>18
        <5>2. QED
          BY <2>5, <3>1, <3>2, <4>2, <5>1
      <4>3. QED
        BY <4>1, <4>2
  <2>8. \A r \in 1 .. state.round : \A i \in Agents :
          AcceptedActions(ledger', r - 1, i) = {state.moves[r][i]}
    <3>1. \A r \in 1 .. state.round : r - 1 # state.round
      BY <1>1
    <3>2. QED
      BY <1>2, <2>5, <3>1
  <2>9. \A r \in Nat : \A i \in Agents : r > state.round => AcceptedActions(ledger', r, i) = {}
    BY <1>1, <1>2, <2>5
  <2>10. QED
    BY <1>2, <1>18, <2>4, <2>6, <2>7, <2>8, <2>9 DEF AccountInv
<1>19. CASE AcceptProposal
  BY <1>18, <1>19 DEF AcceptProposal, ControlInv
<1>20. CASE FallBackToAbstain
  BY <1>18, <1>20, ActionAssumption DEF FallBackToAbstain, ControlInv
<1>21. CASE Resolve
  <2>1. accepted \in Profiles
    BY <1>21 DEF Resolve, ControlInv
  <2>2. state.moves \in Seq(Profiles)
    BY <1>1 DEF States
  <2>3. /\ state'.round = state.round + 1 /\ state'.published = state.published
        /\ state'.moves = Append(state.moves, accepted)
    BY <1>1, <1>21 DEF Resolve, Resolved, States
  <2>4. /\ Len(state'.moves) = state.round + 1
        /\ \A r \in 1 .. state.round : state'.moves[r] = state.moves[r]
        /\ state'.moves[state.round + 1] = accepted
    BY <1>2, <2>1, <2>2, <2>3, AppendProperties
  <2>5. pc = "resolve" /\ pc' = "domain" /\ turn' = 1 /\ UNCHANGED ledger
    BY <1>21 DEF Resolve
  <2>6. Told' = state.round /\ Told = state.round
    BY <1>1, <2>3, <2>5 DEF Told, Moved
  <2>7. \A r \in 1 .. state.round + 1 : \A i \in Agents :
          AcceptedActions(ledger', r - 1, i) = {state'.moves[r][i]}
    <3> SUFFICES ASSUME NEW r \in 1 .. state.round + 1, NEW i \in Agents
                 PROVE  AcceptedActions(ledger, r - 1, i) = {state'.moves[r][i]}
      BY <2>5
    <3>1. CASE r \in 1 .. state.round
      BY <1>2, <2>4, <3>1
    <3>2. CASE r = state.round + 1
      <4>1. r - 1 = state.round /\ state'.moves[r] = accepted
        BY <1>1, <2>4, <3>2
      <4>2. AcceptedActions(ledger, state.round, i) = {accepted[i]}
        BY <1>2, <2>5 DEF Decided
      <4>3. QED
        BY <4>1, <4>2
    <3>3. QED
      BY <1>1, <3>1, <3>2
  <2>8. \A r \in Nat : r > state.round + 1 => r > state.round
    BY <1>1
  <2>9. \A i \in Agents : AcceptedActions(ledger', state'.round, i) = {}
    BY <1>1, <1>2, <2>3, <2>5
  <2>10. \A i : ~ Decided(i)'
    BY <2>5 DEF Decided
  <2>11. QED
    BY <1>2, <2>3, <2>4, <2>5, <2>6, <2>7, <2>8, <2>9, <2>10 DEF AccountInv
<1>22. CASE EmitDomainEvent
  <2> DEFINE type == DomainEventTypes[turn]
             e == Event(type, state.round - 1, Engine, None)
  <2>1. turn \in 1 .. Len(DomainEventTypes) /\ state.round - 1 \in Nat
        /\ Len(DomainEventTypes) \in Nat
    BY <1>1, <1>22, DomainEventAssumption DEF EmitDomainEvent, ControlInv
  <2>2. type \in {"WorldTransitioned", "RewardAssigned"}
    BY <2>1, DomainEventAssumption, ElementOfSeq
  <2>3. e \in Events /\ Emit(e) /\ e.event_type = type /\ e.logical_time = state.round - 1
    BY <1>22, <2>1, <2>2, EventTyped, EventFields DEF EmitDomainEvent, EventTypes
  <2> HIDE DEF e
  <2>4. ledger' = Append(ledger, e) /\ UNCHANGED <<state, accepted>>
    BY <1>22, <2>3 DEF Emit, EmitDomainEvent
  <2>5. CASE type = "RewardAssigned"
    <3>1. SameAccount
      BY <2>3, <2>5, NeutralLine DEF Neutral, EventTypes
    <3>2. Told' = Told
      BY <1>1, <1>22, <2>1, <2>5, DomainEventAssumption DEF EmitDomainEvent, Told, Moved
    <3>3. QED
      BY <1>3, <1>22, <2>4, <3>1, <3>2 DEF EmitDomainEvent, Decided
  <2>6. CASE type = "WorldTransitioned"
    <3>1. Told' = state.round
      BY <1>1, <1>22, <2>1, <2>6 DEF EmitDomainEvent, Told, Moved
    <3>2. TimesOf(ledger', "WorldTransitioned")
            = TimesOf(ledger, "WorldTransitioned") \cup {state.round - 1}
      BY <1>1, <2>3, <2>4, <2>6, TimeAdded
    <3>3. TimesOf(ledger', "WorldTransitioned") = 0 .. state.round - 1
      <4>1. Told \in {state.round - 1, state.round}
        BY DEF Told
      <4>2. (0 .. Told - 1) \cup {state.round - 1} = 0 .. state.round - 1
        BY <1>1, <2>1, <4>1
      <4>3. QED
        BY <1>2, <3>2, <4>2
    <3>4. TimesOf(ledger', "AuditPublished") = TimesOf(ledger, "AuditPublished")
      BY <1>1, <2>3, <2>4, <2>6, TimeAdded
    <3>5. \A r, i : AcceptedActions(ledger', r, i) = AcceptedActions(ledger, r, i)
      BY <1>1, <2>3, <2>4, <2>6, ActionAdded
    <3>6. pc = "domain" /\ pc' \in {"domain", "checkpoint", "loop"}
      BY <1>22 DEF EmitDomainEvent
    <3>7. \A i : ~ Decided(i) /\ ~ Decided(i)'
      BY <3>6 DEF Decided
    <3>8. QED
      BY <1>2, <2>4, <3>1, <3>3, <3>4, <3>5, <3>6, <3>7 DEF AccountInv
  <2>7. QED
    BY <2>2, <2>5, <2>6
<1>23. QED
  BY <1>4, <1>5, <1>6, <1>7, <1>8, <1>9, <1>10, <1>11, <1>12, <1>13, <1>14, <1>15,
     <1>16, <1>17, <1>19, <1>20, <1>21, <1>22 DEF Next, EngineStep, PolicyStep

LEMMA AccountHolds ==
  ASSUME TypeOK, AccountInv, pc \notin {"crashed", "domain"}
  PROVE  AccountsFor(ledger, state)
BY DEF AccountInv, AccountsFor, Told

LEMMA ArtifactStep ==
  TypeOK /\ ControlInv /\ AccountInv /\ ArtifactInv /\ [Next]_vars => ArtifactInv'
<1> SUFFICES ASSUME TypeOK, ControlInv, AccountInv, ArtifactInv, [Next]_vars
             PROVE  ArtifactInv'
  OBVIOUS
<1>1. ledger \in Seq(Events) /\ Len(ledger) \in Nat /\ DOMAIN ckpts \subseteq 0 .. Len(ledger) - 1
  BY DEF TypeOK
(* a new line leaves the lines a checkpoint rests on *)
<1>2. ASSUME NEW e \in Events, Emit(e), UNCHANGED ckpts
      PROVE  \A seq \in DOMAIN ckpts' :
               ckpts'[seq] # Torn => AccountsFor(SubSeq(ledger', 1, seq + 1), ckpts'[seq].state)
  <2> SUFFICES ASSUME NEW seq \in DOMAIN ckpts
               PROVE  SubSeq(ledger', 1, seq + 1) = SubSeq(ledger, 1, seq + 1)
    BY <1>2 DEF ArtifactInv
  <2>1. seq + 1 \in 1 .. Len(ledger)
    BY <1>1
  <2>2. QED
    BY <1>2, <2>1, PrefixUntouched
<1>3. CASE OpensLedger
  BY <1>2, <1>3 DEF OpensLedger, ArtifactInv, Sealed
<1>4. CASE AppendsLine
  BY <1>2, <1>4 DEF AppendsLine, ArtifactInv, Sealed
<1>5. CASE SealsRun
  <2>1. PICK e \in Events : Emit(e) /\ e.state_hash = state
    BY <1>5 DEF SealsRun
  <2>2. ledger'[Len(ledger')] = e
    BY <2>1, EmitTyped
  <2>3. QED
    BY <1>2, <1>5, <2>1, <2>2 DEF SealsRun, ArtifactInv
<1>6. CASE SavesSnapshot
  <2>1. ledger # << >> /\ pc \notin {"crashed", "domain"} /\ ~ Sealed'
    BY <1>6 DEF SavesSnapshot, ControlInv, Sealed
  <2>2. LastSeq + 1 = Len(ledger) /\ SubSeq(ledger, 1, Len(ledger)) = ledger
    BY <1>1, SubSeqFull DEF LastSeq
  <2>3. AccountsFor(SubSeq(ledger, 1, LastSeq + 1), Snapshot(LastSeq, state).state)
    BY <2>1, <2>2, AccountHolds DEF Snapshot
  <2>4. UNCHANGED ledger /\ ckpts' = WriteFile(ckpts, LastSeq, Snapshot(LastSeq, state))
    BY <1>6 DEF SavesSnapshot
  <2>5. \A seq \in DOMAIN ckpts' :
          IF seq = LastSeq THEN ckpts'[seq] = Snapshot(LastSeq, state)
          ELSE seq \in DOMAIN ckpts /\ ckpts'[seq] = ckpts[seq]
    BY <2>4 DEF WriteFile
  <2>6. QED
    BY <2>1, <2>3, <2>4, <2>5 DEF ArtifactInv
<1>7. CASE TearsSnapshot
  <2>1. UNCHANGED ledger /\ ~ Sealed'
    BY <1>7 DEF TearsSnapshot, Sealed
  <2>2. \A seq \in DOMAIN ckpts' :
          ckpts'[seq] = Torn \/ (seq \in DOMAIN ckpts /\ ckpts'[seq] = ckpts[seq])
    BY <1>7 DEF TearsSnapshot, WriteFile
  <2>3. QED
    BY <2>1, <2>2 DEF ArtifactInv
<1>8. CASE LeavesArtifacts
  BY <1>8 DEF LeavesArtifacts, ArtifactInv, Sealed
<1>9. QED
  BY <1>3, <1>4, <1>5, <1>6, <1>7, <1>8, StepShape

LEMMA InitAccount == Init => AccountInv /\ ArtifactInv
<1> SUFFICES ASSUME Init PROVE AccountInv /\ ArtifactInv
  OBVIOUS
<1>1. \A type, r, i : TimesOf(<< >>, type) = {} /\ AcceptedActions(<< >>, r, i) = {}
  BY DEF TimesOf, AcceptedActions, AcceptedLines, Positions
<1>2. Told = 0 /\ \A i : ~ Decided(i)
  BY DEF Init, InitialState, Told, Decided
<1>3. QED
  BY <1>1, <1>2 DEF Init, InitialState, AccountInv, ArtifactInv, Sealed, Decided

LEMMA SavedAccounts ==
  TypeOK /\ AccountInv /\ ArtifactInv => ArtifactsAccountForLedger
BY AccountHolds DEF ArtifactsAccountForLedger, ArtifactInv, Sealed

(* No accepted action is lost or repeated: every checkpoint, at every       *)
(* moment and after a crash, holds the state that the lines up to its seq   *)
(* add up to, and the hash a run is sealed with is that of what its whole   *)
(* ledger adds up to, the unfinished round of a failed run left out         *)
(* (runner.py:272-307).                                                     *)
THEOREM ArtifactsAlwaysAccount == Spec => []ArtifactsAccountForLedger
<1> DEFINE Inv == TypeOK /\ ControlInv /\ AccountInv /\ ArtifactInv
<1>1. Init => Inv
  BY InitTyped, InitAccount
<1>2. Inv /\ [Next]_vars => Inv'
  BY TypeStep, AccountStep, ArtifactStep
<1>3. Inv => ArtifactsAccountForLedger
  BY SavedAccounts
<1>4. QED
  BY <1>1, <1>2, <1>3, PTL DEF Spec

-----------------------------------------------------------------------------
(* The ledger is a play of the abstract game *)

(* The state an opened round is played at is the one the game's legality   *)
(* is asked of, and the moves of the round being told were legal at it.    *)
Opened == pc \in {"observe", "propose", "validate", "rejected", "resolve"}

LegalityInv ==
  /\ config.stop_round = MaxRounds /\ state.round <= MaxRounds
  /\ Opened \/ pc \in {"fail", "failed"} => state.round < MaxRounds
  /\ pc \in {"complete", "completed"} => state.round = MaxRounds
  /\ Opened => state.published = OpeningRounds \cap 0 .. state.round
  /\ pc \in {"start", "loop", "domain", "checkpoint", "announce"} =>
       state.published = OpeningRounds \cap 0 .. state.round - 1
  /\ \A i \in Agents : Decided(i) => Legal(state, i, accepted[i])
  /\ pc = "domain" =>
       \A i \in Agents :
         LegalMove(SubSeq(state.moves, 1, state.round - 1), i, state.moves[state.round][i])

LEMMA LegalityStep ==
  TypeOK /\ ControlInv /\ AccountInv /\ LegalityInv /\ [Next]_vars => LegalityInv'
<1> SUFFICES ASSUME TypeOK, ControlInv, AccountInv, LegalityInv, [Next]_vars
             PROVE  LegalityInv'
  OBVIOUS
<1>1. /\ state \in States /\ state.round \in Nat /\ turn \in Nat \ {0}
      /\ NumAgents \in Nat \ {0} /\ Agents = 1 .. NumAgents /\ MaxRounds \in Nat \ {0}
  BY SizeAssumption DEF TypeOK, States, Agents
(* steps within the same part of a round *)
<1>2. ASSUME UNCHANGED <<config, state>>,
             Opened' => Opened, pc' \in {"fail", "failed"} => Opened \/ pc \in {"fail", "failed"},
             pc' \in {"complete", "completed"} => pc \in {"complete", "completed"},
             pc' \in {"start", "loop", "domain", "checkpoint", "announce"} =>
               pc \in {"start", "loop", "domain", "checkpoint", "announce"},
             \A i \in Agents : Decided(i)' => Decided(i) /\ accepted'[i] = accepted[i],
             pc' = "domain" => pc = "domain"
      PROVE  LegalityInv'
  <2>1. \A i \in Agents : Decided(i)' => Legal(state, i, accepted'[i])
    BY <1>2 DEF LegalityInv
  <2>2. QED
    BY <1>2, <2>1 DEF LegalityInv, Opened, Decided, LegalMove, StateBefore
<1>3. CASE StartRun
  BY <1>2, <1>3 DEF StartRun, Opened, Decided
<1>4. CASE IssueObservation
  BY <1>1, <1>2, <1>4 DEF IssueObservation, Opened, Decided
<1>5. ASSUME NEW action \in Actions, Propose(action) PROVE LegalityInv'
  BY <1>2, <1>5 DEF Propose, Opened, Decided
<1>6. ASSUME NEW kind \in PolicyErrors, PolicyRaises(kind) PROVE LegalityInv'
  BY <1>2, <1>6 DEF PolicyRaises, Opened, Decided
<1>7. CASE RejectProposal
  BY <1>2, <1>7 DEF RejectProposal, Opened, Decided
<1>8. CASE FailOnInvalidAction
  BY <1>2, <1>8 DEF FailOnInvalidAction, Opened, Decided
<1>9. CASE EmitDomainEvent
  BY <1>2, <1>9 DEF EmitDomainEvent, Opened, Decided
<1>10. CASE SaveCheckpoint
  BY <1>2, <1>10 DEF SaveCheckpoint, Opened, Decided
<1>11. CASE AnnounceCheckpoint
  BY <1>2, <1>11 DEF AnnounceCheckpoint, Opened, Decided
<1>12. CASE SealFailed
  BY <1>2, <1>12 DEF SealFailed, Opened, Decided
<1>13. CASE SealCompleted
  BY <1>2, <1>13 DEF SealCompleted, Opened, Decided
<1>14. CASE Crash
  BY <1>2, <1>14 DEF Crash, Opened, Decided
<1>15. CASE UNCHANGED vars
  BY <1>2, <1>15 DEF vars, Opened, Decided
<1>16. CASE SaveFinalCheckpoint
  BY <1>1, <1>16 DEF SaveFinalCheckpoint, LegalityInv, Terminal, Opened, Decided
<1>17. CASE OpenRound
  <2>1. /\ state'.round = state.round /\ state'.moves = state.moves
        /\ state'.published = state.published \cup (OpeningRounds \cap {state.round})
    BY <1>1, <1>17 DEF OpenRound, Published, States
  <2>2. state.round < MaxRounds
    BY <1>1, <1>17 DEF OpenRound, Terminal, LegalityInv
  <2>3. (0 .. state.round - 1) \cup {state.round} = 0 .. state.round
    BY <1>1
  <2>4. state'.published = OpeningRounds \cap 0 .. state.round
    BY <1>17, <2>1, <2>3 DEF OpenRound, LegalityInv
  <2>5. QED
    BY <1>17, <2>1, <2>2, <2>4 DEF OpenRound, LegalityInv, Opened, Decided
<1>18. ASSUME NEW action \in Actions, Accept(action), pc \in {"validate", "rejected"},
              turn \in Agents, UNCHANGED <<config, state>>, Legal(state, turn, action)
       PROVE  LegalityInv'
  <2>1. pc' \in {"propose", "resolve"}
    BY <1>18 DEF Accept
  <2>2. accepted'[turn] = action /\ \A i \in Agents : i # turn => accepted'[i] = accepted[i]
    BY <1>18 DEF Accept, TypeOK
  <2>3. \A i \in Agents : Decided(i)' => Decided(i) \/ i = turn
    BY <1>1, <1>18 DEF Accept, Decided
  <2>4. \A i \in Agents : Decided(i)' => Legal(state, i, accepted'[i])
    BY <1>18, <2>2, <2>3 DEF LegalityInv
  <2>5. QED
    BY <1>18, <2>1, <2>4 DEF LegalityInv, Opened, Decided
<1>19. CASE AcceptProposal
  BY <1>18, <1>19 DEF AcceptProposal, ControlInv
<1>20. CASE FallBackToAbstain
  BY <1>18, <1>20, ActionAssumption DEF FallBackToAbstain, ControlInv
<1>21. CASE Resolve
  <2>1. pc = "resolve" /\ pc' = "domain" /\ UNCHANGED config /\ accepted \in Profiles
    BY <1>21 DEF Resolve, ControlInv
  <2>2. state.moves \in Seq(Profiles) /\ Len(state.moves) = state.round
    BY <1>1, <2>1 DEF States, AccountInv
  <2>3. /\ state'.round = state.round + 1 /\ state'.published = state.published
        /\ state'.moves = Append(state.moves, accepted)
    BY <1>1, <1>21 DEF Resolve, Resolved, States
  <2>4. SubSeq(state'.moves, 1, state'.round - 1) = state.moves
        /\ state'.moves[state'.round] = accepted
    <3>1. SubSeq(Append(state.moves, accepted), 1, Len(state.moves)) = state.moves
      <4>1. /\ Append(state.moves, accepted) \in Seq(Profiles)
            /\ Len(Append(state.moves, accepted)) = state.round + 1
            /\ \A k \in 1 .. state.round : Append(state.moves, accepted)[k] = state.moves[k]
        BY <2>1, <2>2, AppendProperties
      <4> DEFINE longer == Append(state.moves, accepted)
      <4> HIDE DEF longer
      <4>2. /\ SubSeq(longer, 1, state.round) \in Seq(Profiles)
            /\ Len(SubSeq(longer, 1, state.round)) = state.round
            /\ \A k \in 1 .. state.round : SubSeq(longer, 1, state.round)[k] = longer[k]
        BY <1>1, <4>1, SubSeqProperties DEF longer
      <4>3. SubSeq(longer, 1, state.round) = state.moves
        BY <2>2, <4>1, <4>2, SeqEqual DEF longer
      <4>4. QED
        BY <2>2, <4>3 DEF longer
    <3>2. state'.round - 1 = Len(state.moves)
      BY <1>1, <2>2, <2>3
    <3>3. QED
      BY <2>1, <2>2, <2>3, <3>1, <3>2, AppendProperties
  <2>5. state = StateBefore(Len(state.moves), state.moves)
    <3>1. state.published = OpeningRounds \cap 0 .. state.round
      BY <2>1 DEF LegalityInv, Opened
    <3>2. SubSeq(state.moves, 1, Len(state.moves)) = state.moves
      BY <2>2, SubSeqFull
    <3>3. QED
      BY <1>1, <2>2, <3>1, <3>2 DEF StateBefore, States
  <2>6. \A i \in Agents : LegalMove(state.moves, i, accepted[i])
    BY <2>1, <2>5 DEF LegalityInv, Decided, LegalMove
  <2>7. state.round < MaxRounds
    BY <2>1 DEF LegalityInv, Opened
  <2>8. state'.published = OpeningRounds \cap 0 .. state'.round - 1
    BY <1>1, <2>1, <2>3 DEF LegalityInv, Opened
  <2>9. /\ config'.stop_round = MaxRounds /\ state'.round <= MaxRounds
        /\ \A i \in Agents : ~ Decided(i)'
        /\ ~ Opened'
    BY <1>1, <2>1, <2>3, <2>7 DEF LegalityInv, Decided, Opened
  <2>10. \A i \in Agents : LegalMove(SubSeq(state'.moves, 1, state'.round - 1), i,
                                     state'.moves[state'.round][i])
    BY <2>4, <2>6
  <2>11. QED
    BY <2>1, <2>8, <2>9, <2>10 DEF LegalityInv, Decided
<1>22. QED
  BY <1>3, <1>4, <1>5, <1>6, <1>7, <1>8, <1>9, <1>10, <1>11, <1>12, <1>13, <1>14, <1>15,
     <1>16, <1>17, <1>19, <1>20, <1>21 DEF Next, EngineStep, PolicyStep

(* The history read from the ledger is that of the rounds told. *)
LEMMA HistoryTold ==
  ASSUME TypeOK, ControlInv, AccountInv, pc # "crashed"
  PROVE  /\ LedgerMoves(ledger) = SubSeq(state.moves, 1, Told)
         /\ Told \in Nat /\ Told <= state.round /\ Len(LedgerMoves(ledger)) = Told
         /\ \A r \in 1 .. Told : LedgerMoves(ledger)[r] = state.moves[r]
<1>1. /\ state.round \in Nat /\ state.moves \in Seq(Profiles)
      /\ Len(state.moves) = state.round
  BY DEF TypeOK, States, AccountInv
<1>2. Told \in Nat /\ Told <= state.round
  BY <1>1 DEF Told, ControlInv
<1>3. Cardinality(TimesOf(ledger, "WorldTransitioned")) = Told
  <2>1. TimesOf(ledger, "WorldTransitioned") = 0 .. Told - 1
    BY DEF AccountInv
  <2>2. Cardinality(0 .. Told - 1) = Told
    BY <1>2, FS_Interval
  <2>3. QED
    BY <2>1, <2>2
<1> DEFINE told == SubSeq(state.moves, 1, Told)
<1>4. /\ told \in Seq(Profiles) /\ Len(told) = Told
      /\ \A r \in 1 .. Told : told[r] = state.moves[r] /\ state.moves[r] \in Profiles
  BY <1>1, <1>2, SubSeqProperties, ElementOfSeq
<1> HIDE DEF told
<1>5. ASSUME NEW r \in 1 .. Told
      PROVE  [i \in Agents |-> CHOOSE a \in Actions : a \in AcceptedActions(ledger, r - 1, i)]
               = state.moves[r]
  <2>1. \A i \in Agents : AcceptedActions(ledger, r - 1, i) = {state.moves[r][i]}
    BY <1>1, <1>2, <1>5 DEF AccountInv
  <2>2. \A i \in Agents : state.moves[r][i] \in Actions
    BY <1>4 DEF Profiles
  <2>3. \A i \in Agents :
          (CHOOSE a \in Actions : a \in AcceptedActions(ledger, r - 1, i)) = state.moves[r][i]
    BY <2>1, <2>2
  <2>4. state.moves[r] = [i \in Agents |-> state.moves[r][i]]
    BY <1>4 DEF Profiles
  <2>5. QED
    BY <2>3, <2>4
<1>6. LedgerMoves(ledger) = [r \in 1 .. Told |-> state.moves[r]]
  BY <1>3, <1>5 DEF LedgerMoves
<1>7. told = [r \in 1 .. Told |-> state.moves[r]]
  BY <1>2, <1>4, LenProperties
<1>8. QED
  BY <1>2, <1>4, <1>6, <1>7 DEF told

LEMMA VerdictTold ==
  ASSUME TypeOK, LedgerShapeInv
  PROVE  Verdict(ledger) = IF Sealed THEN pc ELSE "open"
<1>1. ledger \in Seq(Events) /\ Len(ledger) \in Nat /\ DOMAIN ledger = 1 .. Len(ledger)
      /\ (ledger # << >> => Len(ledger) > 0)
  BY EmptySeq, LenProperties DEF TypeOK
<1>2. CASE ~ Sealed
  BY <1>1, <1>2 DEF LedgerShapeInv, Verdict, Positions, Seals
<1>3. CASE Sealed
  <2>1. Len(ledger) \in DOMAIN ledger /\ ledger[Len(ledger)].event_type = SealOf[pc]
    BY <1>1, <1>3 DEF LedgerShapeInv
  <2>2. \A k \in DOMAIN ledger : k # Len(ledger) => ledger[k].event_type \notin Seals
    BY <1>1, <1>3 DEF LedgerShapeInv
  <2>3. CASE pc = "completed"
    BY <1>3, <2>1, <2>3 DEF SealOf, Verdict, Positions
  <2>4. CASE pc = "failed"
    <3>1. Positions(ledger, "RunCompleted") = {}
      BY <2>1, <2>2, <2>4 DEF SealOf, Positions, Seals
    <3>2. Positions(ledger, "RunFailed") # {}
      BY <2>1, <2>4 DEF SealOf, Positions
    <3>3. QED
      BY <1>3, <2>4, <3>1, <3>2 DEF Verdict
  <2>5. QED
    BY <1>3, <2>3, <2>4 DEF Sealed
<1>4. QED
  BY <1>2, <1>3

GameInv ==
  TypeOK /\ ControlInv /\ LedgerShapeInv /\ AccountInv /\ LegalityInv

LEMMA GameInvStep == GameInv /\ [Next]_vars => GameInv'
BY TypeStep, LedgerShapeStep, AccountStep, LegalityStep DEF GameInv

LEMMA GameInvInit == Init => GameInv
<1> SUFFICES ASSUME Init PROVE GameInv
  OBVIOUS
<1>1. LedgerShapeInv
  BY DEF Init, LedgerShapeInv, Sealed
<1>2. LegalityInv
  BY SizeAssumption DEF Init, InitialState, LegalityInv, Opened, Decided
<1>3. QED
  BY <1>1, <1>2, InitTyped, InitAccount DEF GameInv

(* What the ledger tells of the game while the process lives. *)
LedgerTells ==
  /\ pc # "crashed" =>
       /\ LedgerMoves(ledger) = SubSeq(state.moves, 1, Told)
       /\ Told \in Nat /\ Len(LedgerMoves(ledger)) = Told
  /\ Verdict(ledger) = IF Sealed THEN pc ELSE "open"

LEMMA LedgerTellsTheGame == GameInv => LedgerTells
BY HistoryTold, VerdictTold DEF GameInv, LedgerTells

(* Every step of the runner is a step of the game or leaves it alone: the  *)
(* first WorldTransitioned line of a round is the round being played, and  *)
(* the seal is the verdict.                                                *)
LEMMA GameStep ==
  ASSUME GameInv, [Next]_vars
  PROVE  [Game!GameNext]_<<LedgerMoves(ledger), Verdict(ledger)>>
<1> DEFINE H == LedgerMoves(ledger)
           V == Verdict(ledger)
<1>1. GameInv'
  BY GameInvStep
<1>2. /\ state \in States /\ state.round \in Nat /\ MaxRounds \in Nat
      /\ state.moves \in Seq(Profiles)
  BY SizeAssumption DEF GameInv, TypeOK, States
<1>3. CASE UNCHANGED ledger
  BY <1>3
<1>4. LedgerTells /\ LedgerTells'
  BY <1>1, LedgerTellsTheGame, PTL
(* lines that tell of no new round and seal nothing *)
<1>5. ASSUME pc \notin {"completed", "failed", "crashed"},
             pc' \notin {"completed", "failed", "crashed"},
             state'.moves = state.moves, Told' = Told
      PROVE  UNCHANGED <<H, V>>
  BY <1>4, <1>5 DEF LedgerTells, Sealed
<1>6. CASE StartRun
  BY <1>5, <1>6 DEF StartRun, Told
<1>7. CASE OpenRound
  <2>1. state'.moves = state.moves /\ state'.round = state.round
    BY <1>2, <1>7 DEF OpenRound, Published, States
  <2>2. QED
    BY <1>5, <1>7, <2>1 DEF OpenRound, Told
<1>8. CASE IssueObservation
  BY <1>5, <1>8 DEF IssueObservation, Told
<1>9. ASSUME NEW action \in Actions, Propose(action) PROVE UNCHANGED <<H, V>>
  BY <1>5, <1>9 DEF Propose, Told
<1>10. CASE AcceptProposal \/ FallBackToAbstain
  BY <1>5, <1>10 DEF AcceptProposal, FallBackToAbstain, Accept, Told
<1>11. CASE RejectProposal
  BY <1>5, <1>11 DEF RejectProposal, Told
<1>12. CASE AnnounceCheckpoint
  BY <1>5, <1>12 DEF AnnounceCheckpoint, Told
(* the two seals *)
<1>13. CASE SealFailed
  <2>1. pc = "fail" /\ pc' = "failed" /\ state' = state /\ state.round < MaxRounds
    BY <1>13 DEF SealFailed, GameInv, LegalityInv
  <2>2. Told = state.round /\ Told' = Told
    BY <2>1 DEF Told
  <2>3. H' = H /\ V = "open" /\ V' = "failed" /\ Len(H) < MaxRounds
    BY <1>4, <2>1, <2>2 DEF LedgerTells, Sealed
  <2>4. QED
    BY <2>3 DEF Game!GameNext, Game!Fail
<1>14. CASE SealCompleted
  <2>1. pc = "complete" /\ pc' = "completed" /\ state' = state /\ state.round = MaxRounds
    BY <1>14 DEF SealCompleted, GameInv, LegalityInv
  <2>2. Told = state.round /\ Told' = Told
    BY <2>1 DEF Told
  <2>3. H' = H /\ V = "open" /\ V' = "completed" /\ Len(H) = MaxRounds
    BY <1>4, <2>1, <2>2 DEF LedgerTells, Sealed
  <2>4. QED
    BY <2>3 DEF Game!GameNext, Game!Complete
(* the events of resolve: the first WorldTransitioned plays the round *)
<1>15. CASE EmitDomainEvent
  <2>1. /\ pc = "domain" /\ pc' \in {"domain", "checkpoint", "loop"} /\ state' = state
        /\ turn \in 1 .. Len(DomainEventTypes) /\ state.round > 0
        /\ state.round <= MaxRounds /\ Len(state.moves) = state.round
        /\ \A i \in Agents : LegalMove(SubSeq(state.moves, 1, state.round - 1), i,
                                        state.moves[state.round][i])
    BY <1>15 DEF EmitDomainEvent, GameInv, ControlInv, LegalityInv, AccountInv
  <2>2. V = "open" /\ V' = "open"
    BY <1>4, <2>1 DEF LedgerTells, Sealed
  <2>3. CASE Told' = Told
    BY <1>5, <2>1, <2>3
  <2>4. CASE Told' # Told
    <3>1. Told = state.round - 1 /\ Told' = state.round
      <4>1. Told \in {state.round - 1, state.round} /\ Told' \in {state.round - 1, state.round}
        BY <2>1 DEF Told
      <4>2. CASE Told = state.round
        <5>1. Moved
          BY <1>2, <2>1, <4>2 DEF Told
        <5>2. pc' = "domain" => turn' = turn + 1
          BY <1>15, <2>1 DEF EmitDomainEvent
        <5>3. pc' = "domain" => Moved'
          BY <2>1, <5>1, <5>2 DEF Moved
        <5>4. Told' = state.round
          BY <2>1, <5>3 DEF Told
        <5>5. QED
          BY <2>4, <4>2, <5>4
      <4>3. QED
        BY <2>4, <4>1, <4>2
    <3> DEFINE profile == state.moves[state.round]
    <3>2. profile \in [Agents -> Actions]
      BY <1>2, <2>1, ElementOfSeq DEF Profiles
    <3>3. H = SubSeq(state.moves, 1, state.round - 1) /\ Len(H) = state.round - 1
      BY <1>4, <2>1, <3>1 DEF LedgerTells
    <3>4. \A i \in Agents : LegalMove(H, i, profile[i])
      BY <2>1, <3>3
    <3>5. H' = Append(H, profile)
      <4>1. H' = SubSeq(state.moves, 1, state.round)
        BY <1>4, <2>1, <3>1 DEF LedgerTells
      <4> HIDE DEF H, V
      <4> SUFFICES SubSeq(state.moves, 1, state.round)
                     = Append(SubSeq(state.moves, 1, state.round - 1), state.moves[state.round])
        BY <3>3, <4>1
      <4> DEFINE before == SubSeq(state.moves, 1, state.round - 1)
      <4> 1 \in 1 .. Len(state.moves) /\ state.round \in 1 .. Len(state.moves)
        BY <1>2, <2>1
      <4>2. SubSeq(state.moves, 1, state.round) = before \o <<state.moves[state.round]>>
        BY <1>2, <2>1, SubSeqRecursiveSecond
      <4>3. before \in Seq(Profiles)
        BY <1>2, <2>1, SubSeqProperties, ElementOfSeq
      <4> HIDE DEF before
      <4>4. Append(before, state.moves[state.round]) = before \o <<state.moves[state.round]>>
        BY <3>2, <4>3, AppendIsConcat DEF Profiles
      <4>5. QED
        BY <4>2, <4>4 DEF before
    <3>6. Len(H) < MaxRounds
      BY <1>2, <2>1, <3>3
    <3>7. QED
      BY <2>2, <3>2, <3>4, <3>5, <3>6 DEF Game!GameNext, Game!PlayRound
  <2>5. QED
    BY <2>3, <2>4
<1>16. CASE SaveCheckpoint \/ SaveFinalCheckpoint \/ FailOnInvalidAction \/ Resolve \/ Crash
  BY <1>3, <1>16
     DEF SaveCheckpoint, SaveFinalCheckpoint, FailOnInvalidAction, Resolve, Crash
<1>17. ASSUME NEW kind \in PolicyErrors, PolicyRaises(kind) PROVE UNCHANGED <<H, V>>
  BY <1>3, <1>17 DEF PolicyRaises
<1>18. CASE UNCHANGED vars
  BY <1>3, <1>18 DEF vars
<1>19. QED
  BY <1>6, <1>7, <1>8, <1>9, <1>10, <1>11, <1>12, <1>13, <1>14, <1>15, <1>16, <1>17, <1>18
     DEF Next, EngineStep, PolicyStep

(* An episode is a play of SimultaneousGame, for every roster, roster      *)
(* size, legality rule, number of rounds and way to fail: whatever         *)
(* run_episode has appended, when a process dies included, the ledger      *)
(* tells whole rounds of moves that were legal at the state all agents     *)
(* observed, then at most one verdict (runner.py:148-333).                 *)
THEOREM LedgerPlaysTheGame == Spec => ImplementsGame
<1>1. Init => GameInv
  BY GameInvInit
<1>2. GameInv /\ [Next]_vars => GameInv'
  BY GameInvStep
<1>3. Init => Game!GameInit
  <2> SUFFICES ASSUME Init PROVE Game!GameInit
    OBVIOUS
  <2>1. ledger = << >> /\ pc = "start" /\ GameInv
    BY GameInvInit DEF Init
  <2>2. Verdict(ledger) = "open"
    BY <2>1, VerdictTold DEF GameInv, Sealed
  <2>3. TimesOf(ledger, "WorldTransitioned") = {}
    BY <2>1 DEF TimesOf, Positions
  <2>4. Cardinality(TimesOf(ledger, "WorldTransitioned")) = 0
    BY <2>3, FS_EmptySet
  <2>5. LedgerMoves(ledger) = << >>
    BY <2>4 DEF LedgerMoves
  <2>6. QED
    BY <2>2, <2>5 DEF Game!GameInit
<1>4. GameInv /\ [Next]_vars => [Game!GameNext]_<<LedgerMoves(ledger), Verdict(ledger)>>
  BY GameStep
<1>5. QED
  BY <1>1, <1>2, <1>3, <1>4, PTL DEF Spec, ImplementsGame, Game!GameSpec
-----------------------------------------------------------------------------
(* Progress.  A run has only so many steps ahead of it, whatever the       *)
(* policies propose and wherever it fails: what is left of EveryRunEnds    *)
(* without the fairness that the next step is taken.                       *)

(* steps of a whole round: the opening, an observation and at most three   *)
(* steps per agent (a proposal, its rejection, the fallback), resolve, the *)
(* domain events, the checkpoint and its announcement                      *)
RoundSteps == 4 * NumAgents + Len(DomainEventTypes) + 4

(* steps of the rounds that resolve has not ended *)
Later == (MaxRounds - state.round) * RoundSteps

(* the most steps that can still come; inside a round, the ones it has     *)
(* already taken are subtracted                                            *)
Ahead ==
  CASE pc = "start"      -> Later + 3
    [] pc = "loop"       -> Later + 2
    [] pc = "observe"    -> Later + 2 - turn
    [] pc = "propose"    -> Later + 4 - NumAgents - 3 * turn
    [] pc = "validate"   -> Later + 3 - NumAgents - 3 * turn
    [] pc = "rejected"   -> Later + 2 - NumAgents - 3 * turn
    [] pc = "resolve"    -> Later + 1 - 4 * NumAgents
    [] pc = "domain"     -> Later + 5 + Len(DomainEventTypes) - turn
    [] pc = "checkpoint" -> Later + 4
    [] pc = "announce"   -> Later + 3
    [] pc \in {"fail", "complete"} -> 1
    [] OTHER             -> 0

MostSteps == MaxRounds * RoundSteps + 3

(* Where the runner is, whatever it holds: the loop variables are in range *)
(* and a round is played only while one is left.                           *)
LedgerIsASequence == \E S : ledger \in Seq(S)

Within(p, t, r) ==
  /\ p \in PcValues /\ t \in Nat \ {0} /\ r \in Nat /\ r <= MaxRounds
  /\ p \in {"observe", "propose", "validate", "rejected"} => t \in Agents
  /\ p = "domain" => t \in 1 .. Len(DomainEventTypes)
  /\ p \in {"observe", "propose", "validate", "rejected", "resolve"} => r < MaxRounds

PlaceInv ==
  LedgerIsASequence /\ "round" \in DOMAIN state /\ Within(pc, turn, state.round)

ProgressInv == PlaceInv /\ Len(ledger) + Ahead <= MostSteps

(* A step of the runner, whatever a policy proposes or raises *)
AnyStep ==
  \/ EngineStep \/ Crash
  \/ \E action : Propose(action)
  \/ \E kind : PolicyRaises(kind)

(* The rounds left, counted in steps, are a natural number, at least a     *)
(* round's worth while a round is left, and resolve takes one round off.   *)
LEMMA LaterCounts ==
  ASSUME PlaceInv
  PROVE  /\ Later \in Nat /\ RoundSteps \in Nat
         /\ state.round < MaxRounds => Later >= RoundSteps
<1>1. /\ MaxRounds \in Nat /\ state.round \in Nat /\ state.round <= MaxRounds
      /\ NumAgents \in Nat /\ Len(DomainEventTypes) \in Nat
  BY SizeAssumption, DomainEventAssumption DEF PlaceInv, Within
<1>2. RoundSteps \in Nat
  BY <1>1 DEF RoundSteps
<1>3. PICK left \in Nat : left = MaxRounds - state.round
  BY <1>1
<1>4. Later = left * RoundSteps
  BY <1>3 DEF Later
<1>5. left * RoundSteps \in Nat
  BY <1>2, <1>3
<1>6. ASSUME state.round < MaxRounds PROVE left * RoundSteps >= RoundSteps
  <2>1. PICK l \in Nat : left = l + 1
    <3>1. left - 1 \in Nat /\ left = (left - 1) + 1
      BY <1>1, <1>3, <1>6
    <3>2. QED
      BY <3>1
  <2>2. l * RoundSteps \in Nat /\ (l + 1) * RoundSteps = l * RoundSteps + RoundSteps
    BY <1>2
  <2>3. QED
    BY <1>2, <2>1, <2>2
<1>7. QED
  BY <1>2, <1>4, <1>5, <1>6

LEMMA LaterAfterResolve ==
  ASSUME PlaceInv, state.round < MaxRounds, state'.round = state.round + 1
  PROVE  Later' = Later - RoundSteps
<1>1. /\ MaxRounds \in Nat /\ state.round \in Nat
      /\ NumAgents \in Nat /\ Len(DomainEventTypes) \in Nat
  BY SizeAssumption, DomainEventAssumption DEF PlaceInv, Within
<1>2. RoundSteps \in Nat
  BY <1>1 DEF RoundSteps
<1>3. PICK l \in Nat : l = MaxRounds - state.round - 1
  <2>1. MaxRounds - state.round - 1 \in Nat
    BY <1>1
  <2>2. QED
    BY <2>1
<1>4. MaxRounds - state.round = l + 1 /\ MaxRounds - state'.round = l
  BY <1>1, <1>3
<1>5. Later = (l + 1) * RoundSteps /\ Later' = l * RoundSteps
  BY <1>4 DEF Later, RoundSteps
<1>6. l * RoundSteps \in Nat /\ (l + 1) * RoundSteps = l * RoundSteps + RoundSteps
  BY <1>2
<1>7. QED
  BY <1>2, <1>5, <1>6

(* What is ahead is a natural number, and more than nothing while running. *)
AheadBound == Ahead \in Nat /\ (Running => Ahead > 0)

LEMMA AheadCounts == PlaceInv => AheadBound
<1> SUFFICES ASSUME PlaceInv PROVE AheadBound
  OBVIOUS
<1> DEFINE D == Len(DomainEventTypes)
           L == Later
           n == NumAgents
<1>1. /\ n \in Nat \ {0} /\ D \in Nat /\ Agents = 1 .. n
      /\ turn \in Nat \ {0} /\ state.round \in Nat /\ MaxRounds \in Nat
      /\ RoundSteps = 4 * n + D + 4 /\ pc \in PcValues
  BY SizeAssumption, DomainEventAssumption DEF PlaceInv, Within, Agents, RoundSteps
<1>2. L \in Nat /\ (state.round < MaxRounds => L >= 4 * n + D + 4)
  BY <1>1, LaterCounts
<1>3. /\ pc \in {"observe", "propose", "validate", "rejected"} => turn \in 1 .. n
      /\ pc = "domain" => turn \in 1 .. D
      /\ pc \in {"observe", "propose", "validate", "rejected", "resolve"} =>
           state.round < MaxRounds
  BY <1>1 DEF PlaceInv, Within
<1> HIDE DEF D, L, n
<1>4. CASE pc \in {"start", "loop", "checkpoint", "announce"}
  <2>1. Ahead \in {L + 3, L + 2, L + 4}
    BY <1>4 DEF Ahead, L
  <2>2. QED
    BY <1>2, <2>1 DEF AheadBound
<1>5. CASE pc \in {"fail", "complete"}
  BY <1>5 DEF Ahead, AheadBound
<1>6. CASE pc = "observe"
  <2>1. Ahead = L + 2 - turn
    BY <1>6 DEF Ahead, L
  <2>2. QED
    BY <1>1, <1>2, <1>3, <1>6, <2>1 DEF AheadBound
<1>7. CASE pc \in {"propose", "validate", "rejected"}
  <2>1. Ahead \in {L + 4 - n - 3 * turn, L + 3 - n - 3 * turn, L + 2 - n - 3 * turn}
    BY <1>7 DEF Ahead, L, n
  <2>2. QED
    BY <1>1, <1>2, <1>3, <1>7, <2>1 DEF AheadBound
<1>8. CASE pc = "resolve"
  <2>1. Ahead = L + 1 - 4 * n
    BY <1>8 DEF Ahead, L, n
  <2>2. QED
    BY <1>1, <1>2, <1>3, <1>8, <2>1 DEF AheadBound
<1>9. CASE pc = "domain"
  <2>1. Ahead = L + 5 + D - turn
    BY <1>9 DEF Ahead, L, D
  <2>2. QED
    BY <1>1, <1>2, <1>3, <1>9, <2>1 DEF AheadBound
<1>10. CASE ~ Running
  BY <1>10 DEF Ahead, Running, AheadBound
<1>11. QED
  BY <1>1, <1>4, <1>5, <1>6, <1>7, <1>8, <1>9, <1>10 DEF PcValues, Running

LEMMA SequenceGrows ==
  ASSUME LedgerIsASequence, NEW e, Emit(e)
  PROVE  LedgerIsASequence' /\ Len(ledger') = Len(ledger) + 1
<1>1. PICK S : ledger \in Seq(S)
  BY DEF LedgerIsASequence
<1>2. ledger \in Seq(S \cup {e}) /\ e \in S \cup {e}
  <2>1. ledger \in [1 .. Len(ledger) -> S] /\ Len(ledger) \in Nat
    BY <1>1, LenProperties
  <2>2. \A k \in 1 .. Len(ledger) : ledger[k] \in S \cup {e}
    BY <1>1, ElementOfSeq
  <2>3. QED
    BY <1>1, <2>1, <2>2, IsASeq
<1>3. ledger' \in Seq(S \cup {e}) /\ Len(ledger') = Len(ledger) + 1
  BY <1>2, AppendProperties DEF Emit
<1>4. QED
  BY <1>3 DEF LedgerIsASequence

(* Every step leaves fewer steps ahead, and writes one line at most. *)
LEMMA StepIsProgress ==
  ASSUME PlaceInv, AnyStep
  PROVE  PlaceInv' /\ Ahead' < Ahead /\ Len(ledger') <= Len(ledger) + 1
<1> DEFINE D == Len(DomainEventTypes)
           L == Later
           n == NumAgents
<1>1. /\ n \in Nat \ {0} /\ D \in Nat /\ Agents = 1 .. n
      /\ turn \in Nat \ {0} /\ state.round \in Nat /\ MaxRounds \in Nat
      /\ Len(ledger) \in Nat /\ RoundSteps = 4 * n + D + 4
      /\ pc \in PcValues /\ "round" \in DOMAIN state /\ state.round <= MaxRounds
  <2>1. Len(ledger) \in Nat
    BY LenProperties DEF PlaceInv, LedgerIsASequence
  <2>2. QED
    BY <2>1, SizeAssumption, DomainEventAssumption DEF PlaceInv, Within, Agents, RoundSteps
<1>2. L \in Nat /\ (state.round < MaxRounds => L >= 4 * n + D + 4)
  BY <1>1, LaterCounts
<1>3. UNCHANGED state => Later' = L
  BY DEF Later, RoundSteps
<1>4. ASSUME NEW e, Emit(e) PROVE LedgerIsASequence' /\ Len(ledger') = Len(ledger) + 1
  BY <1>4, SequenceGrows DEF PlaceInv
<1>5. /\ pc \in {"observe", "propose", "validate", "rejected"} => turn \in 1 .. n
      /\ pc = "domain" => turn \in 1 .. D
      /\ pc \in {"observe", "propose", "validate", "rejected", "resolve"} =>
           state.round < MaxRounds
  BY <1>1 DEF PlaceInv, Within
<1> DEFINE Quiet == LedgerIsASequence' /\ ledger' = ledger
           Line  == LedgerIsASequence' /\ Len(ledger') = Len(ledger) + 1
           Goal  == PlaceInv' /\ Ahead' < Ahead /\ Len(ledger') <= Len(ledger) + 1
<1>6. UNCHANGED ledger => Quiet
  BY DEF PlaceInv, LedgerIsASequence
<1>7. ASSUME Line \/ Quiet, "round" \in DOMAIN state', Within(pc', turn', state'.round),
              Ahead' < Ahead
       PROVE  Goal
  BY <1>1, <1>7 DEF PlaceInv
<1>8. UNCHANGED state => "round" \in DOMAIN state' /\ state'.round = state.round
  BY <1>1
<1>9. Agents = 1 .. n /\ Len(DomainEventTypes) = D
  BY <1>1
<1> HIDE DEF D, L, n
<1>10. CASE StartRun
  <2>1. UNCHANGED <<state, turn>> /\ pc = "start" /\ pc' = "loop" /\ Line
    BY <1>4, <1>10 DEF StartRun
  <2>2. Ahead = L + 3 /\ Ahead' = L + 2
    BY <1>3, <2>1 DEF Ahead, L
  <2>3. Within(pc', turn', state'.round)
    BY <1>1, <1>5, <1>8, <1>9, <2>1 DEF Within, PcValues
  <2>4. Ahead' < Ahead
    BY <1>1, <1>2, <1>5, <2>1, <2>2
  <2>5. QED
    BY <1>7, <1>8, <2>1, <2>3, <2>4
<1>11. CASE OpenRound
  <2>1. /\ "round" \in DOMAIN state' /\ state'.round = state.round
        /\ state.round < MaxRounds /\ pc = "loop" /\ pc' = "observe" /\ turn' = 1
    BY <1>1, <1>11 DEF OpenRound, Terminal, Published
  <2>2. Line \/ Quiet
    BY <1>4, <1>6, <1>11 DEF OpenRound
  <2>3. Later' = L
    BY <2>1 DEF Later, RoundSteps, L
  <2>4. Ahead = L + 2 /\ Ahead' = L + 2 - 1
    BY <2>1, <2>3 DEF Ahead, L
  <2>5. Within(pc', turn', state'.round)
    BY <1>1, <1>5, <1>8, <1>9, <2>1 DEF Within, PcValues
  <2>6. Ahead' < Ahead
    BY <1>1, <1>2, <1>5, <2>1, <2>2, <2>4
  <2>7. QED
    BY <1>7, <1>8, <2>1, <2>2, <2>5, <2>6
<1>12. CASE IssueObservation
  <2>1. /\ UNCHANGED state /\ pc = "observe" /\ Line
        /\ turn \in 1 .. n
        /\ \/ turn < n /\ turn' = turn + 1 /\ pc' = pc
           \/ turn = n /\ turn' = 1 /\ pc' = "propose"
    BY <1>1, <1>4, <1>5, <1>12 DEF IssueObservation, n
  <2>2. Ahead = L + 2 - turn
    BY <2>1 DEF Ahead, L
  <2>3. pc' = "observe" => Ahead' = L + 2 - turn'
    BY <1>3, <2>1 DEF Ahead
  <2>4. pc' = "propose" => Ahead' = L + 4 - n - 3 * turn'
    BY <1>3, <2>1 DEF Ahead, n
  <2>5. Within(pc', turn', state'.round)
    BY <1>1, <1>5, <1>8, <1>9, <2>1 DEF Within, PcValues
  <2>6. Ahead' < Ahead
    BY <1>1, <1>2, <1>5, <2>1, <2>2, <2>3, <2>4
  <2>7. QED
    BY <1>7, <1>8, <2>1, <2>5, <2>6
<1>13. ASSUME NEW action, Propose(action)
      PROVE  Goal
  <2>1. /\ UNCHANGED <<state, turn>> /\ pc = "propose" /\ pc' = "validate"
        /\ Line /\ turn \in 1 .. n
    BY <1>1, <1>4, <1>5, <1>13 DEF Propose
  <2>2. Ahead = L + 4 - n - 3 * turn /\ Ahead' = L + 3 - n - 3 * turn
    BY <1>3, <2>1 DEF Ahead, L, n
  <2>3. Within(pc', turn', state'.round)
    BY <1>1, <1>5, <1>8, <1>9, <2>1 DEF Within, PcValues
  <2>4. Ahead' < Ahead
    BY <1>1, <1>2, <1>5, <2>1, <2>2
  <2>5. QED
    BY <1>7, <1>8, <2>1, <2>3, <2>4
<1>14. ASSUME NEW kind, PolicyRaises(kind)
       PROVE  Goal
  <2>1. /\ UNCHANGED <<state, turn>> /\ Quiet /\ pc = "propose" /\ pc' = "fail"
        /\ turn \in 1 .. n
    BY <1>1, <1>5, <1>6, <1>14 DEF PolicyRaises
  <2>2. Ahead = L + 4 - n - 3 * turn /\ Ahead' = 1
    BY <2>1 DEF Ahead, L, n
  <2>3. Within(pc', turn', state'.round)
    BY <1>1, <1>5, <1>8, <1>9, <2>1 DEF Within, PcValues
  <2>4. Ahead' < Ahead
    BY <1>1, <1>2, <1>5, <2>1, <2>2
  <2>5. QED
    BY <1>7, <1>8, <2>1, <2>3, <2>4
<1>15. ASSUME NEW action, Accept(action), UNCHANGED state,
              pc \in {"validate", "rejected"}
       PROVE  Goal
  <2>1. /\ Line /\ turn \in 1 .. n
        /\ \/ turn < n /\ turn' = turn + 1 /\ pc' = "propose"
           \/ turn = n /\ turn' = 1 /\ pc' = "resolve"
    BY <1>1, <1>4, <1>5, <1>15 DEF Accept, n
  <2>2. Ahead \in {L + 3 - n - 3 * turn, L + 2 - n - 3 * turn}
    BY <1>15 DEF Ahead, L, n
  <2>3. pc' = "propose" => Ahead' = L + 4 - n - 3 * turn'
    BY <1>3, <1>15 DEF Ahead, n
  <2>4. pc' = "resolve" => Ahead' = L + 1 - 4 * n
    BY <1>3, <1>15 DEF Ahead, n
  <2>5. Within(pc', turn', state'.round)
    BY <1>1, <1>5, <1>8, <1>9, <1>15, <2>1 DEF Within, PcValues
  <2>6. Ahead' < Ahead
    <3>1. CASE turn < n
      BY <1>1, <1>2, <2>1, <2>2, <2>3, <3>1
    <3>2. CASE turn = n
      BY <1>1, <1>2, <2>1, <2>2, <2>4, <3>2
    <3>3. QED
      BY <2>1, <3>1, <3>2
  <2>7. QED
    BY <1>7, <1>8, <1>15, <2>1, <2>5, <2>6
<1>16. CASE AcceptProposal
  BY <1>15, <1>16 DEF AcceptProposal
<1>17. CASE RejectProposal
  <2>1. /\ UNCHANGED <<state, turn>> /\ pc = "validate" /\ pc' = "rejected"
        /\ Line /\ turn \in 1 .. n
    BY <1>1, <1>4, <1>5, <1>17 DEF RejectProposal
  <2>2. Ahead = L + 3 - n - 3 * turn /\ Ahead' = L + 2 - n - 3 * turn
    BY <1>3, <2>1 DEF Ahead, L, n
  <2>3. Within(pc', turn', state'.round)
    BY <1>1, <1>5, <1>8, <1>9, <2>1 DEF Within, PcValues
  <2>4. Ahead' < Ahead
    BY <1>1, <1>2, <1>5, <2>1, <2>2
  <2>5. QED
    BY <1>7, <1>8, <2>1, <2>3, <2>4
<1>18. CASE FallBackToAbstain
  BY <1>15, <1>18 DEF FallBackToAbstain
<1>19. CASE FailOnInvalidAction
  <2>1. /\ UNCHANGED <<state, turn>> /\ Quiet /\ pc = "rejected" /\ pc' = "fail"
        /\ turn \in 1 .. n
    BY <1>1, <1>5, <1>6, <1>19 DEF FailOnInvalidAction
  <2>2. Ahead = L + 2 - n - 3 * turn /\ Ahead' = 1
    BY <2>1 DEF Ahead, L, n
  <2>3. Within(pc', turn', state'.round)
    BY <1>1, <1>5, <1>8, <1>9, <2>1 DEF Within, PcValues
  <2>4. Ahead' < Ahead
    BY <1>1, <1>2, <1>5, <2>1, <2>2
  <2>5. QED
    BY <1>7, <1>8, <2>1, <2>3, <2>4
<1>20. CASE Resolve
  <2>1. /\ "round" \in DOMAIN state' /\ state'.round = state.round + 1 /\ Quiet
        /\ pc = "resolve" /\ pc' = "domain" /\ turn' = 1
    BY <1>1, <1>6, <1>20 DEF Resolve, Resolved
  <2>2. Later' = L - (4 * n + D + 4)
    BY <1>1, <1>5, <2>1, LaterAfterResolve DEF L
  <2>3. Ahead = L + 1 - 4 * n /\ Ahead' = L - (4 * n + D + 4) + 5 + D - 1
    BY <2>1, <2>2 DEF Ahead, L, n, D
  <2>4. Within(pc', turn', state'.round)
    <3>1. D # 0
      BY DomainEventAssumption DEF D
    <3>2. 1 \in 1 .. D /\ state.round + 1 \in Nat /\ state.round + 1 <= MaxRounds
      BY <1>1, <1>5, <2>1, <3>1
    <3>3. QED
      BY <1>9, <2>1, <3>2 DEF Within, PcValues
  <2>5. Ahead' < Ahead
    BY <1>1, <1>2, <1>5, <2>1, <2>3
  <2>6. QED
    BY <1>7, <1>8, <2>1, <2>4, <2>5
<1>21. CASE EmitDomainEvent
  <2>1. /\ UNCHANGED state /\ pc = "domain" /\ Line
        /\ turn \in 1 .. D
        /\ \/ turn < D /\ turn' = turn + 1 /\ pc' = pc
           \/ turn = D /\ turn' = 1 /\ pc' \in {"checkpoint", "loop"}
    BY <1>1, <1>4, <1>5, <1>21 DEF EmitDomainEvent, D
  <2>2. Ahead = L + 5 + D - turn
    BY <2>1 DEF Ahead, L, D
  <2>3. pc' = "domain" => Ahead' = L + 5 + D - turn'
    BY <1>3, <2>1 DEF Ahead, D
  <2>4. pc' = "checkpoint" => Ahead' = L + 4
    BY <1>3, <2>1 DEF Ahead
  <2>5. pc' = "loop" => Ahead' = L + 2
    BY <1>3, <2>1 DEF Ahead
  <2>6. Within(pc', turn', state'.round)
    BY <1>1, <1>5, <1>8, <1>9, <2>1 DEF Within, PcValues
  <2>7. Ahead' < Ahead
    BY <1>1, <1>2, <1>5, <2>1, <2>2, <2>3, <2>4, <2>5
  <2>8. QED
    BY <1>7, <1>8, <2>1, <2>6, <2>7
<1>22. CASE SaveCheckpoint
  <2>1. UNCHANGED <<state, turn>> /\ Quiet /\ pc = "checkpoint" /\ pc' = "announce"
    BY <1>6, <1>22 DEF SaveCheckpoint
  <2>2. Ahead = L + 4 /\ Ahead' = L + 3
    BY <1>3, <2>1 DEF Ahead, L
  <2>3. Within(pc', turn', state'.round)
    BY <1>1, <1>5, <1>8, <1>9, <2>1 DEF Within, PcValues
  <2>4. Ahead' < Ahead
    BY <1>1, <1>2, <1>5, <2>1, <2>2
  <2>5. QED
    BY <1>7, <1>8, <2>1, <2>3, <2>4
<1>23. CASE AnnounceCheckpoint
  <2>1. /\ UNCHANGED <<state, turn>> /\ pc = "announce" /\ pc' = "loop"
        /\ Line
    BY <1>4, <1>23 DEF AnnounceCheckpoint
  <2>2. Ahead = L + 3 /\ Ahead' = L + 2
    BY <1>3, <2>1 DEF Ahead, L
  <2>3. Within(pc', turn', state'.round)
    BY <1>1, <1>5, <1>8, <1>9, <2>1 DEF Within, PcValues
  <2>4. Ahead' < Ahead
    BY <1>1, <1>2, <1>5, <2>1, <2>2
  <2>5. QED
    BY <1>7, <1>8, <2>1, <2>3, <2>4
<1>24. CASE SealFailed \/ SealCompleted
  <2>1. /\ UNCHANGED <<state, turn>> /\ Line
        /\ pc \in {"fail", "complete"} /\ pc' \in {"failed", "completed"}
    BY <1>4, <1>24 DEF SealFailed, SealCompleted
  <2>2. Ahead = 1 /\ Ahead' = 0
    BY <2>1 DEF Ahead
  <2>3. Within(pc', turn', state'.round)
    BY <1>1, <1>5, <1>8, <1>9, <2>1 DEF Within, PcValues
  <2>4. Ahead' < Ahead
    BY <1>1, <1>2, <1>5, <2>1, <2>2
  <2>5. QED
    BY <1>7, <1>8, <2>1, <2>3, <2>4
<1>25. CASE SaveFinalCheckpoint
  <2>1. UNCHANGED <<state, turn>> /\ Quiet /\ pc = "loop" /\ pc' = "complete"
    BY <1>6, <1>25 DEF SaveFinalCheckpoint
  <2>2. Ahead = L + 2 /\ Ahead' = 1
    BY <2>1 DEF Ahead, L
  <2>3. Within(pc', turn', state'.round)
    BY <1>1, <1>5, <1>8, <1>9, <2>1 DEF Within, PcValues
  <2>4. Ahead' < Ahead
    BY <1>1, <1>2, <1>5, <2>1, <2>2
  <2>5. QED
    BY <1>7, <1>8, <2>1, <2>3, <2>4
<1>26. CASE Crash
  <2>1. UNCHANGED <<state, turn>> /\ Quiet /\ pc' = "crashed" /\ Running
    BY <1>26, <1>6 DEF Crash
  <2>2. Ahead' = 0
    BY <2>1 DEF Ahead
  <2>3. Ahead > 0
    BY <2>1, AheadCounts DEF AheadBound
  <2>4. Within(pc', turn', state'.round)
    BY <1>1, <2>1 DEF Within, PcValues
  <2>5. QED
    BY <1>7, <1>8, <2>1, <2>2, <2>3, <2>4
<1>27. QED
  BY <1>10, <1>11, <1>12, <1>13, <1>14, <1>16, <1>17, <1>18, <1>19, <1>20, <1>21, <1>22,
     <1>23, <1>24, <1>25, <1>26 DEF AnyStep, EngineStep

LEMMA ProgressInit == Init => ProgressInv
<1> SUFFICES ASSUME Init PROVE ProgressInv
  OBVIOUS
<1>1. /\ pc = "start" /\ turn = 1 /\ state = InitialState /\ ledger = << >>
      /\ MaxRounds \in Nat
  BY SizeAssumption DEF Init
<1>2. LedgerIsASequence /\ Len(ledger) = 0
  BY <1>1 DEF LedgerIsASequence
<1>3. PlaceInv
  BY <1>1, <1>2 DEF PlaceInv, Within, PcValues, InitialState
<1>4. Later \in Nat
  BY <1>3, LaterCounts
<1>5. Later = MaxRounds * RoundSteps
  BY <1>1 DEF Later, InitialState
<1>6. Ahead = Later + 3
  BY <1>1 DEF Ahead
<1>7. QED
  BY <1>2, <1>3, <1>4, <1>5, <1>6 DEF ProgressInv, MostSteps

LEMMA MostStepsCounted == MostSteps \in Nat
<1>1. NumAgents \in Nat /\ MaxRounds \in Nat /\ Len(DomainEventTypes) \in Nat
  BY SizeAssumption, DomainEventAssumption
<1>2. RoundSteps \in Nat
  BY <1>1 DEF RoundSteps
<1>3. MaxRounds * RoundSteps \in Nat
  BY <1>1, <1>2
<1>4. QED
  BY <1>3 DEF MostSteps

LEMMA ProgressStep ==
  ProgressInv /\ [Next]_vars => ProgressInv' /\ [Ahead' < Ahead]_vars
<1> SUFFICES ASSUME ProgressInv, [Next]_vars PROVE ProgressInv' /\ [Ahead' < Ahead]_vars
  OBVIOUS
<1>1. PlaceInv /\ Ahead \in Nat /\ Len(ledger) + Ahead <= MostSteps
  BY AheadCounts DEF ProgressInv, AheadBound
<1>2. MostSteps \in Nat /\ MostSteps' = MostSteps
  BY MostStepsCounted DEF MostSteps, RoundSteps
<1>3. CASE Next
  <2>1. AnyStep
    BY <1>3 DEF Next, PolicyStep, AnyStep
  <2>2. PlaceInv' /\ Ahead' < Ahead /\ Len(ledger') <= Len(ledger) + 1
    BY <1>1, <2>1, StepIsProgress
  <2>3. Ahead' \in Nat
    <3>1. PlaceInv' => AheadBound'
      BY AheadCounts, PTL
    <3>2. QED
      BY <2>2, <3>1 DEF AheadBound
  <2>4. Len(ledger) \in Nat /\ Len(ledger') \in Nat
    BY <1>1, <2>2, LenProperties DEF PlaceInv, LedgerIsASequence
  <2>5. Len(ledger') + Ahead' <= MostSteps'
    BY <1>1, <1>2, <2>2, <2>3, <2>4
  <2>6. QED
    BY <2>2, <2>5 DEF ProgressInv
<1>4. CASE UNCHANGED vars
  <2>1. PlaceInv' /\ Ahead' = Ahead /\ ledger' = ledger
    BY <1>1, <1>4 DEF PlaceInv, Within, LedgerIsASequence, vars, Ahead, Later, RoundSteps
  <2>2. QED
    BY <1>1, <1>2, <1>4, <2>1 DEF ProgressInv
<1>5. QED
  BY <1>3, <1>4

(* No run goes on for ever: every step of run_episode, whatever its        *)
(* policies propose and wherever it fails, leaves fewer steps ahead than   *)
(* before it, a natural number (runner.py:148-321).                        *)
THEOREM EveryStepIsProgress == Spec => [](Ahead \in Nat) /\ [][Ahead' < Ahead]_vars
<1>1. ProgressInv => Ahead \in Nat
  BY AheadCounts DEF ProgressInv, AheadBound
<1>2. QED
  BY <1>1, ProgressInit, ProgressStep, PTL DEF Spec

(* And no policy makes events.jsonl grow without bound: its lines are at   *)
(* most the ones that every round played and every proposal rejected would *)
(* write (runner.py:148-321).                                              *)
THEOREM LedgerIsBounded == Spec => [](Len(ledger) <= MostSteps)
<1>1. ProgressInv => Len(ledger) <= MostSteps
  <2> SUFFICES ASSUME ProgressInv PROVE Len(ledger) <= MostSteps
    OBVIOUS
  <2>1. Ahead \in Nat /\ Len(ledger) + Ahead <= MostSteps
    BY AheadCounts DEF ProgressInv, AheadBound
  <2>2. Len(ledger) \in Nat
    BY LenProperties DEF ProgressInv, PlaceInv, LedgerIsASequence
  <2>3. QED
    BY <2>1, <2>2, MostStepsCounted
<1>2. QED
  BY <1>1, ProgressInit, ProgressStep, PTL DEF Spec
=============================================================================
