---------------------------- MODULE EpisodeRunner ----------------------------
(***************************************************************************)
(* One call of run_episode (engine/runner.py) writing one run directory:   *)
(* the append-only event ledger (events.jsonl, FileEventStore) and the     *)
(* checkpoint directory (FileCheckpointStore).                             *)
(*                                                                         *)
(* The runner is one thread, so a step of this module is the code between  *)
(* two writes that a crash could separate: at most one ledger line or one  *)
(* checkpoint file.  What interleaves with it is failure: a policy that    *)
(* raises, a proposal the mechanism rejects, a process that dies.          *)
(*                                                                         *)
(* Data.  The mechanism is a deterministic function of its state and the   *)
(* accepted actions (its randomness is keyed by seed and round), so its    *)
(* state is the free one: the joint actions resolved so far, and the       *)
(* rounds whose opening hook has published.  content_hash is injective on  *)
(* states: a state stands for its own hash, and a ledger prefix for the    *)
(* hash chain over it.  The i-th agent in sorted order is the number i.    *)
(***************************************************************************)
EXTENDS Naturals, Integers, Sequences

CONSTANTS
  NumAgents,        \* the roster, sorted, is 1 .. NumAgents
  Actions,          \* actions a policy may propose
  Abstain,          \* the AbstainAction the runner falls back to
  Legal(_, _, _),   \* Legal(state, agent, action): validate_action is None
  MaxRounds,        \* rounds of the mechanism
  OpeningRounds,    \* rounds at which prepare_round publishes an event
  DomainEventTypes, \* types of the events resolve returns, in order
  Cadences,         \* values of checkpoint_every
  InvalidPolicies,  \* values of invalid_action_policy
  RunIds,           \* run identities
  None              \* "no value" (a Python None)

Agents == 1 .. NumAgents
Engine == 0         \* ENGINE_ACTOR

ASSUME SizeAssumption == NumAgents \in Nat \ {0} /\ MaxRounds \in Nat \ {0}
ASSUME ActionAssumption == Abstain \in Actions /\ None \notin Actions \cup Nat
ASSUME RunIdAssumption == None \notin RunIds
ASSUME OpeningAssumption == OpeningRounds \subseteq 0 .. MaxRounds - 1
ASSUME CadenceAssumption == Cadences \subseteq Nat
ASSUME InvalidPolicyAssumption == InvalidPolicies \subseteq {"fail", "abstain"}
ASSUME DomainEventAssumption ==
  /\ DomainEventTypes \in Seq({"WorldTransitioned", "RewardAssigned"})
  /\ \E k \in DOMAIN DomainEventTypes : DomainEventTypes[k] = "WorldTransitioned"

VARIABLES
  config,    \* RunConfig: run_id, checkpoint_every, invalid_action_policy, stop_round
  pc,        \* the step of run_episode to execute next
  turn,      \* index of the loop over agents or over domain events
  proposal,  \* action proposed by the agent whose turn it is
  accepted,  \* the round's dict agent -> accepted action
  failure,   \* reason that ends the loop, or None
  state,     \* mechanism state held by the runner
  ledger,    \* lines of events.jsonl
  ckpts      \* checkpoint files: partial function seq -> record

vars == <<config, pc, turn, proposal, accepted, failure, state, ledger, ckpts>>

-----------------------------------------------------------------------------
(* Mechanism state *)

Profiles == [Agents -> Actions]
States == [round : Nat, published : SUBSET Nat, moves : Seq(Profiles)]

InitialState == [round |-> 0, published |-> {}, moves |-> << >>]

(* resolve: the joint action takes effect and the round counter advances *)
Resolved(s, profile) ==
  [s EXCEPT !.round = @ + 1, !.moves = Append(@, profile)]

Published(s) ==
  IF s.round \in OpeningRounds
    THEN [s EXCEPT !.published = @ \cup {s.round}] ELSE s

(* _RoundBoundary stops a replayed segment at stop_round; other runs have  *)
(* stop_round = MaxRounds                                                  *)
TerminalLate(s) == s.round >= config.stop_round + 1
Terminal(s) == s.round >= config.stop_round \/ s.round >= MaxRounds

-----------------------------------------------------------------------------
(* Ledger lines and checkpoint records *)

EventTypes == {"RunStarted", "AuditPublished", "ObservationIssued",
               "ActionProposed", "ActionAccepted", "ActionRejected",
               "WorldTransitioned", "RewardAssigned", "CheckpointCreated",
               "RunFailed", "RunCompleted"}
Seals == {"RunFailed", "RunCompleted"}
PolicyErrors == {"provider_error", "policy_error"}
(* "unrecorded" is the KeyError of a replayed policy (module Lineage) *)
Reasons == [kind : PolicyErrors \cup {"invalid_action", "fallback_illegal", "unrecorded"},
            agent : Agents]

(* what a line records besides its hash-chain fields; a payload field that *)
(* an event type does not have is None                                     *)
Event(type, t, agent, action) ==
  [event_type |-> type, run_id |-> config.run_id, logical_time |-> t,
   agent |-> agent, action |-> action, at_seq |-> None,
   state_hash |-> None, reason |-> None]

Events == [event_type : EventTypes, run_id : RunIds, logical_time : Nat,
           agent : Agents \cup {Engine}, action : Actions \cup {None},
           at_seq : Nat \cup {None}, state_hash : States \cup {None},
           reason : Reasons \cup {None}]

(* seq of the last line; the emitter's seq counter is Len(ledger) *)
LastSeq == Len(ledger) - 1

Emit(e) == ledger' = Append(ledger, e)

Torn == [seq |-> None, logical_time |-> None, prefix |-> None, state |-> None]
Snapshot(seq, s) ==
  [seq |-> seq, logical_time |-> s.round, prefix |-> SubSeq(ledger, 1, seq + 1),
   state |-> s]

Snapshots == [seq : Nat, logical_time : Nat, prefix : Seq(Events), state : States]

WriteFile(files, seq, record) ==
  [k \in DOMAIN files \cup {seq} |-> IF k = seq THEN record ELSE files[k]]

-----------------------------------------------------------------------------
NoActions == [i \in Agents |-> None]

Init ==
  /\ config \in [run_id : RunIds, checkpoint_every : Cadences,
                 invalid_action_policy : InvalidPolicies, stop_round : {MaxRounds}]
  /\ pc = "start" /\ turn = 1
  /\ proposal = None /\ accepted = NoActions /\ failure = None
  /\ state = InitialState
  /\ ledger = << >> /\ ckpts = << >>

(* A fresh run (start_state is None) opens its ledger with RunStarted. *)
StartRun ==
  /\ pc = "start"
  /\ Emit(Event("RunStarted", 0, Engine, None))
  /\ pc' = "loop"
  /\ UNCHANGED <<config, turn, proposal, accepted, failure, state, ckpts>>

(* Loop head: the opening hook may replace the state and publish an event  *)
(* before any observation of the round is issued.                          *)
OpenRound ==
  /\ pc = "loop" /\ ~ Terminal(state)
  /\ state' = Published(state)
  /\ IF state.round \in OpeningRounds \ state.published
       THEN Emit(Event("AuditPublished", state.round, Engine, None))
       ELSE UNCHANGED ledger
  /\ pc' = "observe" /\ turn' = 1 /\ accepted' = NoActions
  /\ UNCHANGED <<config, proposal, failure, ckpts>>

(* One ObservationIssued per agent, in sorted order, before any proposal. *)
IssueObservation ==
  /\ pc = "observe"
  /\ Emit(Event("ObservationIssued", state.round, turn, None))
  /\ IF turn < NumAgents THEN turn' = turn + 1 /\ UNCHANGED pc
                         ELSE turn' = 1 /\ pc' = "propose"
  /\ UNCHANGED <<config, proposal, accepted, failure, state, ckpts>>

(* The policy of the agent whose turn it is returns a proposal ... *)
Propose(action) ==
  /\ pc = "propose"
  /\ Emit(Event("ActionProposed", state.round, turn, action))
  /\ proposal' = action /\ pc' = "validate"
  /\ UNCHANGED <<config, turn, accepted, failure, state, ckpts>>

(* A name that says a fault is a mutated form, used by no specification.   *)
PolicyRaisesAfterPartialResolve(kind) ==
  /\ pc = "propose"
  /\ failure' = [kind |-> kind, agent |-> turn] /\ pc' = "fail"
  /\ state' = Resolved(state, [i \in Agents |-> IF accepted[i] = None THEN Abstain
                                                ELSE accepted[i]])
  /\ UNCHANGED <<config, turn, proposal, accepted, ledger, ckpts>>

(* ... or raises: the loop ends with nothing recorded for the agent. *)
PolicyRaises(kind) ==
  /\ pc = "propose"
  /\ failure' = [kind |-> kind, agent |-> turn] /\ pc' = "fail"
  /\ UNCHANGED <<config, turn, proposal, accepted, state, ledger, ckpts>>

(* accepted[agent] = action, and on to the next agent or to resolve *)
Accept(action) ==
  /\ accepted' = [accepted EXCEPT ![turn] = action]
  /\ Emit(Event("ActionAccepted", state.round, turn, action))
  /\ IF turn < NumAgents THEN turn' = turn + 1 /\ pc' = "propose"
                         ELSE turn' = 1 /\ pc' = "resolve"

AcceptProposal ==
  /\ pc = "validate" /\ Legal(state, turn, proposal)
  /\ Accept(proposal) /\ proposal' = None
  /\ UNCHANGED <<config, failure, state, ckpts>>

RejectProposal ==
  /\ pc = "validate" /\ ~ Legal(state, turn, proposal)
  /\ Emit(Event("ActionRejected", state.round, turn, proposal))
  /\ proposal' = None /\ pc' = "rejected"
  /\ UNCHANGED <<config, turn, accepted, failure, state, ckpts>>

FallBackToAbstain ==
  /\ pc = "rejected" /\ config.invalid_action_policy = "abstain"
  /\ Legal(state, turn, Abstain)
  /\ Accept(Abstain)
  /\ UNCHANGED <<config, proposal, failure, state, ckpts>>

FailOnInvalidActionWithoutFallbackCheck ==
  /\ pc = "rejected" /\ config.invalid_action_policy = "fail"
  /\ failure' = [kind |-> "invalid_action", agent |-> turn]
  /\ pc' = "fail"
  /\ UNCHANGED <<config, turn, proposal, accepted, state, ledger, ckpts>>

FailOnInvalidAction ==
  /\ pc = "rejected"
  /\ \/ /\ config.invalid_action_policy = "fail"
        /\ failure' = [kind |-> "invalid_action", agent |-> turn]
     \/ /\ config.invalid_action_policy = "abstain" /\ ~ Legal(state, turn, Abstain)
        /\ failure' = [kind |-> "fallback_illegal", agent |-> turn]
  /\ pc' = "fail"
  /\ UNCHANGED <<config, turn, proposal, accepted, state, ledger, ckpts>>

Resolve ==
  /\ pc = "resolve"
  /\ state' = Resolved(state, accepted)
  /\ pc' = "domain" /\ turn' = 1
  /\ UNCHANGED <<config, proposal, accepted, failure, ledger, ckpts>>

AtCadence ==
  config.checkpoint_every > 0 /\ state.round % config.checkpoint_every = 0

(* The events resolve returned carry the time t of the round they end. *)
EmitDomainEvent ==
  /\ pc = "domain"
  /\ Emit(Event(DomainEventTypes[turn], state.round - 1, Engine, None))
  /\ IF turn < Len(DomainEventTypes)
       THEN turn' = turn + 1 /\ UNCHANGED pc
       ELSE /\ turn' = 1
            /\ pc' = IF AtCadence /\ ~ Terminal(state) THEN "checkpoint" ELSE "loop"
  /\ UNCHANGED <<config, proposal, accepted, failure, state, ckpts>>

(* The file is written first, then the event that announces it. *)
SaveCheckpoint ==
  /\ pc = "checkpoint"
  /\ ckpts' = WriteFile(ckpts, LastSeq, Snapshot(LastSeq, state))
  /\ pc' = "announce"
  /\ UNCHANGED <<config, turn, proposal, accepted, failure, state, ledger>>

AnnounceCheckpointAfterIncrement ==
  /\ pc = "announce"
  /\ Emit([Event("CheckpointCreated", state.round, Engine, None)
             EXCEPT !.at_seq = LastSeq + 1, !.state_hash = state])
  /\ pc' = "loop"
  /\ UNCHANGED <<config, turn, proposal, accepted, failure, state, ckpts>>

AnnounceCheckpoint ==
  /\ pc = "announce"
  /\ Emit([Event("CheckpointCreated", state.round, Engine, None)
             EXCEPT !.at_seq = LastSeq, !.state_hash = state])
  /\ pc' = "loop"
  /\ UNCHANGED <<config, turn, proposal, accepted, failure, state, ckpts>>

SealFailedWithoutReturn ==
  /\ pc = "fail"
  /\ Emit([Event("RunFailed", state.round, Engine, None)
             EXCEPT !.reason = failure, !.state_hash = state])
  /\ pc' = "complete"
  /\ UNCHANGED <<config, turn, proposal, accepted, failure, state, ckpts>>

SealFailed ==
  /\ pc = "fail"
  /\ Emit([Event("RunFailed", state.round, Engine, None)
             EXCEPT !.reason = failure, !.state_hash = state])
  /\ pc' = "failed"
  /\ UNCHANGED <<config, turn, proposal, accepted, failure, state, ckpts>>

SaveFinalCheckpoint ==
  /\ pc = "loop" /\ Terminal(state)
  /\ ckpts' = WriteFile(ckpts, LastSeq, Snapshot(LastSeq, state))
  /\ pc' = "complete"
  /\ UNCHANGED <<config, turn, proposal, accepted, failure, state, ledger>>

SealCompleted ==
  /\ pc = "complete"
  /\ Emit([Event("RunCompleted", state.round, Engine, None)
             EXCEPT !.state_hash = state])
  /\ pc' = "completed"
  /\ UNCHANGED <<config, turn, proposal, accepted, failure, state, ckpts>>

(* The process dies, or an exception of the mechanism or the store leaves  *)
(* run_episode: no seal is written.  A checkpoint is written in place, so  *)
(* a crash inside save leaves a torn file.                                 *)
Running == pc \notin {"completed", "failed", "crashed"}

Crash ==
  /\ Running
  /\ \/ UNCHANGED ckpts
     \/ /\ pc = "checkpoint" \/ (pc = "loop" /\ Terminal(state))
        /\ ckpts' = WriteFile(ckpts, LastSeq, Torn)
  /\ pc' = "crashed"
  /\ UNCHANGED <<config, turn, proposal, accepted, failure, state, ledger>>

(* The runner's own steps; which proposal or error a policy produces is    *)
(* the environment's choice.                                               *)
EngineStep ==
  \/ StartRun \/ OpenRound \/ IssueObservation
  \/ AcceptProposal \/ RejectProposal \/ FallBackToAbstain \/ FailOnInvalidAction
  \/ Resolve \/ EmitDomainEvent \/ SaveCheckpoint \/ AnnounceCheckpoint
  \/ SealFailed \/ SaveFinalCheckpoint \/ SealCompleted

PolicyStep ==
  \/ \E action \in Actions : Propose(action)
  \/ \E kind \in PolicyErrors : PolicyRaises(kind)

Next == EngineStep \/ PolicyStep \/ Crash

Spec == Init /\ [][Next]_vars

(* One thread runs the loop and every policy call returns or raises (the   *)
(* network transport has a timeout), so the runner never stops by itself.  *)
FairSpec == Spec /\ WF_vars(EngineStep \/ PolicyStep)
=============================================================================
