-------------------------- MODULE LedgerValidation --------------------------
(***************************************************************************)
(* What a reader of a run directory relies on: the checks of               *)
(* engine/validation.py as operators on a ledger, and the correctness      *)
(* properties of a run stated on the artifacts alone (ledger lines and     *)
(* checkpoint files), never on the runner's memory.                        *)
(***************************************************************************)
EXTENDS EpisodeRunner, FiniteSets

Positions(l, type) == {k \in DOMAIN l : l[k].event_type = type}
TimesOf(l, type) == {l[k].logical_time : k \in Positions(l, type)}

(* positions and actions of the ActionAccepted lines of agent i, round r *)
AcceptedLines(l, r, i) ==
  {k \in Positions(l, "ActionAccepted") : l[k].logical_time = r /\ l[k].agent = i}
AcceptedActions(l, r, i) == {l[k].action : k \in AcceptedLines(l, r, i)}

(* validate_run: RunStarted first and only there; one seal, last; the      *)
(* manifest's status names the seal                                        *)
SealOf == [completed |-> "RunCompleted", failed |-> "RunFailed"]

ValidateRun(l, status) ==
  /\ Positions(l, "RunStarted") = {1}
  /\ {k \in DOMAIN l : l[k].event_type \in Seals} = {Len(l)}
  /\ l[Len(l)].event_type = SealOf[status]

(* validate_checkpoint: the snapshot is bound to the next sealed event *)
ValidateCheckpoint(record, fork, l) ==
  /\ fork < Len(l) - 1
  /\ record # Torn
  /\ record.seq = fork
  /\ record.prefix = SubSeq(l, 1, fork + 1)
  /\ LET boundary == l[fork + 2] IN
     /\ record.logical_time = record.state.round
     /\ record.logical_time = boundary.logical_time
     /\ boundary.state_hash = record.state
     /\ \/ boundary.event_type = "CheckpointCreated" /\ boundary.at_seq = fork
        \/ boundary.event_type = "RunCompleted"

-----------------------------------------------------------------------------
(* The ledger l accounts for the mechanism state s: s is what the accepted *)
(* lines of the resolved rounds, and the published openings, add up to.    *)
AccountsFor(l, s) ==
  /\ TimesOf(l, "WorldTransitioned") = 0 .. s.round - 1
  /\ Len(s.moves) = s.round
  /\ \A r \in 1 .. s.round : \A i \in Agents :
       AcceptedActions(l, r - 1, i) = {s.moves[r][i]}
  /\ s.published = TimesOf(l, "AuditPublished")

Sealed == pc \in {"completed", "failed"}

PcValues == {"start", "loop", "observe", "propose", "validate", "rejected", "resolve",
             "domain", "checkpoint", "announce", "complete", "fail",
             "completed", "failed", "crashed"}

(* Checkpoint files are named by the seq of a line already in the ledger. *)
TypeOK ==
  /\ config \in [run_id : RunIds, checkpoint_every : Cadences,
                 invalid_action_policy : InvalidPolicies, stop_round : Nat]
  /\ pc \in PcValues /\ turn \in Nat \ {0}
  /\ proposal \in Actions \cup {None}
  /\ accepted \in [Agents -> Actions \cup {None}]
  /\ failure \in Reasons \cup {None}
  /\ state \in States
  /\ ledger \in Seq(Events)
  /\ DOMAIN ckpts \subseteq 0 .. Len(ledger) - 1
  /\ \A seq \in DOMAIN ckpts : ckpts[seq] \in Snapshots \cup {Torn}

(* A run the runner sealed passes validate_run, however it ended: exactly  *)
(* one RunStarted at seq 0, exactly one seal, nothing after it             *)
(* (runner.py:297-321 against validation.py:17-26).                        *)
SealedRunsValidate == Sealed => ValidateRun(ledger, pc)

(* Every checkpoint file of a sealed run, also of one that failed in a     *)
(* later round, passes validate_checkpoint, so it can be forked: the event *)
(* after the snapshot is the one that announces or seals its state.        *)
CheckpointsAreForkable ==
  Sealed => \A seq \in DOMAIN ckpts : ValidateCheckpoint(ckpts[seq], seq, ledger)

(* The artifacts account for the ledger. A checkpoint, at every moment and *)
(* also in a run that crashed, holds the state that the ledger lines up to *)
(* its seq add up to: a continuation from it loses no accepted action and  *)
(* repeats none. The state hash in the seal is what the whole ledger adds  *)
(* up to: a run that fails in the middle of a round seals the state before *)
(* that round, whatever its other agents had already had accepted          *)
(* (runner.py:272-307).                                                    *)
ArtifactsAccountForLedger ==
  /\ \A seq \in DOMAIN ckpts :
       ckpts[seq] # Torn =>
         AccountsFor(SubSeq(ledger, 1, seq + 1), ckpts[seq].state)
  /\ Sealed => AccountsFor(ledger, ledger[Len(ledger)].state_hash)

(* The state at which round r is played, given all moves of the run. *)
StateBefore(r, moves) ==
  [round |-> r, published |-> OpeningRounds \cap 0 .. r, moves |-> SubSeq(moves, 1, r)]

(* The store only appends, a sealed ledger is never touched again, and a   *)
(* checkpoint file once written is never rewritten.                        *)
GrowStep ==
  /\ Len(ledger') >= Len(ledger) /\ SubSeq(ledger', 1, Len(ledger)) = ledger
  /\ Sealed => UNCHANGED <<ledger, ckpts>>
  /\ \A seq \in DOMAIN ckpts : seq \in DOMAIN ckpts' /\ ckpts'[seq] = ckpts[seq]
ArtifactsOnlyGrow == [][GrowStep]_<<ledger, ckpts, pc>>

(* A run that does not crash is sealed: it neither hangs between rounds    *)
(* nor leaves a failure unrecorded.                                        *)
EveryRunEnds == <>(pc \in {"completed", "failed", "crashed"})

-----------------------------------------------------------------------------
(* The ledger read as a play of the abstract game *)

LedgerMoves(l) ==
  [r \in 1 .. Cardinality(TimesOf(l, "WorldTransitioned")) |->
     [i \in Agents |-> CHOOSE a \in Actions : a \in AcceptedActions(l, r - 1, i)]]

Verdict(l) ==
  IF Positions(l, "RunCompleted") # {} THEN "completed"
  ELSE IF Positions(l, "RunFailed") # {} THEN "failed" ELSE "open"

LegalMove(history, i, action) ==
  Legal(StateBefore(Len(history), history), i, action)

Game == INSTANCE SimultaneousGame
          WITH history <- LedgerMoves(ledger), verdict <- Verdict(ledger)

(* Read from the ledger alone, an episode is a play of SimultaneousGame:   *)
(* whole legal rounds, then one verdict.                                   *)
ImplementsGame == Game!GameSpec
=============================================================================
