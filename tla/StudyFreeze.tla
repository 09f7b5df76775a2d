----------------------------- MODULE StudyFreeze -----------------------------
(***************************************************************************)
(* Freezing a study (experiments/study.py freeze_study) while its files    *)
(* are edited, other freezes are under way and runs are started            *)
(* (run_study's reading of the lock).                                      *)
(*                                                                         *)
(* A version is what load_study reads: spec and resolved scenarios. The    *)
(* study hash and the scenario hashes determine it, so a version stands    *)
(* for the hashes too; frozen_at is not compared and left out.             *)
(***************************************************************************)
EXTENDS Naturals

CONSTANTS
  Freezers,     \* freeze commands
  Runners,      \* run commands
  Versions,     \* contents the study directory may have
  None          \* no lock, no result

Locks == [of : Versions, whole : BOOLEAN]

ASSUME VersionAssumption == None \notin Versions \cup Locks /\ "raised" \notin Versions

VARIABLES
  study,     \* the content of the study directory
  lock,      \* study.lock.json: None, or [of, whole]
  freezer,   \* the freeze commands
  runner,    \* the run commands
  runs       \* manifests of the runs started: [hash, frozen]

vars == <<study, lock, freezer, runner, runs>>

Init ==
  /\ study \in Versions
  /\ lock = None
  /\ freezer = [f \in Freezers |-> [at |-> "start", hash |-> None, flushed |-> FALSE,
                                    temporary |-> FALSE, outcome |-> None]]
  /\ runner = [r \in Runners |-> [at |-> "start", hash |-> None]]
  /\ runs = {}

\* Somebody edits the study: nothing but the lock keeps a version.
Edit(v) == study' = v /\ v # study /\ UNCHANGED <<lock, freezer, runner, runs>>

-----------------------------------------------------------------------------
\* freeze_study

LoadAndHash(f) ==
  /\ freezer[f].at = "start"
  /\ freezer' = [freezer EXCEPT ![f].at = "making", ![f].hash = study]
  /\ UNCHANGED <<study, lock, runner, runs>>

MakeTemporary(f) ==
  /\ freezer[f].at = "making"
  /\ freezer' = [freezer EXCEPT ![f].at = "writing", ![f].temporary = TRUE]
  /\ UNCHANGED <<study, lock, runner, runs>>

WriteAndFlush(f) ==
  /\ freezer[f].at = "writing"
  /\ freezer' = [freezer EXCEPT ![f].at = "linking", ![f].flushed = TRUE]
  /\ UNCHANGED <<study, lock, runner, runs>>

\* Mutated form.
PublishReplacing(f) ==
  /\ freezer[f].at = "linking"
  /\ lock' = [of |-> freezer[f].hash, whole |-> freezer[f].flushed]
  /\ freezer' = [freezer EXCEPT ![f].at = "unlinking", ![f].outcome = freezer[f].hash]
  /\ UNCHANGED <<study, runner, runs>>

\* os.link publishes the temporary's inode under the lock's name, or fails.
Publish(f) ==
  /\ freezer[f].at = "linking"
  /\ lock = None
  /\ lock' = [of |-> freezer[f].hash, whole |-> freezer[f].flushed]
  /\ freezer' = [freezer EXCEPT ![f].at = "unlinking", ![f].outcome = freezer[f].hash]
  /\ UNCHANGED <<study, runner, runs>>

FindLock(f) ==
  /\ freezer[f].at = "linking"
  /\ lock # None
  /\ freezer' = [freezer EXCEPT ![f].at = "comparing"]
  /\ UNCHANGED <<study, lock, runner, runs>>

\* A lock of the same content is accepted, any other raises.
Compare(f) ==
  /\ freezer[f].at = "comparing"
  /\ freezer' = [freezer EXCEPT
       ![f].at = "unlinking",
       ![f].outcome = IF lock.whole /\ lock.of = freezer[f].hash THEN freezer[f].hash ELSE "raised"]
  /\ UNCHANGED <<study, lock, runner, runs>>

\* mkstemp, write, fsync or link raises; without a temporary there is no finally.
Raise(f) ==
  /\ freezer[f].at \in {"making", "writing", "linking"}
  /\ freezer' = [freezer EXCEPT ![f].outcome = "raised",
                                ![f].at = IF freezer[f].temporary THEN "unlinking" ELSE "stopped"]
  /\ UNCHANGED <<study, lock, runner, runs>>

Unlink(f) ==
  /\ freezer[f].at = "unlinking"
  /\ freezer' = [freezer EXCEPT ![f].at = "stopped", ![f].temporary = FALSE]
  /\ UNCHANGED <<study, lock, runner, runs>>

Kill(f) ==
  /\ freezer[f].at \notin {"stopped", "killed"}
  /\ freezer' = [freezer EXCEPT ![f].at = "killed"]
  /\ UNCHANGED <<study, lock, runner, runs>>

-----------------------------------------------------------------------------
\* run_study, up to the label every manifest of the call carries.

LoadStudy(r) ==
  /\ runner[r].at = "start"
  /\ runner' = [runner EXCEPT ![r].at = "checking", ![r].hash = study]
  /\ UNCHANGED <<study, lock, freezer, runs>>

\* Mutated form.
CheckLockForPresence(r) ==
  /\ runner[r].at = "checking"
  /\ runner' = [runner EXCEPT ![r].at = "stopped"]
  /\ runs' = runs \cup {[hash |-> runner[r].hash, frozen |-> lock # None]}
  /\ UNCHANGED <<study, lock, freezer>>

\* A lock of other content, or one that does not parse, raises.
CheckLock(r) ==
  /\ runner[r].at = "checking"
  /\ runner' = [runner EXCEPT ![r].at = "stopped"]
  /\ runs' = IF lock # None => lock.whole /\ lock.of = runner[r].hash
             THEN runs \cup {[hash |-> runner[r].hash, frozen |-> lock # None]}
             ELSE runs
  /\ UNCHANGED <<study, lock, freezer>>

Freeze(f) ==
  \/ LoadAndHash(f) \/ MakeTemporary(f) \/ WriteAndFlush(f) \/ Publish(f)
  \/ FindLock(f) \/ Compare(f) \/ Raise(f) \/ Unlink(f) \/ Kill(f)

Next ==
  \/ \E v \in Versions : Edit(v)
  \/ \E f \in Freezers : Freeze(f)
  \/ \E r \in Runners : LoadStudy(r) \/ CheckLock(r)

Spec == Init /\ [][Next]_vars

-----------------------------------------------------------------------------
FreezeStates ==
  [at : {"start", "making", "writing", "linking", "comparing", "unlinking", "stopped", "killed"},
   hash : Versions \cup {None}, flushed : BOOLEAN, temporary : BOOLEAN,
   outcome : Versions \cup {None, "raised"}]

RunnerStates == [at : {"start", "checking", "stopped"}, hash : Versions \cup {None}]

TypeOK ==
  /\ study \in Versions
  /\ lock \in Locks \cup {None}
  /\ freezer \in [Freezers -> FreezeStates]
  /\ runner \in [Runners -> RunnerStates]
  /\ runs \subseteq [hash : Versions, frozen : BOOLEAN]

\* A published lock is never replaced or withdrawn, by a later freeze or an edit
\* (study.py 219-228).
LockIsImmutable == [][lock # None => lock' = lock]_vars

\* The lock is complete from the moment it can be seen, whoever is killed when
\* (study.py 214-220).
LockIsWhole == lock # None => lock.whole

\* Every freeze that reports success reports the one frozen version, whatever
\* was edited between its loading and its publishing (study.py 205-236).
FreezesAgree ==
  \A f \in Freezers :
    freezer[f].outcome \in Versions => lock # None /\ lock.of = freezer[f].outcome

\* Runs labelled frozen are runs of the frozen version, even when the study was
\* edited after the freeze or frozen after it was loaded (study.py 441-449, 506).
FrozenRunsAreOfTheLock ==
  \A run \in runs : run.frozen => lock # None /\ lock.of = run.hash

\* A freeze that ends leaves no temporary beside the study (study.py 234-235).
NoTemporaryIsLeft ==
  \A f \in Freezers : freezer[f].at = "stopped" => ~freezer[f].temporary
=============================================================================
