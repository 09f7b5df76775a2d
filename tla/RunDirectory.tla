---------------------------- MODULE RunDirectory ----------------------------
(***************************************************************************)
(* One run directory and the processes that launch a run into it:          *)
(* engine/store.py RunPaths.reserve with the writes its two callers make,  *)
(* experiments/study.py run_study and engine/branching.py branch_run.      *)
(* Every system call that another process can see is a step of its own.    *)
(*                                                                         *)
(* A file carries its author, the inode of a ledger, and a stage:          *)
(*   events    0 empty, 1 a torn first record, 2 whole records, 3 a torn   *)
(*             seal, 4 sealed                                              *)
(*   manifest  0 created and empty, 1 "running", 2 truncated for the final *)
(*             text, 3 "completed" or "failed"                             *)
(*   others    1 once written                                              *)
(***************************************************************************)
EXTENDS Integers, Sequences, FiniteSets

CONSTANTS
  Processes,        \* launches that target this directory
  Callers,          \* which callers they may be: "study" or "branch" for each
  MaxFaults,        \* exceptions and kills in a behaviour
  InodesReused,     \* may the filesystem hand out a freed inode number again?
  OperatorCleans    \* may someone run "make clean-generated" meanwhile?

ASSUME DirectoryAssumption ==
  /\ Callers # {} /\ Callers \subseteq [Processes -> {"study", "branch"}]
  /\ "nobody" \notin Processes
  /\ MaxFaults \in Nat
  /\ {InodesReused, OperatorCleans} \subseteq BOOLEAN

VARIABLES
  dir,      \* does the directory exist?
  files,    \* what is in it
  issued,   \* inode numbers the filesystem has given to ledgers so far
  proc,     \* the launches
  faults    \* exceptions and kills so far

vars == <<dir, files, issued, proc, faults>>

Names == {"events", "scenario", "branch", "manifest", "transcript", "checkpoints", "metrics"}
Absent == [by |-> "nobody", ino |-> 0, stage |-> -1]
Present(n) == files[n] # Absent
Empty == \A n \in Names : ~Present(n)

\* The writes of a caller inside and after its reservation, in order.
Writes(kind) ==
  IF kind = "study"
  THEN << <<"scenario", 1>>, <<"manifest", 0>>, <<"manifest", 1>>,
          <<"events", 1>>, <<"events", 2>>, <<"events", 3>>, <<"events", 4>>,
          <<"transcript", 1>>, <<"manifest", 2>>, <<"manifest", 3>> >>
  ELSE << <<"events", 0>>, <<"events", 1>>, <<"events", 2>>, <<"events", 3>>, <<"events", 4>>,
          <<"transcript", 1>>, <<"branch", 1>>, <<"scenario", 1>>,
          <<"manifest", 0>>, <<"manifest", 3>> >>

\* run_study leaves the reservation once the first manifest is written;
\* branch_run keeps it until the last write.
Guarded(p) == proc[p].kind = "branch" \/ proc[p].next <= 3

Removals == <<"scenario", "branch", "checkpoints", "metrics", "events">>

InsideReservation == {"creating", "writing", "failing", "cleaning"}
Stopped == {"refused", "retained", "aborted", "released", "stopped", "killed", "done"}

Launch(kind) == [at |-> IF kind = "study" THEN "planned" ELSE "reserving",
                 kind |-> kind, made |-> FALSE, ino |-> 0, next |-> 1]

Init ==
  /\ dir \in BOOLEAN
  /\ files = [n \in Names |-> Absent]
  /\ issued = 0
  /\ \E kind \in Callers : proc = [p \in Processes |-> Launch(kind[p])]
  /\ faults = 0

MoveTo(p, place) == proc' = [proc EXCEPT ![p].at = place]
Fault == faults < MaxFaults /\ faults' = faults + 1

\* A ledger made now gets a new inode number, or a freed one.
FreshInodes == {issued + 1} \cup (IF InodesReused THEN 1..issued ELSE {})

\* path.open("w" or "a") and what it writes: creates the file if it is missing.
Put(p, n, stage) ==
  IF Present(n)
  THEN files' = [files EXCEPT ![n].stage = stage] /\ UNCHANGED issued
  ELSE IF n = "events"
  THEN \E i \in FreshInodes :
         /\ files' = [files EXCEPT ![n] = [by |-> p, ino |-> i, stage |-> stage]]
         /\ issued' = IF i > issued THEN i ELSE issued
  ELSE files' = [files EXCEPT ![n] = [by |-> p, ino |-> 0, stage |-> stage]] /\ UNCHANGED issued

-----------------------------------------------------------------------------
\* Taking the reservation.

\* _refuse_if_runs_exist, well before the run itself is reached.
Preflight(p) ==
  /\ proc[p].at = "planned"
  /\ MoveTo(p, IF dir /\ ~Empty THEN "refused" ELSE "reserving")
  /\ UNCHANGED <<dir, files, issued, faults>>

MakeRoot(p) ==
  /\ proc[p].at = "reserving"
  /\ dir' = TRUE
  /\ proc' = [proc EXCEPT ![p].at = "checking", ![p].made = ~dir]
  /\ UNCHANGED <<files, issued, faults>>

CheckEmpty(p) ==
  /\ proc[p].at = "checking"
  /\ MoveTo(p, IF dir /\ Empty THEN "opening" ELSE "refused")
  /\ UNCHANGED <<dir, files, issued, faults>>

\* open("x") decides between competitors; a loser owns nothing to clean up.
LoseLedger(p) ==
  /\ proc[p].at = "opening"
  /\ ~dir \/ Present("events")
  /\ MoveTo(p, "refused")
  /\ UNCHANGED <<dir, files, issued, faults>>

\* Mutated form.
OpenLedgerOverwriting(p) ==
  /\ proc[p].at = "opening"
  /\ dir
  /\ Put(p, "events", 0)
  /\ proc' = [proc EXCEPT ![p].at = "creating", ![p].ino = files'["events"].ino]
  /\ UNCHANGED <<dir, faults>>

\* The identity comes from the descriptor, so no other process can disturb it;
\* st_ino may be 0, and os.fstat may raise: asked again it answers, or raises.
OpenLedger(p) ==
  /\ proc[p].at = "opening"
  /\ dir /\ ~Present("events")
  /\ Put(p, "events", 0)
  /\ \E i \in {files'["events"].ino, 0} :
       \/ proc' = [proc EXCEPT ![p].at = "creating", ![p].ino = i] /\ UNCHANGED faults
       \/ proc' = [proc EXCEPT ![p].at = "failing", ![p].ino = i] /\ Fault
  /\ UNCHANGED dir

\* RunPaths.create; on a missing root it makes a new one.
CreateDirectories(p) ==
  /\ proc[p].at = "creating"
  /\ dir' = TRUE
  /\ \E made \in {{}, {"checkpoints"}, {"checkpoints", "metrics"}} :
       /\ files' = [n \in Names |-> IF n \in made /\ ~Present(n)
                                    THEN [by |-> p, ino |-> 0, stage |-> 1] ELSE files[n]]
       /\ IF "metrics" \in made
          THEN MoveTo(p, "writing") /\ UNCHANGED faults
          ELSE MoveTo(p, "failing") /\ Fault
  /\ UNCHANGED issued

-----------------------------------------------------------------------------
\* Writing the run.

Advance(p) ==
  IF proc[p].next = Len(Writes(proc[p].kind))
  THEN MoveTo(p, "done")
  ELSE proc' = [proc EXCEPT ![p].next = @ + 1]

WriteNext(p) ==
  LET write == Writes(proc[p].kind)[proc[p].next]
  IN  /\ proc[p].at = "writing"
      /\ dir
      /\ Put(p, write[1], write[2])
      /\ Advance(p)
      /\ UNCHANGED <<dir, faults>>

\* Without a model-backed policy there is no transcript to write.
SkipTranscript(p) ==
  /\ proc[p].at = "writing"
  /\ Writes(proc[p].kind)[proc[p].next][1] = "transcript"
  /\ Advance(p)
  /\ UNCHANGED <<dir, files, issued, faults>>

\* An exception between two writes: it reaches reserve's handler only from
\* inside the reservation. Without the directory every write raises.
Raise(p) ==
  /\ proc[p].at = "writing"
  /\ IF dir THEN Fault ELSE UNCHANGED faults
  /\ MoveTo(p, IF Guarded(p) THEN "failing" ELSE "stopped")
  /\ UNCHANGED <<dir, files, issued>>

-----------------------------------------------------------------------------
\* The handler of reserve.

\* Mutated form.
OwnedByPath(p) == proc[p].ino # 0 /\ ~Present("manifest") /\ Present("events")

\* Mutated form.
OwnedDespiteManifest(p) ==
  proc[p].ino # 0 /\ Present("events") /\ files["events"].ino = proc[p].ino

Owned(p) ==
  /\ proc[p].ino # 0
  /\ ~Present("manifest")
  /\ Present("events") /\ files["events"].ino = proc[p].ino

Retain(p) ==
  /\ proc[p].at = "failing"
  /\ ~Owned(p)
  /\ MoveTo(p, "retained")
  /\ UNCHANGED <<dir, files, issued, faults>>

BeginCleanup(p) ==
  /\ proc[p].at = "failing"
  /\ Owned(p)
  /\ proc' = [proc EXCEPT ![p].at = "cleaning", ![p].next = 1]
  /\ UNCHANGED <<dir, files, issued, faults>>

LedgerVanished(p) == proc[p].next = Len(Removals) /\ ~Present("events")

RemoveNext(p) ==
  /\ proc[p].at = "cleaning"
  /\ proc[p].next <= Len(Removals)
  /\ ~LedgerVanished(p)
  /\ files' = [files EXCEPT ![Removals[proc[p].next]] = Absent]
  /\ proc' = [proc EXCEPT ![p].next = @ + 1]
  /\ UNCHANGED <<dir, issued, faults>>

\* rmdir refuses a directory that is not empty; the error is suppressed.
RemoveRoot(p) ==
  /\ proc[p].at = "cleaning"
  /\ proc[p].next = Len(Removals) + 1
  /\ dir' = (dir /\ ~(proc[p].made /\ Empty))
  /\ MoveTo(p, "released")
  /\ UNCHANGED <<files, issued, faults>>

\* An OSError in the middle of the cleanup is suppressed and ends it.
AbortCleanup(p) ==
  /\ proc[p].at = "cleaning"
  /\ IF LedgerVanished(p) THEN UNCHANGED faults ELSE Fault
  /\ MoveTo(p, "aborted")
  /\ UNCHANGED <<dir, files, issued>>

-----------------------------------------------------------------------------
\* The process is killed: no handler runs.
Kill(p) ==
  /\ proc[p].at \notin Stopped
  /\ Fault
  /\ MoveTo(p, "killed")
  /\ UNCHANGED <<dir, files, issued>>

\* "make clean-generated" before a new attempt. Nobody cleans in the instants
\* of a cleanup: nothing protects the window between its lstat and its unlinks.
CleanGenerated ==
  /\ OperatorCleans
  /\ \A p \in Processes : proc[p].at # "cleaning"
  /\ dir /\ dir' = FALSE
  /\ files' = [n \in Names |-> Absent]
  /\ UNCHANGED <<issued, proc, faults>>

Step(p) ==
  \/ Preflight(p) \/ MakeRoot(p) \/ CheckEmpty(p) \/ LoseLedger(p) \/ OpenLedger(p)
  \/ CreateDirectories(p) \/ WriteNext(p) \/ SkipTranscript(p) \/ Raise(p)
  \/ Retain(p) \/ BeginCleanup(p) \/ RemoveNext(p) \/ RemoveRoot(p) \/ AbortCleanup(p)

Next == CleanGenerated \/ \E p \in Processes : Step(p) \/ Kill(p)

Spec == Init /\ [][Next]_vars

-----------------------------------------------------------------------------
LaunchStates ==
  [at : {"planned", "reserving", "checking", "opening"} \cup InsideReservation \cup Stopped,
   kind : {"study", "branch"}, made : BOOLEAN, ino : Nat, next : 1..10]

TypeOK ==
  /\ dir \in BOOLEAN
  /\ files \in [Names -> [by : Processes \cup {"nobody"}, ino : Nat, stage : -1..4]]
  /\ issued \in Nat
  /\ proc \in [Processes -> LaunchStates]
  /\ faults \in 0..MaxFaults

-----------------------------------------------------------------------------
\* A launch holds the directory from its open("x") until its ledger is gone.
Holder(p) ==
  \/ proc[p].at \in {"creating", "writing", "failing"}
  \/ proc[p].at = "cleaning" /\ proc[p].next <= Len(Removals)

\* Two launches never hold the directory at the same time, whatever each had
\* seen before: preflight and emptiness checks may both be stale (store.py 61-71).
OneHolder ==
  \A p, q \in Processes : Holder(p) /\ Holder(q) => p = q

\* The artifacts of a directory are one launch's, the transcript aside: a new
\* owner finds nothing of a failed one, because the ledger goes last (store.py 89-95).
RunFilesHaveOneAuthor ==
  \A m, n \in Names \ {"transcript"} :
    Present(m) /\ Present(n) => files[m].by = files[n].by

\* A launch that ends has its whole run on disk, for good (study.py 480-555,
\* branching.py 149-209): no competitor's failure takes any of it away.
FinishedRunsStayWhole ==
  \A p \in Processes :
    proc[p].at = "done" =>
      /\ \A n \in {"events", "scenario", "manifest", "checkpoints", "metrics"} :
           files[n].by = p
      /\ files["events"].stage = 4 /\ files["manifest"].stage = 3

\* Nothing disappears except a cleaner's own files, while it can prove that the
\* ledger is its own and before any manifest names the run (store.py 79-92).
ArtifactsAreRetained ==
  [][\A n \in Names : Present(n) /\ ~Present(n)' =>
       /\ ~Present("manifest")
       /\ proc[files[n].by].at = "cleaning" /\ proc[files[n].by].ino # 0]_vars

\* A cleanup works only in a directory whose ledger is its own, even when the
\* directory was cleaned away and claimed again in the meantime (store.py 79-82).
CleanersOwnTheLedger ==
  \A p \in Processes :
    Holder(p) /\ proc[p].at = "cleaning" /\ Present("events") => files["events"].by = p

\* What the docstring of reserve promises (store.py 52): an owned failure without
\* a manifest, cleaned up to the end, leaves nothing behind.
OwnedFailuresAreCleanedUp ==
  \A p \in Processes, n \in Names :
    proc[p].at = "released" /\ Present(n) => files[n].by # p
=============================================================================
