------------------------- MODULE ExperimentExecution -------------------------
(***************************************************************************)
(* How an experiment's evidence is written, collected and published: the   *)
(* scripts under src/experiments/ launched with one --out directory, while *)
(* the working tree they record is edited and committed and a step may     *)
(* raise or the process be killed.                                         *)
(*                                                                         *)
(* A version is a content of the working tree, and a commit is named by    *)
(* the version it holds.  DesignOf a version is what the experiment reads  *)
(* of it as its design: DESIGN.md, the committed inputs of the graph       *)
(* study, the scenarios of study 001 for the atlas.  What the episodes do  *)
(* is CommonsExperiments and IteratedDilemma; how a run directory is       *)
(* claimed is RunDirectory.  A --check executes in a directory of its own  *)
(* and keeps nothing.                                                      *)
(***************************************************************************)
EXTENDS Integers, Sequences, FiniteSets, TLC

CONSTANTS
  Experiments,     \* the experiments considered
  Launches,        \* processes that are given the same output directory
  NumCells,
  Versions, DesignOf,
  MaxChanges,      \* edits and commits of the working tree
  MaxFaults,       \* exceptions and kills
  None

Cells == 1..NumCells
Parent == NumCells     \* the episode whose checkpoints the audit experiment branches

ASSUME ExecutionAssumption ==
  /\ Experiments \subseteq {"audit", "noisy", "quality", "responsive", "ablation", "atlas", "graph"}
  /\ NumCells \in Nat \ {0} /\ MaxChanges \in Nat /\ MaxFaults \in Nat

VARIABLES
  experiment,
  tree,       \* the working tree: its content, and the commit checked out
  changes,    \* edits and commits so far
  dir,        \* the output directory
  proc,       \* the launches
  faults

vars == <<experiment, tree, changes, dir, proc, faults>>

-----------------------------------------------------------------------------
(* What each script does, in order *)

AuditExecute == <<"mkdir", "inputs", "source", "episodes", "branches", "checks",
                  "collect", "results", "readout">>
AuditMain == <<"provenance">> \o AuditExecute

NoisyExecute == <<"mkdir", "inputs", "study", "runs", "status", "fixed",
                  "collect", "results", "readout">>
NoisyMain == <<"provenance">> \o NoisyExecute \o <<"source">>

QualityExecute == <<"mkdir", "inputs", "study", "runs", "status", "fixed",
                    "collect", "results", "readout">>
QualityMain == <<"provenance">> \o QualityExecute \o <<"source">>

ResponsiveExecute == <<"mkdir", "provenance", "inputs", "study", "runs", "status", "fixed",
                       "collect", "results", "readout", "source">>

AblationExecute == <<"mkdir", "inputs", "study", "runs", "status", "fixed",
                     "collect", "results", "readout">>
AblationMain == <<"provenance">> \o AblationExecute \o <<"source">>

AtlasBuild == <<"provenance", "mkdir", "profiles", "probes", "compare", "results", "readout">>

GraphExecute == <<"vacant", "provenance", "source-preflight", "source", "study", "runs", "status">>
GraphReport == <<"collect", "report-preflight", "results", "readout">>
GraphMain(kind) == IF kind = "report" THEN GraphReport ELSE GraphExecute \o GraphReport

Script(kind) ==
  CASE experiment = "audit" -> AuditMain
    [] experiment = "noisy" -> NoisyMain
    [] experiment = "quality" -> QualityMain
    [] experiment = "responsive" -> ResponsiveExecute
    [] experiment = "ablation" -> AblationMain
    [] experiment = "atlas" -> AtlasBuild
    [] experiment = "graph" -> GraphMain(kind)

\* Three scripts record where they ran only when everything else is written.
RecordsSourceLast == experiment \in {"noisy", "quality", "responsive", "ablation"}
RunsAStudy == RecordsSourceLast \/ experiment = "graph"

Files == {"inputs", "source", "branches", "checks", "results", "readout"}

(* What is recorded of the tree, and the entries of an output directory: a *)
(* file, torn or whole, with its content, and a run with the source its    *)
(* manifest names.                                                         *)
Designs == {DesignOf[v] : v \in Versions}
Sources == [commit : Versions, dirty : BOOLEAN, design : Designs, files : Versions \cup {None}]
Results == [design : Designs, reporter : Versions \cup {None}]
Entries == [by : Launches, whole : BOOLEAN,
            of : Designs \cup Sources \cup Results \cup {"as played", None}]
Manifests == [by : Launches, stage : {"open", "completed", "failed"},
              commit : Versions \cup {None}, dirty : BOOLEAN \cup {None},
              design : Designs \cup {None}]

\* The areas runs are in: the graph study's are under a root named by its hash.
Areas == {"runs", "fixed"} \cup Designs

ASSUME NoneAssumption ==
  None \notin Launches \cup Sources \cup Results \cup Entries \cup Manifests \cup Designs
              \cup {"done", "failing", "raised", "killed", "absent", "open"}
ASSUME NamesAssumption == Designs \cap (Files \cup {"failure", "made", "runs", "fixed"}) = {}

Init ==
  /\ experiment \in Experiments
  /\ tree \in {[work |-> v, head |-> v] : v \in Versions}
  /\ changes = 0 /\ faults = 0
  /\ dir = [n \in Files \cup {"failure", "made"} \cup Areas |->
             IF n \in Areas THEN [c \in Cells |-> None] ELSE None]
  /\ proc = [p \in Launches |->
               [kind |-> "record", step |-> 0, next |-> 1, end |-> None, loaded |-> None,
                taken |-> None, study |-> None, result |-> None, file |-> None]]

-----------------------------------------------------------------------------
(* The working tree *)

Dirty == tree.work # tree.head
Change == changes < MaxChanges /\ changes' = changes + 1
Edit(v) == Change /\ v # tree.work /\ tree' = [tree EXCEPT !.work = v]
           /\ UNCHANGED <<experiment, dir, proc, faults>>
Commit == Change /\ Dirty /\ tree' = [tree EXCEPT !.head = tree.work]
          /\ UNCHANGED <<experiment, dir, proc, faults>>

\* git_provenance and the digests taken with it, in the graph experiment of every file
Source == [commit |-> tree.head, dirty |-> Dirty, design |-> DesignOf[tree.work],
           files |-> IF experiment = "graph" THEN tree.work ELSE None]

-----------------------------------------------------------------------------
(* A launch and its steps *)

Step(p) == Script(proc[p].kind)[proc[p].step]
At(p, s) == proc[p].end = None /\ proc[p].step > 0 /\ Step(p) = s

Advance(p, state) ==
  proc' = [proc EXCEPT ![p] = IF state.step = Len(Script(state.kind)) THEN [state EXCEPT !.end = "done"]
                              ELSE [state EXCEPT !.step = @ + 1]]

\* Mutated form.
CatchesAlsoTheDirectory(p) == experiment = "audit" /\ Step(p) # "provenance"

\* Only the audit experiment's execute has a handler, and not round its mkdir.
Catches(p) == experiment = "audit" /\ Step(p) \notin {"provenance", "mkdir"}

Refuse(p) == proc' = [proc EXCEPT ![p].end = IF Catches(p) THEN "failing" ELSE "raised"]

\* The process imports the experiment's code as it then is.
Launch(p, kind) ==
  /\ proc[p].step = 0
  /\ kind = "record" \/ experiment = "graph"
  /\ proc' = [proc EXCEPT ![p].step = 1, ![p].kind = kind, ![p].loaded = tree.work]
  /\ UNCHANGED <<experiment, tree, changes, dir, faults>>

NeedsCleanTree == experiment \in {"audit", "noisy", "quality", "ablation"}

TakeProvenance(p) ==
  /\ At(p, "provenance")
  /\ IF NeedsCleanTree /\ Dirty THEN Refuse(p)
     ELSE Advance(p, [proc[p] EXCEPT !.taken = Source])
  /\ UNCHANGED <<experiment, tree, changes, dir, faults>>

\* Mutated form.
MakeDirectoryIfMissing(p) ==
  /\ At(p, "mkdir")
  /\ Advance(p, proc[p])
  /\ dir' = [dir EXCEPT !.made = p]
  /\ UNCHANGED <<experiment, tree, changes, faults>>

MakeDirectory(p) ==
  /\ At(p, "mkdir")
  /\ IF dir.made = None THEN Advance(p, proc[p]) /\ dir' = [dir EXCEPT !.made = p]
     ELSE Refuse(p) /\ UNCHANGED dir
  /\ UNCHANGED <<experiment, tree, changes, faults>>

\* generate --check: the committed inputs are what the loaded code would write
InputsAsGenerated(design) == DesignOf[tree.work] = design

\* The graph experiment accepts an empty directory.
FindVacant(p) ==
  /\ At(p, "vacant")
  /\ IF /\ \A n \in {"source", "results", "readout"} : dir[n] = None
        /\ \A d \in Designs : \A c \in Cells : dir[d][c] = None
        /\ InputsAsGenerated(DesignOf[proc[p].loaded])
     THEN Advance(p, proc[p])
     ELSE Refuse(p)
  /\ UNCHANGED <<experiment, tree, changes, dir, faults>>

Content(p, n) ==
  CASE n = "inputs" -> DesignOf[IF experiment = "audit" THEN tree.work ELSE proc[p].loaded]
    [] n = "source" -> proc[p].taken
    [] n \in {"branches", "checks"} -> "as played"
    [] n \in {"results", "readout"} -> proc[p].result

Entry(p, n) == [by |-> p, whole |-> TRUE, of |-> Content(p, n)]
SameBytes(e, f) == e.whole /\ f.whole /\ e.of = f.of

Begun(p) == [by |-> p, whole |-> FALSE, of |-> None]

WriteFile(p, n) ==
  /\ experiment # "graph" /\ At(p, n) /\ n # "branches"
  /\ Advance(p, proc[p]) /\ dir' = [dir EXCEPT ![n] = Entry(p, n)]
  /\ UNCHANGED <<experiment, tree, changes, faults>>

(* The graph experiment's _write_files: first _preflight, once for all the *)
(* files of the call, refuses what differs from what would be written ...  *)
Batch(s) == IF s = "source-preflight" THEN {"source"} ELSE {"results", "readout"}

Preflight(p, s) ==
  /\ s \in {"source-preflight", "report-preflight"} /\ At(p, s)
  /\ IF \A n \in Batch(s) : dir[n] # None => SameBytes(dir[n], Entry(p, n))
     THEN Advance(p, proc[p])
     ELSE Refuse(p)
  /\ UNCHANGED <<experiment, tree, changes, dir, faults>>

\* ... then each file in turn is passed over when by now there is one, as it is, ...
LookForFile(p, n) ==
  /\ experiment = "graph" /\ At(p, n) /\ proc[p].file = None
  /\ IF dir[n] # None THEN Advance(p, proc[p]) ELSE proc' = [proc EXCEPT ![p].file = "absent"]
  /\ UNCHANGED <<experiment, tree, changes, dir, faults>>

\* Mutated form.
OpenFileForWriting(p, n) ==
  /\ At(p, n) /\ proc[p].file = "absent"
  /\ dir' = [dir EXCEPT ![n] = Begun(p)] /\ proc' = [proc EXCEPT ![p].file = "open"]
  /\ UNCHANGED <<experiment, tree, changes, faults>>

\* ... or else opened, which fails when it has come to be there in between, ...
OpenFile(p, n) ==
  /\ At(p, n) /\ proc[p].file = "absent"
  /\ IF dir[n] = None
     THEN dir' = [dir EXCEPT ![n] = Begun(p)] /\ proc' = [proc EXCEPT ![p].file = "open"]
     ELSE Refuse(p) /\ UNCHANGED dir
  /\ UNCHANGED <<experiment, tree, changes, faults>>

\* ... and written.
FillFile(p, n) ==
  /\ At(p, n) /\ proc[p].file = "open"
  /\ Advance(p, [proc[p] EXCEPT !.file = None]) /\ dir' = [dir EXCEPT ![n] = Entry(p, n)]
  /\ UNCHANGED <<experiment, tree, changes, faults>>

\* The fixtures are forked from one episode; from a failed one that may be impossible.
BranchOff(p) ==
  /\ At(p, "branches")
  /\ \/ Advance(p, proc[p]) /\ dir' = [dir EXCEPT !.branches = Entry(p, "branches")]
     \/ dir.runs[Parent].stage = "failed" /\ Refuse(p) /\ UNCHANGED dir
  /\ UNCHANGED <<experiment, tree, changes, faults>>

-----------------------------------------------------------------------------
(* Episodes *)

\* run_study up to its first run: one look at the commit for all of them.
Studied == IF experiment = "graph" THEN DesignOf[tree.work] ELSE dir.inputs.of
RootOf(design) == IF experiment = "graph" THEN design ELSE "runs"

BeginStudy(p) ==
  /\ At(p, "study")
  /\ IF \A c \in Cells : dir[RootOf(Studied)][c] = None
     THEN Advance(p, [proc[p] EXCEPT !.study =
            [commit |-> tree.head, dirty |-> Dirty, design |-> Studied]])
     ELSE Refuse(p)
  /\ UNCHANGED <<experiment, tree, changes, dir, faults>>

Area(p) ==
  IF Step(p) = "runs" THEN RootOf(proc[p].study.design)
  ELSE IF Step(p) \in {"episodes", "profiles"} THEN "runs" ELSE "fixed"
Playing(p) == \E s \in {"episodes", "runs", "profiles", "fixed", "probes"} : At(p, s)
Cell(p) == proc[p].next
InRun(p) == LET run == dir[Area(p)][Cell(p)] IN run # None /\ run.by = p /\ run.stage = "open"

(* What the run's manifest will say of its source: the audit experiment    *)
(* looks anew for every run, a control repeats what its source run says,   *)
(* the atlas says nothing, but reads the scenario anew.                    *)
Basis(p) ==
  CASE Step(p) = "episodes" -> [Source EXCEPT !.design = dir.inputs.of]
    [] Step(p) = "runs" -> proc[p].study
    [] Step(p) = "fixed" -> [x \in {"commit", "dirty", "design"} |-> dir.runs[Cell(p)][x]]
    [] OTHER -> [commit |-> None, dirty |-> None, design |-> DesignOf[tree.work]]

Manifest(p) == [by |-> p, stage |-> "open", commit |-> Basis(p).commit,
                dirty |-> Basis(p).dirty, design |-> Basis(p).design]

\* A run directory that somebody has claimed is refused.
OpenRun(p) ==
  /\ Playing(p) /\ ~InRun(p)
  /\ IF dir[Area(p)][Cell(p)] = None
     THEN /\ dir' = [dir EXCEPT ![Area(p)][Cell(p)] = Manifest(p)]
          /\ UNCHANGED proc
     ELSE Refuse(p) /\ UNCHANGED dir
  /\ UNCHANGED <<experiment, tree, changes, faults>>

NextCell(p) ==
  IF Cell(p) = NumCells THEN Advance(p, [proc[p] EXCEPT !.next = 1])
  ELSE proc' = [proc EXCEPT ![p].next = @ + 1]

\* The ledger is sealed and the manifest says how; only the atlas minds a failure here.
FileRun(p, outcome) ==
  /\ Playing(p) /\ InRun(p)
  /\ IF experiment = "atlas" /\ outcome = "failed"
     THEN Refuse(p) /\ dir' = [dir EXCEPT ![Area(p)][Cell(p)] = None]
     ELSE NextCell(p) /\ dir' = [dir EXCEPT ![Area(p)][Cell(p)].stage = outcome]
  /\ UNCHANGED <<experiment, tree, changes, faults>>

Claimed(area) == {c \in Cells : dir[area][c] # None}
Completed(area) == \A c \in Cells : dir[area][c] # None /\ dir[area][c].stage = "completed"

CheckStatus(p) ==
  /\ At(p, "status")
  /\ IF Completed(RootOf(proc[p].study.design)) THEN Advance(p, proc[p]) ELSE Refuse(p)
  /\ UNCHANGED <<experiment, tree, changes, dir, faults>>

-----------------------------------------------------------------------------
(* Collecting the evidence *)

Whole(n) == dir[n] # None /\ dir[n].whole

AuditInputsAgree == Whole("inputs") /\ dir.inputs.of = DesignOf[tree.work]
AuditSourceIsValid == Whole("source") /\ ~dir.source.of.dirty

\* Mutated form.
AuditSourceUnchecked == TRUE

AuditSourceIsBound ==
  dir.source # None =>
    /\ AuditSourceIsValid
    /\ \A c \in Cells : dir.runs[c].commit = dir.source.of.commit /\ ~dir.runs[c].dirty

AuditBranchesAgree == Whole("branches") /\ Whole("checks") /\ dir.checks.of = dir.branches.of

AuditCollects ==
  AuditInputsAgree /\ Completed("runs") /\ AuditSourceIsBound /\ AuditBranchesAgree

StudyCollects == Whole("inputs") /\ Completed("runs") /\ Completed("fixed")

(* The canonical inputs are those of the code collecting; the record of    *)
(* the source and every run must be of them, and of one commit, and there  *)
(* is no run of another study.                                             *)
GraphSourceAgrees(design) == Whole("source") /\ dir.source.of.design = design

GraphCollects(design) ==
  /\ InputsAsGenerated(design)
  /\ GraphSourceAgrees(design)
  /\ Completed(design) /\ \A d \in Designs \ {design} : Claimed(d) = {}
  /\ \A c \in Cells : dir[design][c].design = design /\ dir[design][c].commit = dir.source.of.commit

Collectable(p) ==
  CASE experiment = "audit" -> AuditCollects
    [] experiment = "graph" -> GraphCollects(DesignOf[proc[p].loaded])
    [] OTHER -> StudyCollects

\* A graph report names the code that made it, which is read then.
Result(p) ==
  [design |-> IF experiment = "graph" THEN DesignOf[proc[p].loaded] ELSE DesignOf[tree.work],
   reporter |-> IF experiment = "graph" THEN tree.work ELSE None]

Collect(p) ==
  /\ At(p, "collect")
  /\ IF Collectable(p) THEN Advance(p, [proc[p] EXCEPT !.result = Result(p)]) ELSE Refuse(p)
  /\ UNCHANGED <<experiment, tree, changes, dir, faults>>

(* verify_point compares what two scenarios made of the agents' actions,   *)
(* which may be the same; then the study must be as it was.                *)
Compare(p) ==
  /\ At(p, "compare")
  /\ \/ /\ DesignOf[tree.work] = proc[p].taken.design
        /\ Advance(p, [proc[p] EXCEPT !.result = Result(p)])
     \/ /\ \/ DesignOf[tree.work] # proc[p].taken.design
           \/ \E c \in Cells : dir.fixed[c].design # dir.runs[c].design
        /\ Refuse(p)
  /\ UNCHANGED <<experiment, tree, changes, dir, faults>>

-----------------------------------------------------------------------------
(* Failures *)

Status(run) ==
  IF run = None THEN "not-written"
  ELSE IF run.stage = "open" THEN "ledger-retained" ELSE run.stage

Phase(p) ==
  CASE Step(p) \in {"inputs", "source"} -> "inputs"
    [] Step(p) = "episodes" -> "episodes"
    [] Step(p) \in {"branches", "checks"} -> "branch-fixtures"
    [] OTHER -> "prediction-readout"

RetainFailure(p) ==
  /\ proc[p].end = "failing"
  /\ dir' = [dir EXCEPT !.failure =
       [by |-> p, whole |-> TRUE, phase |-> Phase(p), rows |-> [c \in Cells |-> Status(dir.runs[c])]]]
  /\ proc' = [proc EXCEPT ![p].end = "raised"]
  /\ UNCHANGED <<experiment, tree, changes, faults>>

Writing(p) ==
  /\ experiment # "graph"
  /\ proc[p].end = None /\ proc[p].step > 0 /\ Step(p) \in Files /\ dir[Step(p)] = None

(* A write cut short leaves a part of its file, where the graph experiment *)
(* has opened it already.  A raise within a run's reservation gives the    *)
(* directory back unless there is a manifest.                              *)
Torn(p) == Writing(p) /\ dir' = [dir EXCEPT ![Step(p)] = Begun(p)]
TornRecord(p) ==
  /\ proc[p].end = "failing"
  /\ dir' = [dir EXCEPT !.failure = [by |-> p, whole |-> FALSE, phase |-> None, rows |-> None]]
GivenBack(p) == Playing(p) /\ InRun(p) /\ dir' = [dir EXCEPT ![Area(p)][Cell(p)] = None]

Fault == faults < MaxFaults /\ faults' = faults + 1
Running(p) == proc[p].step > 0 /\ proc[p].end = None

Raise(p) ==
  /\ Running(p) /\ Fault /\ Refuse(p)
  /\ UNCHANGED dir \/ Torn(p) \/ GivenBack(p)
  /\ UNCHANGED <<experiment, tree, changes>>

\* The handler itself may raise.
RaiseAgain(p) ==
  /\ proc[p].end = "failing" /\ Fault
  /\ proc' = [proc EXCEPT ![p].end = "raised"]
  /\ UNCHANGED dir \/ TornRecord(p)
  /\ UNCHANGED <<experiment, tree, changes>>

Kill(p) ==
  /\ Running(p) \/ proc[p].end = "failing"
  /\ Fault
  /\ proc' = [proc EXCEPT ![p].end = "killed"]
  /\ UNCHANGED dir \/ Torn(p) \/ TornRecord(p)
  /\ UNCHANGED <<experiment, tree, changes>>

-----------------------------------------------------------------------------
Work(p) ==
  \/ \E kind \in {"record", "report"} : Launch(p, kind)
  \/ TakeProvenance(p) \/ MakeDirectory(p) \/ FindVacant(p)
  \/ \E s \in {"source-preflight", "report-preflight"} : Preflight(p, s)
  \/ \E n \in Files : WriteFile(p, n) \/ LookForFile(p, n) \/ OpenFile(p, n) \/ FillFile(p, n)
  \/ BranchOff(p) \/ BeginStudy(p) \/ OpenRun(p)
  \/ \E outcome \in {"completed", "failed"} : FileRun(p, outcome)
  \/ CheckStatus(p) \/ Collect(p) \/ Compare(p) \/ RetainFailure(p)

Next ==
  \/ \E v \in Versions : Edit(v)
  \/ Commit
  \/ \E p \in Launches : Work(p) \/ Raise(p) \/ RaiseAgain(p) \/ Kill(p)

Spec == Init /\ [][Next]_vars

-----------------------------------------------------------------------------
(* Properties *)

AuditRests(design) ==
  /\ Whole("inputs") /\ dir.inputs.of = design
  /\ Whole("source") /\ Whole("branches") /\ Whole("checks")
  /\ \A c \in Cells : dir.runs[c].commit = dir.source.of.commit /\ ~dir.runs[c].dirty

StudyRests ==
  /\ Whole("inputs") /\ Completed("fixed")
  /\ \A c \in Cells : \A x \in {"commit", "dirty", "design"} : dir.fixed[c][x] = dir.runs[c][x]

GraphRests(design) ==
  /\ Whole("source") /\ dir.source.of.design = design
  /\ \A c \in Cells : dir[design][c].commit = dir.source.of.commit /\ dir[design][c].design = design

\* A study changed and changed back while the atlas was built goes unnoticed.
AtlasRests(design) ==
  /\ Completed("fixed")
  /\ changes < 2 => \A c \in Cells : dir.runs[c].design = design /\ dir.fixed[c].design = design

\* The evidence that results of a design rest on
Evidence(design) ==
  /\ Completed(RootOf(design))
  /\ CASE experiment = "audit" -> AuditRests(design)
       [] experiment = "graph" -> GraphRests(design)
       [] experiment = "atlas" -> AtlasRests(design)
       [] OTHER -> StudyRests

(* Figures and readable reports that are whole rest on what lies beside    *)
(* them: every declared run is there and completed, the inputs are those   *)
(* of the design they name, and where the script binds runs to the         *)
(* recorded source they are all of its commit, whoever recorded it.  The   *)
(* report comes after the figures, and a source recorded last after both;  *)
(* but a graph report passes over figures that another one is writing, or  *)
(* was killed writing (graph_experiment.py:146-147).                       *)
ResultsRestOnTheirRuns ==
  /\ \A n \in {"results", "readout"} : Whole(n) => Evidence(dir[n].of.design)
  /\ dir.readout # None =>
       \/ Whole("results")
       \/ experiment = "graph" /\ dir.results # None /\ dir.results.by # dir.readout.by
  /\ RecordsSourceLast /\ dir.source # None => Whole("results") /\ Whole("readout")

(* Of launches with the same output directory one fills it: what is in it  *)
(* has one author.  Where an empty directory is enough to start, the runs  *)
(* of one study have one author; none is played before there is a record   *)
(* of the source, which says what its author took and need not be of the   *)
(* launch that plays (graph_experiment.py:146-147, 192-197).               *)
OneExecutionPerDirectory ==
  /\ \A a \in Areas : \A c, d \in Claimed(a) : dir[a][c].by = dir[a][d].by
  /\ \A a \in Designs : \A c \in Claimed(a) :
       /\ dir.source # None
       /\ dir.source.by = dir[a][c].by =>
            Whole("source") /\ dir.source.of = proc[dir.source.by].taken
  /\ experiment # "graph" =>
       /\ \A n \in Files \cup {"failure"} : dir[n] # None => dir[n].by = dir.made
       /\ \A a \in Areas : \A c \in Claimed(a) : dir[a][c].by = dir.made

(* FAILED_EXECUTION.json, where it could be written whole, tells what is   *)
(* on the disk: the status of every cell's artifacts, and in its phase     *)
(* what had been written and what had not; there is no readable report     *)
(* beside it.                                                              *)
FailuresAreToldTruly ==
  Whole("failure") =>
    /\ dir.failure.rows = [c \in Cells |-> Status(dir.runs[c])]
    /\ ~Whole("readout")
    /\ dir.failure.phase = "inputs" => Claimed("runs") = {}
    /\ dir.failure.phase = "episodes" => Whole("source") /\ dir.branches = None
    /\ dir.failure.phase = "branch-fixtures" =>
         ~Whole("checks") /\ \A c \in Cells : Status(dir.runs[c]) \in {"completed", "failed"}
    /\ dir.failure.phase = "prediction-readout" => Whole("branches") /\ Whole("checks")

(* What is once whole stays as it is: no later step, launch or report      *)
(* rewrites or removes a file or a finished run.                           *)
EvidenceIsRetained ==
  [][/\ \A n \in Files \cup {"failure"} : Whole(n) => dir'[n] = dir[n]
     /\ \A a \in Areas : \A c \in Claimed(a) :
          dir[a][c].stage # "open" => dir'[a][c] = dir[a][c]]_vars
=============================================================================
