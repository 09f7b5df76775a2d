---------------------- MODULE ExperimentExecutionProofs ----------------------
(***************************************************************************)
(* What an output directory holds of any number of launches, cells, edits  *)
(* and faults.  The invariants speak of where a launch is in its script:   *)
(* the steps it has done and the one it stands at.  In six scripts the     *)
(* launch that made the directory is alone in it, and its place says what  *)
(* is there (MadeInv, FilesInv).  The graph experiment accepts any empty   *)
(* directory: there a file that is whole was written by a launch that has  *)
(* done that step, one that is not is in the hands of the launch that      *)
(* opened it (SharedInv), and the first cell of a study decides whose its  *)
(* runs are (GraphInv).  What collecting found is evidence that stays as   *)
(* it is, so it is still there when the results are (GatheredInv).         *)
(***************************************************************************)
EXTENDS ExperimentExecution, TLAPS

Kinds == {"record", "report"}
Ends == {None, "done", "failing", "raised", "killed"}
Steps == {"provenance", "mkdir", "vacant", "inputs", "source-preflight", "source", "study",
          "episodes", "runs", "profiles", "fixed", "probes", "status", "branches", "checks",
          "collect", "compare", "report-preflight", "results", "readout"}
FindStep == IF experiment = "atlas" THEN "compare" ELSE "collect"
Alone == experiment # "graph"

\* Where the runs of a step are, and which steps play in an area
Where(p, s) ==
  IF s = "runs" THEN RootOf(proc[p].study.design)
  ELSE IF s \in {"episodes", "profiles"} THEN "runs" ELSE "fixed"
PlaySteps(area) ==
  IF area = "runs" THEN {"episodes", "runs", "profiles"}
  ELSE IF area = "fixed" THEN {"fixed", "probes"} ELSE {}
AllPlaySteps == PlaySteps("runs") \cup PlaySteps("fixed")

Names == Files \cup {"failure", "made"} \cup Areas
Studies == [commit : Versions, dirty : BOOLEAN, design : Designs]
Basics == [commit : Versions \cup {None}, dirty : BOOLEAN \cup {None},
           design : Designs \cup {None}]
Progress == [kind : Kinds, step : Nat, next : Cells, end : Ends, loaded : Versions \cup {None},
             taken : Sources \cup {None}, study : Studies \cup {None},
             result : Results \cup {None}, file : {None, "absent", "open"}]

(* The script of launch p, the steps it has done and the one it stands at *)
ScriptOf(p) == Script(proc[p].kind)
Behind(p) == IF proc[p].end = "done" THEN proc[p].step + 1 ELSE proc[p].step
Done(p, s) == \E i \in DOMAIN ScriptOf(p) : ScriptOf(p)[i] = s /\ i < Behind(p)
Stands(p, s) == proc[p].end # "done" /\ proc[p].step > 0 /\ Step(p) = s

ProcOf(p) ==
  /\ proc[p].step \in 0 .. Len(ScriptOf(p))
  /\ proc[p].step = 0 => proc[p].end = None
  /\ proc[p].step > 0 => proc[p].loaded \in Versions
  /\ proc[p].end = "done" => proc[p].step = Len(ScriptOf(p))
  /\ proc[p].end = "failing" => proc[p].step > 0 /\ Catches(p)
  /\ proc[p].kind = "record" \/ experiment = "graph"
  /\ proc[p].next = 1 \/ \E s \in AllPlaySteps : Stands(p, s)
  /\ proc[p].file = None \/ (~Alone /\ \E n \in Files : Stands(p, n))
  /\ Done(p, "provenance") => proc[p].taken # None
  /\ Done(p, "study") => proc[p].study \in Studies
  /\ Done(p, FindStep) <=> proc[p].result # None

ProcInv == proc \in [Launches -> Progress] /\ \A p \in Launches : ProcOf(p)

DirInv ==
  /\ dir = [n \in Names |-> dir[n]]
  /\ dir.made \in Launches \cup {None}
  /\ \A area \in Areas : dir[area] \in [Cells -> Manifests \cup {None}]
  /\ \A n \in Files : dir[n] \in Entries \cup {None}
  /\ Whole("inputs") => dir.inputs.of \in Designs

TypeInv ==
  /\ experiment \in Experiments
  /\ tree \in [work : Versions, head : Versions]
  /\ changes \in Nat
  /\ ProcInv /\ DirInv

(* Who has made the directory is the author of all there is. *)
MadeInv ==
  Alone =>
    /\ \A p \in Launches : Done(p, "mkdir") <=> dir.made = p
    /\ \A n \in Files : dir[n] # None => \E p \in Launches : dir.made = p /\ dir[n].by = p
    /\ \A area \in Areas : \A c \in Cells :
         dir[area][c] # None =>
           \E p \in Launches :
             /\ dir.made = p /\ dir[area][c].by = p
             /\ \E s \in PlaySteps(area) : Done(p, s) \/ Stands(p, s)

(* Where the directory is shared, a launch passes over a file that is      *)
(* there, whoever's it is; but what is whole was written by a launch that  *)
(* has done that step, and is what it had found, and what is not whole is  *)
(* in the hands of the launch that opened it, or was when that one ended.  *)
SharedInv ==
  ~Alone =>
    /\ \A n \in Files : dir[n] # None => \E q \in Launches :
         /\ dir[n].by = q
         /\ Whole(n) => Done(q, n) /\ (n = "source" => dir[n].of = proc[q].taken)
         /\ ~Whole(n) => Stands(q, n) /\ proc[q].file = "open"
    /\ \A p \in Launches, n \in Files : Stands(p, n) /\ proc[p].file = "open" =>
         dir[n] # None /\ dir[n].by = p /\ ~Whole(n)

(* A file whose step is done is there, and in a directory of one launch    *)
(* whole; there no other file is, and a torn one is of the step that ended *)
(* the launch.                                                             *)
FilesInv ==
  /\ \A p \in Launches, n \in Files : Done(p, n) => dir[n] # None /\ (Alone => Whole(n))
  /\ Alone => \A n \in Files : dir[n] # None =>
       \E p \in Launches :
         /\ dir.made = p
         /\ Done(p, n) \/ (~Whole(n) /\ Stands(p, n) /\ proc[p].end # None)
  /\ SharedInv

Finished(area, c) == dir[area][c] # None /\ dir[area][c].stage # "open"

(* Cells are played in their order; only the atlas has no failed ones. *)
PlayedInv ==
  /\ \A p \in Launches : \A s \in AllPlaySteps : \A c \in Cells :
       Done(p, s) \/ (Stands(p, s) /\ c < proc[p].next) => Finished(Where(p, s), c)
  /\ \A p \in Launches : Done(p, "status") => Completed(Where(p, "runs"))
  /\ experiment = "atlas" => \A area \in Areas : \A c \in Cells :
       dir[area][c] # None => dir[area][c].stage # "failed"
  /\ RecordsSourceLast => \A c \in Cells : dir.fixed[c] # None =>
       /\ dir.runs[c] # None /\ dir.runs[c].stage = "completed"
       /\ \A x \in {"commit", "dirty", "design"} : dir.fixed[c][x] = dir.runs[c][x]

FailInv ==
  dir.failure # None =>
    \E p \in Launches :
      /\ experiment = "audit" /\ dir.made = p
      /\ proc[p].end \in {"raised", "killed"} /\ proc[p].step > 0 /\ Catches(p)
      /\ dir.failure.by = p
      /\ dir.failure.whole => /\ dir.failure.phase = Phase(p)
                              /\ dir.failure.rows = [c \in Cells |-> Status(dir.runs[c])]

(* The runs of a study in a shared directory are its that has the first.   *)
GraphInv ==
  ~Alone =>
    /\ \A area \in {"runs", "fixed"} : \A c \in Cells : dir[area][c] = None
    /\ \A root \in Designs : \A c \in Cells : dir[root][c] # None =>
         \E p \in Launches :
           /\ dir[root][c].by = p /\ dir[root][1] # None /\ dir[root][1].by = p
           /\ Done(p, "runs") \/ Stands(p, "runs")
    /\ \A p \in Launches : \A root \in Designs : At(p, "runs") /\ root = Where(p, "runs") =>
         /\ proc[p].next > 1 => dir[root][1] # None /\ dir[root][1].by = p
         /\ dir[root][1] # None /\ dir[root][1].by = p =>
              \A c \in Cells : c > proc[p].next => dir[root][c] = None

\* An edit and its undoing are two changes.
AtlasInv ==
  experiment = "atlas" =>
    \A p \in Launches : proc[p].taken # None =>
      /\ changes = 0 => DesignOf[tree.work] = proc[p].taken.design
      /\ changes < 2 /\ DesignOf[tree.work] = proc[p].taken.design =>
           \A area \in Areas : \A c \in Cells :
             dir[area][c] # None /\ dir[area][c].by = p =>
               dir[area][c].design = proc[p].taken.design

GatheredInv ==
  /\ \A p \in Launches : proc[p].result # None => Evidence(proc[p].result.design)
  /\ \A n \in {"results", "readout"} : Whole(n) =>
       \E p \in Launches : proc[p].result # None /\ dir[n].of = proc[p].result
  /\ Alone /\ dir.readout # None => Whole("results")
  /\ RecordsSourceLast /\ dir.source # None => Whole("results") /\ Whole("readout")

IInv ==
  /\ TypeInv /\ MadeInv /\ FilesInv /\ PlayedInv
  /\ FailInv /\ GraphInv /\ AtlasInv /\ GatheredInv

-----------------------------------------------------------------------------
LEMMA NamesApart ==
  /\ Areas \cap (Files \cup {"failure", "made"}) = {}
  /\ {"runs", "fixed"} \subseteq Areas /\ Designs \subseteq Areas
  /\ Designs \cap {"runs", "fixed"} = {} /\ Files \cap {"failure", "made"} = {}
BY NamesAssumption DEF Areas, Files

(* The scripts *)

Once(S) == \A i, j \in DOMAIN S : S[i] = S[j] => i = j
Before(S, s, t) == \A j \in DOMAIN S : S[j] = t => \E i \in DOMAIN S : i < j /\ S[i] = s

(* What comes before what, of the steps a script has *)
Ordered(S) ==
  /\ Alone => \A t \in Steps \ {"provenance", "mkdir"} : Before(S, "mkdir", t)
  /\ Before(S, "provenance", "source") /\ Before(S, "provenance", "compare")
  /\ experiment = "atlas" => Before(S, "provenance", "profiles") /\ Before(S, "provenance", "probes")
  /\ Alone => Before(S, "inputs", "study") /\ Before(S, "inputs", "episodes")
  /\ Before(S, "study", "runs") /\ Before(S, "study", "status") /\ Before(S, "status", "fixed")
  /\ Before(S, FindStep, "results") /\ Before(S, "results", "readout")
  /\ RecordsSourceLast => Before(S, "readout", "source")
  /\ RunsAStudy /\ Alone => Before(S, "status", "collect")
  /\ experiment = "graph" => Before(S, "source", "runs") /\ Before(S, "source", "study")
  /\ experiment = "atlas" => Before(S, "profiles", "compare") /\ Before(S, "probes", "compare")
  /\ experiment = "audit" =>
       /\ Before(S, "inputs", "source") /\ Before(S, "source", "episodes")
       /\ Before(S, "episodes", "branches") /\ Before(S, "branches", "checks")
       /\ Before(S, "checks", "collect") /\ Before(S, "source", "collect")

(* Whose script has which steps *)
Belongs(S) ==
  \A i \in DOMAIN S :
    /\ S[i] \in {"collect", "compare"} => S[i] = FindStep
    /\ S[i] \in {"profiles", "probes"} => experiment = "atlas"
    /\ S[i] \in {"study", "runs", "status"} => RunsAStudy
    /\ S[i] = "fixed" => RecordsSourceLast
    /\ S[i] \in {"episodes", "branches", "checks"} => experiment = "audit"
    /\ S[i] \in {"mkdir", "inputs"} => Alone
    /\ S[i] \in {"source-preflight", "report-preflight"} => ~Alone

(* A script is of known steps, none twice, and ends in the report or the   *)
(* source.                                                                 *)
WellMade(S) ==
  /\ S \in Seq(Steps) /\ Len(S) \in Nat \ {0}
  /\ Once(S) /\ Ordered(S) /\ Belongs(S)
  /\ S[Len(S)] \in {"readout", "source"}

USE DEF Kinds, Steps

LEMMA AuditScript == experiment = "audit" => WellMade(AuditMain)
<1> DEFINE S == AuditMain
<1>1. S \in Seq(Steps) /\ DOMAIN S = 1..10 /\ Len(S) = 10
  BY DEF AuditMain, AuditExecute
<1>2. /\ S[1] = "provenance" /\ S[2] = "mkdir" /\ S[3] = "inputs"
      /\ S[4] = "source" /\ S[5] = "episodes" /\ S[6] = "branches"
      /\ S[7] = "checks" /\ S[8] = "collect" /\ S[9] = "results"
      /\ S[10] = "readout"
  BY DEF AuditMain, AuditExecute
<1> HIDE DEF S
<1>3. Once(S)
  BY <1>1, <1>2 DEF Once
<1>4. experiment = "audit" => Ordered(S)
  BY <1>1, <1>2 DEF Ordered, Before, RecordsSourceLast, RunsAStudy, FindStep, Alone
<1>5. experiment = "audit" => Belongs(S)
  BY <1>1, <1>2 DEF Belongs, RecordsSourceLast, RunsAStudy, FindStep, Alone
<1> QED
  BY <1>1, <1>2, <1>3, <1>4, <1>5 DEF WellMade, S

LEMMA NoisyScript == experiment = "noisy" => WellMade(NoisyMain)
<1> DEFINE S == NoisyMain
<1>1. S \in Seq(Steps) /\ DOMAIN S = 1..11 /\ Len(S) = 11
  BY DEF NoisyMain, NoisyExecute
<1>2. /\ S[1] = "provenance" /\ S[2] = "mkdir" /\ S[3] = "inputs"
      /\ S[4] = "study" /\ S[5] = "runs" /\ S[6] = "status"
      /\ S[7] = "fixed" /\ S[8] = "collect" /\ S[9] = "results"
      /\ S[10] = "readout" /\ S[11] = "source"
  BY DEF NoisyMain, NoisyExecute
<1> HIDE DEF S
<1>3. Once(S)
  BY <1>1, <1>2 DEF Once
<1>4. experiment = "noisy" => Ordered(S)
  BY <1>1, <1>2 DEF Ordered, Before, RecordsSourceLast, RunsAStudy, FindStep, Alone
<1>5. experiment = "noisy" => Belongs(S)
  BY <1>1, <1>2 DEF Belongs, RecordsSourceLast, RunsAStudy, FindStep, Alone
<1> QED
  BY <1>1, <1>2, <1>3, <1>4, <1>5 DEF WellMade, S

LEMMA QualityScript == experiment = "quality" => WellMade(QualityMain)
<1> DEFINE S == QualityMain
<1>1. S \in Seq(Steps) /\ DOMAIN S = 1..11 /\ Len(S) = 11
  BY DEF QualityMain, QualityExecute
<1>2. /\ S[1] = "provenance" /\ S[2] = "mkdir" /\ S[3] = "inputs"
      /\ S[4] = "study" /\ S[5] = "runs" /\ S[6] = "status"
      /\ S[7] = "fixed" /\ S[8] = "collect" /\ S[9] = "results"
      /\ S[10] = "readout" /\ S[11] = "source"
  BY DEF QualityMain, QualityExecute
<1> HIDE DEF S
<1>3. Once(S)
  BY <1>1, <1>2 DEF Once
<1>4. experiment = "quality" => Ordered(S)
  BY <1>1, <1>2 DEF Ordered, Before, RecordsSourceLast, RunsAStudy, FindStep, Alone
<1>5. experiment = "quality" => Belongs(S)
  BY <1>1, <1>2 DEF Belongs, RecordsSourceLast, RunsAStudy, FindStep, Alone
<1> QED
  BY <1>1, <1>2, <1>3, <1>4, <1>5 DEF WellMade, S

LEMMA ResponsiveScript == experiment = "responsive" => WellMade(ResponsiveExecute)
<1> DEFINE S == ResponsiveExecute
<1>1. S \in Seq(Steps) /\ DOMAIN S = 1..11 /\ Len(S) = 11
  BY DEF ResponsiveExecute
<1>2. /\ S[1] = "mkdir" /\ S[2] = "provenance" /\ S[3] = "inputs"
      /\ S[4] = "study" /\ S[5] = "runs" /\ S[6] = "status"
      /\ S[7] = "fixed" /\ S[8] = "collect" /\ S[9] = "results"
      /\ S[10] = "readout" /\ S[11] = "source"
  BY DEF ResponsiveExecute
<1> HIDE DEF S
<1>3. Once(S)
  BY <1>1, <1>2 DEF Once
<1>4. experiment = "responsive" => Ordered(S)
  BY <1>1, <1>2 DEF Ordered, Before, RecordsSourceLast, RunsAStudy, FindStep, Alone
<1>5. experiment = "responsive" => Belongs(S)
  BY <1>1, <1>2 DEF Belongs, RecordsSourceLast, RunsAStudy, FindStep, Alone
<1> QED
  BY <1>1, <1>2, <1>3, <1>4, <1>5 DEF WellMade, S

LEMMA AblationScript == experiment = "ablation" => WellMade(AblationMain)
<1> DEFINE S == AblationMain
<1>1. S \in Seq(Steps) /\ DOMAIN S = 1..11 /\ Len(S) = 11
  BY DEF AblationMain, AblationExecute
<1>2. /\ S[1] = "provenance" /\ S[2] = "mkdir" /\ S[3] = "inputs"
      /\ S[4] = "study" /\ S[5] = "runs" /\ S[6] = "status"
      /\ S[7] = "fixed" /\ S[8] = "collect" /\ S[9] = "results"
      /\ S[10] = "readout" /\ S[11] = "source"
  BY DEF AblationMain, AblationExecute
<1> HIDE DEF S
<1>3. Once(S)
  BY <1>1, <1>2 DEF Once
<1>4. experiment = "ablation" => Ordered(S)
  BY <1>1, <1>2 DEF Ordered, Before, RecordsSourceLast, RunsAStudy, FindStep, Alone
<1>5. experiment = "ablation" => Belongs(S)
  BY <1>1, <1>2 DEF Belongs, RecordsSourceLast, RunsAStudy, FindStep, Alone
<1> QED
  BY <1>1, <1>2, <1>3, <1>4, <1>5 DEF WellMade, S

LEMMA AtlasScript == experiment = "atlas" => WellMade(AtlasBuild)
<1> DEFINE S == AtlasBuild
<1>1. S \in Seq(Steps) /\ DOMAIN S = 1..7 /\ Len(S) = 7
  BY DEF AtlasBuild
<1>2. /\ S[1] = "provenance" /\ S[2] = "mkdir" /\ S[3] = "profiles"
      /\ S[4] = "probes" /\ S[5] = "compare" /\ S[6] = "results"
      /\ S[7] = "readout"
  BY DEF AtlasBuild
<1> HIDE DEF S
<1>3. Once(S)
  BY <1>1, <1>2 DEF Once
<1>4. experiment = "atlas" => Ordered(S)
  BY <1>1, <1>2 DEF Ordered, Before, RecordsSourceLast, RunsAStudy, FindStep, Alone
<1>5. experiment = "atlas" => Belongs(S)
  BY <1>1, <1>2 DEF Belongs, RecordsSourceLast, RunsAStudy, FindStep, Alone
<1> QED
  BY <1>1, <1>2, <1>3, <1>4, <1>5 DEF WellMade, S

LEMMA GraphScript == experiment = "graph" => WellMade(GraphExecute \o GraphReport)
<1> DEFINE S == GraphExecute \o GraphReport
<1>1. S \in Seq(Steps) /\ DOMAIN S = 1..11 /\ Len(S) = 11
  BY DEF GraphExecute, GraphReport
<1>2. /\ S[1] = "vacant" /\ S[2] = "provenance" /\ S[3] = "source-preflight"
      /\ S[4] = "source" /\ S[5] = "study" /\ S[6] = "runs" /\ S[7] = "status"
      /\ S[8] = "collect" /\ S[9] = "report-preflight" /\ S[10] = "results"
      /\ S[11] = "readout"
  BY DEF GraphExecute, GraphReport
<1> HIDE DEF S
<1>3. Once(S)
  BY <1>1, <1>2 DEF Once
<1>4. experiment = "graph" => Ordered(S)
  BY <1>1, <1>2 DEF Ordered, Before, RecordsSourceLast, RunsAStudy, FindStep, Alone
<1>5. experiment = "graph" => Belongs(S)
  BY <1>1, <1>2 DEF Belongs, RecordsSourceLast, RunsAStudy, FindStep, Alone
<1> QED
  BY <1>1, <1>2, <1>3, <1>4, <1>5 DEF WellMade, S

LEMMA ReportScript == experiment = "graph" => WellMade(GraphReport)
<1> DEFINE S == GraphReport
<1>1. S \in Seq(Steps) /\ DOMAIN S = 1..4 /\ Len(S) = 4
  BY DEF GraphReport
<1>2. /\ S[1] = "collect" /\ S[2] = "report-preflight" /\ S[3] = "results"
      /\ S[4] = "readout"
  BY DEF GraphReport
<1> HIDE DEF S
<1>3. Once(S)
  BY <1>1, <1>2 DEF Once
<1>4. experiment = "graph" => Ordered(S)
  BY <1>1, <1>2 DEF Ordered, Before, RecordsSourceLast, RunsAStudy, FindStep, Alone
<1>5. experiment = "graph" => Belongs(S)
  BY <1>1, <1>2 DEF Belongs, RecordsSourceLast, RunsAStudy, FindStep, Alone
<1> QED
  BY <1>1, <1>2, <1>3, <1>4, <1>5 DEF WellMade, S

LEMMA ScriptsWellMade ==
  ASSUME experiment \in Experiments, NEW kind \in Kinds
  PROVE  WellMade(Script(kind))
BY AuditScript, NoisyScript, QualityScript, ResponsiveScript, AblationScript, AtlasScript,
   GraphScript, ReportScript, ExecutionAssumption DEF Script, GraphMain

-----------------------------------------------------------------------------
(* The place of a launch in its script *)

LEMMA PlaceTypes ==
  ASSUME TypeInv, NEW p \in Launches
  PROVE  /\ WellMade(ScriptOf(p)) /\ DOMAIN ScriptOf(p) = 1 .. Len(ScriptOf(p))
         /\ proc[p].step \in Nat /\ Behind(p) \in Nat
         /\ proc[p].step > 0 => proc[p].step \in DOMAIN ScriptOf(p) /\ Step(p) \in Steps
<1>1. proc[p].kind \in Kinds /\ proc[p].step \in 0 .. Len(ScriptOf(p))
  BY DEF TypeInv, ProcInv, ProcOf, Progress
<1>2. WellMade(ScriptOf(p))
  BY <1>1, ScriptsWellMade DEF TypeInv, ScriptOf
<1>3. DOMAIN ScriptOf(p) = 1 .. Len(ScriptOf(p)) /\ Len(ScriptOf(p)) \in Nat
      /\ \A i \in 1 .. Len(ScriptOf(p)) : ScriptOf(p)[i] \in Steps
  BY <1>2 DEF WellMade
<1>4. proc[p].step > 0 => proc[p].step \in DOMAIN ScriptOf(p) /\ Step(p) \in Steps
  BY <1>1, <1>3 DEF Step, ScriptOf
<1> QED
  BY <1>1, <1>2, <1>3, <1>4 DEF Behind

(* A launch has done what comes before the step it stands at, and neither  *)
(* that step nor what comes after.                                         *)
LEMMA InOrder ==
  ASSUME TypeInv, NEW p \in Launches, NEW s, NEW t, Before(ScriptOf(p), s, t)
  PROVE  /\ Stands(p, t) \/ Done(p, t) => Done(p, s)
         /\ Stands(p, s) => ~Done(p, t) /\ ~Stands(p, t)
<1>1. /\ WellMade(ScriptOf(p)) /\ DOMAIN ScriptOf(p) = 1 .. Len(ScriptOf(p))
      /\ proc[p].step \in Nat /\ Behind(p) \in Nat
      /\ proc[p].step > 0 => proc[p].step \in DOMAIN ScriptOf(p)
  BY PlaceTypes
<1>2. ASSUME Stands(p, t) PROVE Done(p, s)
  BY <1>1, <1>2 DEF Stands, Done, Behind, Step, ScriptOf, Before
<1>3. ASSUME Done(p, t) PROVE Done(p, s)
  <2>1. PICK j \in DOMAIN ScriptOf(p) : ScriptOf(p)[j] = t /\ j < Behind(p)
    BY <1>3 DEF Done
  <2>2. PICK i \in DOMAIN ScriptOf(p) : i < j /\ ScriptOf(p)[i] = s
    BY <2>1 DEF Before
  <2> QED
    BY <1>1, <2>1, <2>2 DEF Done
<1>4. ASSUME Stands(p, s), Done(p, t) PROVE FALSE
  <2>1. PICK j \in DOMAIN ScriptOf(p) : ScriptOf(p)[j] = t /\ j < proc[p].step
    BY <1>4 DEF Done, Behind, Stands
  <2>2. PICK i \in DOMAIN ScriptOf(p) : i < j /\ ScriptOf(p)[i] = s
    BY <2>1 DEF Before
  <2>3. i = proc[p].step
    BY <1>1, <1>4, <2>2 DEF Stands, Step, ScriptOf, WellMade, Once
  <2> QED
    BY <1>1, <2>1, <2>2, <2>3
<1>5. ASSUME Stands(p, s), Stands(p, t) PROVE FALSE
  <2>1. PICK i \in DOMAIN ScriptOf(p) : i < proc[p].step /\ ScriptOf(p)[i] = s
    BY <1>1, <1>5 DEF Before, Stands, Step, ScriptOf
  <2>2. i = proc[p].step
    BY <1>1, <1>5, <2>1 DEF Stands, Step, ScriptOf, WellMade, Once
  <2> QED
    BY <1>1, <2>1, <2>2
<1> QED
  BY <1>2, <1>3, <1>4, <1>5

LEMMA StandingIsNotDone ==
  ASSUME TypeInv, NEW p \in Launches, NEW s, Stands(p, s)
  PROVE  ~Done(p, s) /\ s \in Steps
<1>1. /\ WellMade(ScriptOf(p)) /\ DOMAIN ScriptOf(p) = 1 .. Len(ScriptOf(p))
      /\ proc[p].step \in Nat /\ proc[p].step \in DOMAIN ScriptOf(p) /\ Step(p) \in Steps
  BY PlaceTypes DEF Stands
<1>2. ASSUME Done(p, s) PROVE FALSE
  <2>1. PICK i \in DOMAIN ScriptOf(p) : ScriptOf(p)[i] = s /\ i < proc[p].step
    BY <1>2 DEF Done, Behind, Stands
  <2> QED
    BY <1>1, <2>1 DEF Stands, Step, ScriptOf, WellMade, Once
<1> QED
  BY <1>1, <1>2 DEF Stands

(* What a step does to the places: a launch passes its step s, or it halts *)
Stays(q) == proc'[q] = proc[q]
OthersStay(p) == experiment' = experiment /\ \A q \in Launches \ {p} : Stays(q)

Passes(p, s) ==
  /\ At(p, s) /\ OthersStay(p)
  /\ proc'[p].kind = proc[p].kind /\ proc'[p].loaded = proc[p].loaded /\ proc'[p].next = 1
  /\ proc'[p].step = IF proc[p].step = Len(ScriptOf(p)) THEN proc[p].step ELSE proc[p].step + 1
  /\ proc'[p].end = IF proc[p].step = Len(ScriptOf(p)) THEN "done" ELSE None
  /\ proc'[p].taken = IF s = "provenance" THEN Source ELSE proc[p].taken
  /\ proc'[p].study = IF s = "study" THEN proc'[p].study ELSE proc[p].study
  /\ proc'[p].file = None
  /\ proc'[p].result = IF s = FindStep THEN Result(p) ELSE proc[p].result

Halts(p) ==
  /\ OthersStay(p)
  /\ proc[p].end \in {None, "failing"} /\ proc[p].step > 0
  /\ proc'[p].end \in {"failing", "raised", "killed"}
  /\ proc'[p].end = "failing" => Catches(p)
  /\ proc'[p] = [proc[p] EXCEPT !.end = proc'[p].end]

\* A launch notes how far it is with the file it stands at.
Notes(p, x) == OthersStay(p) /\ proc'[p] = [proc[p] EXCEPT !.file = x]

LEMMA StayingPlace ==
  ASSUME NEW q, Stays(q), experiment' = experiment
  PROVE  /\ ScriptOf(q)' = ScriptOf(q) /\ Step(q)' = Step(q)
         /\ \A s : /\ Done(q, s)' <=> Done(q, s)
                   /\ Stands(q, s)' <=> Stands(q, s)
                   /\ At(q, s)' <=> At(q, s)
BY DEF Stays, ScriptOf, Script, GraphMain, Step, Done, Behind, Stands, At

LEMMA NotingPlace ==
  ASSUME TypeInv, NEW p \in Launches, NEW x, Notes(p, x)
  PROVE  /\ ScriptOf(p)' = ScriptOf(p) /\ Step(p)' = Step(p)
         /\ \A s : /\ Done(p, s)' <=> Done(p, s)
                   /\ Stands(p, s)' <=> Stands(p, s)
                   /\ At(p, s)' <=> At(p, s)
         /\ proc'[p].step = proc[p].step /\ proc'[p].kind = proc[p].kind
         /\ proc'[p].next = proc[p].next /\ proc'[p].taken = proc[p].taken
         /\ proc'[p].study = proc[p].study /\ proc'[p].result = proc[p].result
         /\ proc'[p].loaded = proc[p].loaded /\ proc'[p].end = proc[p].end /\ proc'[p].file = x
<1>1. proc[p] \in Progress
  BY DEF TypeInv, ProcInv
<1>2. /\ proc'[p].step = proc[p].step /\ proc'[p].kind = proc[p].kind
      /\ proc'[p].next = proc[p].next /\ proc'[p].taken = proc[p].taken
      /\ proc'[p].study = proc[p].study /\ proc'[p].result = proc[p].result
      /\ proc'[p].loaded = proc[p].loaded /\ proc'[p].end = proc[p].end /\ proc'[p].file = x
  BY <1>1 DEF Notes, Progress
<1> QED
  BY <1>2 DEF Notes, OthersStay, ScriptOf, Script, GraphMain, Step, Done, Behind, Stands, At

LEMMA PassingPlace ==
  ASSUME TypeInv, NEW p \in Launches, NEW s, Passes(p, s)
  PROVE  /\ ScriptOf(p)' = ScriptOf(p)
         /\ Stands(p, s) /\ ~Done(p, s) /\ s \in Steps
         /\ \A t : Done(p, t)' <=> Done(p, t) \/ t = s
         /\ \A t : Stands(p, t)' => t # s /\ ~Done(p, t) /\ ~Stands(p, t)
<1>1. ScriptOf(p)' = ScriptOf(p)
  BY DEF Passes, OthersStay, ScriptOf, Script, GraphMain
<1> DEFINE S == ScriptOf(p)
           i == proc[p].step
<1>2. Stands(p, s) /\ proc[p].end = None /\ i > 0
  BY NoneAssumption DEF Passes, At, Stands
<1>3. /\ DOMAIN S = 1 .. Len(S) /\ i \in 1 .. Len(S) /\ S[i] = s /\ Once(S) /\ Len(S) \in Nat
  BY <1>2, PlaceTypes DEF Stands, Step, ScriptOf, WellMade
<1>4. Behind(p) = i /\ Behind(p)' = i + 1
  BY <1>2, NoneAssumption DEF Passes, Behind
<1>5. \A t : Done(p, t)' <=> \E j \in DOMAIN S : S[j] = t /\ j < i + 1
  BY <1>1, <1>4 DEF Done
<1>6. \A t : Done(p, t) <=> \E j \in DOMAIN S : S[j] = t /\ j < i
  BY <1>4 DEF Done
<1>7. \A t : Stands(p, t)' => i # Len(S) /\ S[i + 1] = t
  BY <1>1 DEF Passes, Stands, Step, ScriptOf
<1>8. \A t : Stands(p, t) => S[i] = t
  BY DEF Stands, Step, ScriptOf
<1> HIDE DEF S, i
<1>9. \A t : Done(p, t)' <=> Done(p, t) \/ t = s
  BY <1>3, <1>5, <1>6
<1>10. ASSUME NEW t, Stands(p, t)' PROVE t # s /\ ~Done(p, t) /\ ~Stands(p, t)
  <2>1. i + 1 \in DOMAIN S /\ S[i + 1] = t
    <3>1. i # Len(S)
      BY <1>7, <1>10
    <3>2. i \in Nat /\ Len(S) \in Nat /\ i <= Len(S)
      BY <1>3
    <3>3. i + 1 \in 1 .. Len(S)
      BY <3>1, <3>2
    <3> QED
      BY <1>3, <1>7, <1>10, <3>3
  <2>2. \A j \in DOMAIN S : S[j] = t => j = i + 1
    BY <1>3, <2>1 DEF Once
  <2> QED
    BY <1>3, <1>6, <1>8, <2>2
<1> QED
  BY <1>1, <1>2, <1>9, <1>10, StandingIsNotDone

LEMMA HaltingPlace ==
  ASSUME TypeInv, NEW p \in Launches, Halts(p)
  PROVE  /\ ScriptOf(p)' = ScriptOf(p) /\ Step(p)' = Step(p)
         /\ \A s : /\ Done(p, s)' <=> Done(p, s)
                   /\ Stands(p, s)' <=> Stands(p, s)
                   /\ ~At(p, s)'
         /\ proc'[p].step = proc[p].step /\ proc'[p].kind = proc[p].kind
         /\ proc'[p].next = proc[p].next /\ proc'[p].taken = proc[p].taken
         /\ proc'[p].study = proc[p].study /\ proc'[p].result = proc[p].result
         /\ proc'[p].loaded = proc[p].loaded /\ proc'[p].file = proc[p].file
<1>1. proc[p] \in Progress
  BY DEF TypeInv, ProcInv
<1>2. /\ proc'[p].step = proc[p].step /\ proc'[p].kind = proc[p].kind
      /\ proc'[p].next = proc[p].next /\ proc'[p].taken = proc[p].taken
      /\ proc'[p].study = proc[p].study /\ proc'[p].result = proc[p].result
      /\ proc'[p].loaded = proc[p].loaded /\ proc'[p].file = proc[p].file
      /\ proc[p].end # "done" /\ proc'[p].end # "done" /\ proc'[p].end # None
  BY <1>1, NoneAssumption DEF Halts, Progress
<1> QED
  BY <1>2 DEF Halts, OthersStay, ScriptOf, Script, GraphMain, Step, Done, Behind, Stands, At

-----------------------------------------------------------------------------
(* The kinds of step *)

Quiet ==
  /\ UNCHANGED <<experiment, dir, proc>>
  /\ tree' \in [work : Versions, head : Versions]
  /\ changes' = changes + 1 \/ UNCHANGED <<tree, changes>>

Starts(p) == \E kind \in Kinds : Launch(p, kind)

Moves(p) ==
  \E s \in {"provenance", "vacant", "source-preflight", "study", "status", "collect", "compare",
            "report-preflight"} :
    /\ Passes(p, s) /\ UNCHANGED <<tree, changes, dir>>
    /\ s = "status" => Completed(Where(p, "runs"))
    /\ s = "study" => proc'[p].study \in Studies
    /\ s = "collect" => Collectable(p)
    /\ s = "compare" => DesignOf[tree.work] = proc[p].taken.design

Makes(p) ==
  /\ Passes(p, "mkdir") /\ UNCHANGED <<tree, changes>>
  /\ dir.made = None /\ dir' = [dir EXCEPT !.made = p]

Writes(p, n) ==
  /\ Alone /\ Passes(p, n) /\ UNCHANGED <<tree, changes>>
  /\ dir' = [dir EXCEPT ![n] = Entry(p, n)]

Skips(p, n) ==
  /\ ~Alone /\ Passes(p, n) /\ UNCHANGED <<tree, changes, dir>>
  /\ proc[p].file = None /\ dir[n] # None

Looks(p, n) ==
  /\ ~Alone /\ At(p, n) /\ Notes(p, "absent") /\ UNCHANGED <<tree, changes, dir>>
  /\ proc[p].file = None

Begins(p, n) ==
  /\ ~Alone /\ At(p, n) /\ Notes(p, "open") /\ UNCHANGED <<tree, changes>>
  /\ proc[p].file = "absent"
  /\ dir[n] = None /\ dir' = [dir EXCEPT ![n] = Begun(p)]

Fills(p, n) ==
  /\ ~Alone /\ Passes(p, n) /\ UNCHANGED <<tree, changes>>
  /\ proc[p].file = "open" /\ dir' = [dir EXCEPT ![n] = Entry(p, n)]

Shares(p, n) == Skips(p, n) \/ Looks(p, n) \/ Begins(p, n) \/ Fills(p, n)

Opens(p) ==
  /\ Playing(p) /\ ~InRun(p) /\ UNCHANGED <<experiment, tree, changes, proc>>
  /\ dir[Area(p)][Cell(p)] = None
  /\ dir' = [dir EXCEPT ![Area(p)][Cell(p)] = Manifest(p)]

Plays(p) ==
  /\ Playing(p) /\ InRun(p) /\ UNCHANGED <<tree, changes>>
  /\ \E outcome \in {"completed", "failed"} :
       /\ dir' = [dir EXCEPT ![Area(p)][Cell(p)].stage = outcome]
       /\ experiment = "atlas" => outcome = "completed"
  /\ \/ Cell(p) = NumCells /\ Passes(p, Step(p))
     \/ /\ Cell(p) # NumCells /\ OthersStay(p)
        /\ proc'[p] = [proc[p] EXCEPT !.next = @ + 1]

Stops(p) ==
  /\ Halts(p) /\ UNCHANGED <<tree, changes>>
  /\ \/ UNCHANGED dir \/ Torn(p) \/ GivenBack(p)
     \/ TornRecord(p) /\ proc'[p].end \in {"raised", "killed"}

Kind(p) ==
  \/ Starts(p) \/ Moves(p) \/ Makes(p) \/ (\E n \in Files : Writes(p, n) \/ Shares(p, n))
  \/ Opens(p) \/ Plays(p) \/ RetainFailure(p) \/ Stops(p)

AnyStep == Quiet \/ \E p \in Launches : Kind(p)

LEMMA AdvancePasses ==
  ASSUME TypeInv, experiment' = experiment, NEW p \in Launches, NEW s, At(p, s),
         NEW st \in Progress, Advance(p, st),
         st.kind = proc[p].kind, st.step = proc[p].step, st.end = proc[p].end,
         st.loaded = proc[p].loaded, st.next = 1, st.file = None,
         st.taken = IF s = "provenance" THEN Source ELSE proc[p].taken,
         s # "study" => st.study = proc[p].study,
         st.result = IF s = FindStep THEN Result(p) ELSE proc[p].result
  PROVE  Passes(p, s) /\ proc' \in [Launches -> Progress]
<1>1. proc \in [Launches -> Progress] /\ proc[p].end = None /\ proc[p].step \in Nat
  BY DEF TypeInv, ProcInv, At, Progress
<1> DEFINE done == [st EXCEPT !.end = "done"]
           on == [st EXCEPT !.step = @ + 1]
<1>2. done \in Progress /\ on \in Progress
  BY <1>1, st \in Progress DEF Progress, Ends
<1>3. proc' = [proc EXCEPT ![p] = IF proc[p].step = Len(ScriptOf(p)) THEN done ELSE on]
  BY DEF Advance, ScriptOf
<1>4. proc' \in [Launches -> Progress] /\ \A q \in Launches \ {p} : proc'[q] = proc[q]
  BY <1>1, <1>2, <1>3
<1>5. proc'[p] = IF proc[p].step = Len(ScriptOf(p)) THEN done ELSE on
  BY <1>1, <1>3
<1>6. /\ \A x \in {"kind", "loaded", "next", "taken", "study", "result", "file"} :
           done[x] = st[x] /\ on[x] = st[x]
      /\ done.end = "done" /\ done.step = st.step /\ on.end = None /\ on.step = st.step + 1
  BY <1>1, st \in Progress DEF Progress
<1> HIDE DEF done, on
<1> QED
  BY <1>1, <1>4, <1>5, <1>6 DEF Passes, OthersStay, Stays

LEMMA RefuseHalts ==
  ASSUME TypeInv, experiment' = experiment, NEW p \in Launches, Running(p), Refuse(p)
  PROVE  Halts(p) /\ proc' \in [Launches -> Progress]
<1>1. proc \in [Launches -> Progress]
  BY DEF TypeInv, ProcInv
<1> QED
  BY <1>1 DEF Refuse, Halts, OthersStay, Stays, Running, Progress, Ends

LEMMA SourceTyped ==
  ASSUME TypeInv
  PROVE  Source \in Sources /\ DesignOf[tree.work] \in Designs
BY DEF TypeInv, Source, Sources, Designs, Dirty

LEMMA ResultTyped ==
  ASSUME TypeInv, NEW p \in Launches, proc[p].step > 0
  PROVE  Result(p) \in Results
<1>1. proc[p].loaded \in Versions /\ tree.work \in Versions
  BY DEF TypeInv, ProcInv, ProcOf
<1> QED
  BY <1>1 DEF Result, Results, Designs

LEMMA OrderOf ==
  ASSUME TypeInv, NEW p \in Launches
  PROVE  Ordered(ScriptOf(p))
BY PlaceTypes DEF WellMade

LEMMA AtStands ==
  ASSUME NEW p, NEW s, At(p, s)
  PROVE  Stands(p, s) /\ Running(p)
BY NoneAssumption DEF At, Stands, Running

LEMMA NextIsFirst ==
  ASSUME TypeInv, NEW p \in Launches, NEW s, At(p, s), s \notin AllPlaySteps
  PROVE  /\ proc[p].next = 1 /\ proc[p].end = None /\ proc[p] \in Progress
         /\ s \notin Files \/ Alone => proc[p].file = None
BY DEF TypeInv, ProcInv, ProcOf, Stands, At

(* Only an experiment run alone has inputs to study, and they are whole. *)
LEMMA InputsTyped ==
  ASSUME TypeInv, FilesInv, NEW p \in Launches, NEW s \in {"study", "episodes"}, At(p, s), Alone
  PROVE  Whole("inputs") /\ dir.inputs.of \in Designs
<1>1. Before(ScriptOf(p), "inputs", s) /\ Stands(p, s)
  BY OrderOf, AtStands DEF Ordered
<1>2. Done(p, "inputs")
  BY <1>1, InOrder
<1> QED
  BY <1>2 DEF FilesInv, TypeInv, DirInv, Files

LEMMA StartKind ==
  ASSUME TypeInv, NEW p \in Launches, NEW kind \in Kinds, Launch(p, kind)
  PROVE  Starts(p) /\ proc' \in [Launches -> Progress]
<1>1. proc \in [Launches -> Progress] /\ tree.work \in Versions
  BY DEF TypeInv, ProcInv
<1> DEFINE st == [proc[p] EXCEPT !.step = 1, !.kind = kind, !.loaded = tree.work]
<1>2. st \in Progress
  BY <1>1 DEF Progress
<1>3. proc' = [proc EXCEPT ![p] = st]
  BY <1>1 DEF Launch, Progress
<1> HIDE DEF st
<1>4. proc' \in [Launches -> Progress]
  BY <1>1, <1>2, <1>3
<1> QED
  BY <1>4 DEF Starts

LEMMA ProvenanceKind ==
  ASSUME TypeInv, NEW p \in Launches, TakeProvenance(p)
  PROVE  (Moves(p) \/ Stops(p)) /\ proc' \in [Launches -> Progress]
<1>1. At(p, "provenance") /\ UNCHANGED <<experiment, tree, changes, dir>>
  BY DEF TakeProvenance
<1>2. CASE Refuse(p)
  BY <1>1, <1>2, RefuseHalts, AtStands DEF Stops
<1>3. CASE Advance(p, [proc[p] EXCEPT !.taken = Source])
  <2>1. proc[p].next = 1 /\ proc[p] \in Progress /\ proc[p].file = None
    BY <1>1, NextIsFirst DEF AllPlaySteps, PlaySteps, Files
  <2>2. PICK st \in Progress : st = [proc[p] EXCEPT !.taken = Source]
    BY <2>1, SourceTyped DEF Progress
  <2>3. Passes(p, "provenance") /\ proc' \in [Launches -> Progress]
    BY <1>1, <1>3, <2>1, <2>2, AdvancePasses DEF Progress, FindStep
  <2> QED
    BY <1>1, <2>3 DEF Moves
<1> QED
  BY <1>2, <1>3 DEF TakeProvenance

(* A step that advances the launch and notes nothing *)
LEMMA PlainAdvance ==
  ASSUME TypeInv, experiment' = experiment, NEW p \in Launches,
         NEW s \in Steps \ (AllPlaySteps \cup {"provenance", "study", FindStep}),
         At(p, s), Advance(p, proc[p]), s \notin Files \/ Alone \/ proc[p].file = None
  PROVE  Passes(p, s) /\ proc' \in [Launches -> Progress]
<1>1. proc[p].next = 1 /\ proc[p] \in Progress /\ proc[p].file = None
  BY NextIsFirst
<1>2. PICK st \in Progress : st = proc[p]
  BY <1>1
<1> QED
  BY <1>1, <1>2, AdvancePasses

LEMMA MkdirKind ==
  ASSUME TypeInv, NEW p \in Launches, MakeDirectory(p)
  PROVE  (Makes(p) \/ Stops(p)) /\ proc' \in [Launches -> Progress]
<1>1. At(p, "mkdir") /\ UNCHANGED <<experiment, tree, changes>>
  BY DEF MakeDirectory
<1>2. CASE Refuse(p) /\ UNCHANGED dir
  BY <1>1, <1>2, RefuseHalts, AtStands DEF Stops
<1>3. CASE dir.made = None /\ Advance(p, proc[p]) /\ dir' = [dir EXCEPT !.made = p]
  <2>1. "mkdir" \in Steps \ (AllPlaySteps \cup {"provenance", "study", FindStep}) /\ "mkdir" \notin Files
    BY DEF AllPlaySteps, PlaySteps, FindStep, Files
  <2> QED
    BY <1>1, <1>3, <2>1, PlainAdvance DEF Makes
<1> QED
  BY <1>2, <1>3 DEF MakeDirectory

LEMMA VacantKind ==
  ASSUME TypeInv, NEW p \in Launches, FindVacant(p)
  PROVE  (Moves(p) \/ Stops(p)) /\ proc' \in [Launches -> Progress]
<1>1. At(p, "vacant") /\ UNCHANGED <<experiment, tree, changes, dir>>
  BY DEF FindVacant
<1>2. CASE Refuse(p)
  BY <1>1, <1>2, RefuseHalts, AtStands DEF Stops
<1>3. CASE Advance(p, proc[p])
  <2>1. "vacant" \in Steps \ (AllPlaySteps \cup {"provenance", "study", FindStep}) /\ "vacant" \notin Files
    BY DEF AllPlaySteps, PlaySteps, FindStep, Files
  <2> QED
    BY <1>1, <1>3, <2>1, PlainAdvance DEF Moves
<1> QED
  BY <1>2, <1>3 DEF FindVacant

LEMMA StatusKind ==
  ASSUME TypeInv, NEW p \in Launches, CheckStatus(p)
  PROVE  (Moves(p) \/ Stops(p)) /\ proc' \in [Launches -> Progress]
<1>1. At(p, "status") /\ UNCHANGED <<experiment, tree, changes, dir>>
  BY DEF CheckStatus
<1>2. CASE Refuse(p)
  BY <1>1, <1>2, RefuseHalts, AtStands DEF Stops
<1>3. CASE Completed(Where(p, "runs")) /\ Advance(p, proc[p])
  <2>1. "status" \in Steps \ (AllPlaySteps \cup {"provenance", "study", FindStep}) /\ "status" \notin Files
    BY DEF AllPlaySteps, PlaySteps, FindStep, Files
  <2> QED
    BY <1>1, <1>3, <2>1, PlainAdvance DEF Moves
<1> QED
  BY <1>2, <1>3 DEF CheckStatus, Where

LEMMA StudyKind ==
  ASSUME TypeInv, FilesInv, NEW p \in Launches, BeginStudy(p)
  PROVE  (Moves(p) \/ Stops(p)) /\ proc' \in [Launches -> Progress]
<1> DEFINE study == [commit |-> tree.head, dirty |-> Dirty, design |-> Studied]
<1>1. At(p, "study") /\ UNCHANGED <<experiment, tree, changes, dir>>
  BY DEF BeginStudy
<1>2. CASE Refuse(p)
  BY <1>1, <1>2, RefuseHalts, AtStands DEF Stops
<1>3. CASE Advance(p, [proc[p] EXCEPT !.study = study])
  <2>1. proc[p].next = 1 /\ proc[p] \in Progress /\ proc[p].file = None
    BY <1>1, NextIsFirst DEF AllPlaySteps, PlaySteps, Files
  <2>2. Studied \in Designs
    BY <1>1, SourceTyped, InputsTyped DEF Alone, Studied
  <2>3. study \in Studies
    BY <2>2 DEF Studies, TypeInv, Dirty
  <2> HIDE DEF study
  <2>4. PICK st \in Progress : st = [proc[p] EXCEPT !.study = study]
    BY <2>1, <2>3 DEF Progress
  <2>5. Passes(p, "study") /\ proc' \in [Launches -> Progress]
    BY <1>1, <1>3, <2>1, <2>4, AdvancePasses DEF Progress, FindStep
  <2>6. proc'[p].study = study
    BY <1>1, <1>3, <2>1, <2>4, <2>5 DEF Advance, TypeInv, ProcInv, Progress
  <2> QED
    BY <1>1, <2>3, <2>5, <2>6 DEF Moves
<1> QED
  BY <1>2, <1>3 DEF BeginStudy

LEMMA FileSteps == Files \subseteq Steps \ (AllPlaySteps \cup {"provenance", "mkdir", "study", FindStep})
BY DEF Files, AllPlaySteps, PlaySteps, FindStep

LEMMA WriteKind ==
  ASSUME TypeInv, NEW p \in Launches, NEW n \in Files, WriteFile(p, n)
  PROVE  Writes(p, n) /\ proc' \in [Launches -> Progress]
BY PlainAdvance, FileSteps DEF WriteFile, Writes, Alone

LEMMA PreflightKind ==
  ASSUME TypeInv, NEW p \in Launches, NEW s \in {"source-preflight", "report-preflight"}, Preflight(p, s)
  PROVE  (Moves(p) \/ Stops(p)) /\ proc' \in [Launches -> Progress]
<1>1. At(p, s) /\ UNCHANGED <<experiment, tree, changes, dir>>
  BY DEF Preflight
<1>2. CASE Refuse(p)
  BY <1>1, <1>2, RefuseHalts, AtStands DEF Stops
<1>3. CASE Advance(p, proc[p])
  <2>1. s \in Steps \ (AllPlaySteps \cup {"provenance", "study", FindStep}) /\ s \notin Files
    BY DEF AllPlaySteps, PlaySteps, FindStep, Files
  <2> QED
    BY <1>1, <1>3, <2>1, PlainAdvance DEF Moves
<1> QED
  BY <1>2, <1>3 DEF Preflight

\* A launch that is about to open a file, or has it open, shares the directory.
LEMMA FileIsShared ==
  ASSUME TypeInv, NEW p \in Launches, proc[p].file # None
  PROVE  ~Alone
BY DEF TypeInv, ProcInv, ProcOf

LEMMA SharedKind ==
  ASSUME TypeInv, NEW p \in Launches, NEW n \in Files,
         LookForFile(p, n) \/ OpenFile(p, n) \/ FillFile(p, n)
  PROVE  (Shares(p, n) \/ Stops(p)) /\ proc' \in [Launches -> Progress]
<1>1. /\ At(p, n) /\ UNCHANGED <<experiment, tree, changes>>
      /\ proc \in [Launches -> Progress] /\ proc[p] \in Progress
      /\ None # "absent" /\ None # "open"
  BY NoneAssumption DEF LookForFile, OpenFile, FillFile, TypeInv, ProcInv
<1>2. ~Alone
  BY <1>1, FileIsShared DEF LookForFile, OpenFile, FillFile, Alone
<1>3. ASSUME NEW x \in {"absent", "open"}, proc' = [proc EXCEPT ![p].file = x]
      PROVE  Notes(p, x) /\ proc' \in [Launches -> Progress]
  <2>1. [proc[p] EXCEPT !.file = x] \in Progress
    BY <1>1 DEF Progress
  <2> QED
    BY <1>1, <1>3, <2>1 DEF Notes, OthersStay, Stays
<1>4. CASE LookForFile(p, n)
  <2>1. CASE Advance(p, proc[p]) /\ dir[n] # None
    BY <1>1, <1>2, <1>4, <2>1, PlainAdvance, FileSteps DEF LookForFile, Shares, Skips
  <2>2. CASE proc' = [proc EXCEPT ![p].file = "absent"]
    BY <1>1, <1>2, <1>3, <1>4, <2>2 DEF LookForFile, Shares, Looks
  <2> QED
    BY <1>4, <2>1, <2>2 DEF LookForFile
<1>5. CASE OpenFile(p, n)
  <2>1. CASE Refuse(p) /\ UNCHANGED dir
    BY <1>1, <2>1, RefuseHalts, AtStands DEF Stops
  <2>2. CASE dir[n] = None /\ dir' = [dir EXCEPT ![n] = Begun(p)] /\ proc' = [proc EXCEPT ![p].file = "open"]
    BY <1>1, <1>2, <1>3, <1>5, <2>2 DEF OpenFile, Shares, Begins
  <2> QED
    BY <1>5, <2>1, <2>2 DEF OpenFile
<1>6. CASE FillFile(p, n)
  <2>1. proc[p].next = 1
    BY <1>1, NextIsFirst, FileSteps
  <2>2. PICK st \in Progress : st = [proc[p] EXCEPT !.file = None]
    BY <1>1 DEF Progress
  <2>3. n \notin {"provenance", "study", FindStep}
    BY FileSteps
  <2>4. Passes(p, n) /\ proc' \in [Launches -> Progress]
    BY <1>1, <1>6, <2>1, <2>2, <2>3, AdvancePasses DEF FillFile, Progress
  <2> QED
    BY <1>1, <1>2, <1>6, <2>4 DEF FillFile, Shares, Fills
<1> QED
  BY <1>4, <1>5, <1>6

LEMMA BranchKind ==
  ASSUME TypeInv, NEW p \in Launches, BranchOff(p)
  PROVE  (Writes(p, "branches") \/ Stops(p)) /\ proc' \in [Launches -> Progress]
<1>1. At(p, "branches") /\ UNCHANGED <<experiment, tree, changes>> /\ "branches" \in Files
  BY DEF BranchOff, Files
<1>2. CASE Refuse(p) /\ UNCHANGED dir
  BY <1>1, <1>2, RefuseHalts, AtStands DEF Stops
<1>3. CASE Advance(p, proc[p]) /\ dir' = [dir EXCEPT !.branches = Entry(p, "branches")]
  <2>1. Alone
    <3>1. experiment = "graph" => "branches" \notin {ScriptOf(p)[i] : i \in DOMAIN ScriptOf(p)}
      BY DEF ScriptOf, Script, GraphMain, GraphExecute, GraphReport
    <3>2. Step(p) = "branches" /\ proc[p].step \in DOMAIN ScriptOf(p)
      BY <1>1, PlaceTypes DEF At
    <3> QED
      BY <3>1, <3>2 DEF Step, ScriptOf, Alone
  <2>2. Passes(p, "branches") /\ proc' \in [Launches -> Progress]
    BY <1>1, <1>3, <2>1, PlainAdvance, FileSteps
  <2> QED
    BY <1>1, <1>3, <2>1, <2>2 DEF Writes
<1> QED
  BY <1>2, <1>3 DEF BranchOff

(* A step that plays has done what it needs to know where. *)
RootsKnown ==
  \A p \in Launches : \A s \in AllPlaySteps : Done(p, s) \/ Stands(p, s) =>
    /\ Where(p, s) \in Areas
    /\ Alone => s \in PlaySteps(Where(p, s))
    /\ ~Alone => s = "runs" /\ Where(p, s) = proc[p].study.design /\ Where(p, s) \in Designs

LEMMA RootsAreKnown == TypeInv => RootsKnown
<1> SUFFICES ASSUME TypeInv, NEW p \in Launches, NEW s \in AllPlaySteps, Done(p, s) \/ Stands(p, s)
    PROVE  /\ Where(p, s) \in Areas
           /\ Alone => s \in PlaySteps(Where(p, s))
           /\ ~Alone => s = "runs" /\ Where(p, s) = proc[p].study.design /\ Where(p, s) \in Designs
  BY DEF RootsKnown
<1>1. s \in {"episodes", "runs", "profiles", "fixed", "probes"}
  BY DEF AllPlaySteps, PlaySteps
<1>2. CASE Alone
  BY <1>1, <1>2, NamesApart DEF Where, RootOf, Alone, PlaySteps
<1>3. CASE ~Alone
  <2>1. \E i \in DOMAIN ScriptOf(p) : ScriptOf(p)[i] = s
    BY PlaceTypes DEF Done, Stands, Step, ScriptOf
  <2>2. s = "runs"
    BY <1>1, <1>3, <2>1, PlaceTypes DEF WellMade, Belongs, Alone, RecordsSourceLast
  <2>3. Before(ScriptOf(p), "study", s)
    BY <2>2, OrderOf DEF Ordered
  <2>4. proc[p].study \in Studies
    BY <2>3, InOrder DEF TypeInv, ProcInv, ProcOf
  <2> QED
    BY <1>3, <2>2, <2>4, NamesApart DEF Where, RootOf, Alone, Studies
<1> QED
  BY <1>2, <1>3

(* What a launch that plays an episode stands at *)
LEMMA PlayingPlace ==
  ASSUME TypeInv, NEW p \in Launches, Playing(p)
  PROVE  /\ At(p, Step(p)) /\ Stands(p, Step(p)) /\ Running(p)
         /\ Area(p) = Where(p, Step(p)) /\ Area(p) \in Areas
         /\ Alone => Step(p) \in PlaySteps(Area(p))
         /\ Step(p) \in AllPlaySteps /\ Cell(p) \in Cells
         /\ Step(p) \notin {"provenance", "study", FindStep}
         /\ Step(p) \notin Files /\ proc[p].file = None
<1>1. PICK s \in {"episodes", "runs", "profiles", "fixed", "probes"} : At(p, s)
  BY DEF Playing
<1>2. s = Step(p) /\ Stands(p, s) /\ Running(p) /\ s \in AllPlaySteps
  BY <1>1, AtStands DEF At, AllPlaySteps, PlaySteps
<1>3. proc[p] \in Progress /\ ProcOf(p) /\ s \notin Files
  BY DEF TypeInv, ProcInv, Files
<1>4. Area(p) = Where(p, Step(p))
  BY DEF Area, Where
<1>5. proc[p].file = None
  BY <1>2, <1>3 DEF ProcOf, Stands
<1> QED
  BY <1>1, <1>2, <1>3, <1>4, <1>5, RootsAreKnown DEF RootsKnown, Cell, Progress, FindStep

LEMMA OpenKind ==
  ASSUME TypeInv, NEW p \in Launches, OpenRun(p)
  PROVE  (Opens(p) \/ Stops(p)) /\ proc' \in [Launches -> Progress]
<1>1. CASE dir[Area(p)][Cell(p)] = None
  BY <1>1 DEF OpenRun, Opens, TypeInv, ProcInv
<1>2. CASE dir[Area(p)][Cell(p)] # None
  BY <1>2, RefuseHalts, PlayingPlace DEF OpenRun, Stops
<1> QED
  BY <1>1, <1>2

LEMMA PlayKind ==
  ASSUME TypeInv, NEW p \in Launches, NEW outcome \in {"completed", "failed"}, FileRun(p, outcome)
  PROVE  (Plays(p) \/ Stops(p)) /\ proc' \in [Launches -> Progress]
<1>1. /\ Playing(p) /\ InRun(p) /\ UNCHANGED <<experiment, tree, changes>>
      /\ proc \in [Launches -> Progress] /\ proc[p] \in Progress
  BY DEF FileRun, TypeInv, ProcInv
<1>2. CASE experiment = "atlas" /\ outcome = "failed"
  BY <1>1, <1>2, RefuseHalts, PlayingPlace DEF FileRun, Stops, GivenBack
<1>3. CASE ~(experiment = "atlas" /\ outcome = "failed")
  <2>1. /\ NextCell(p) /\ dir' = [dir EXCEPT ![Area(p)][Cell(p)].stage = outcome]
        /\ experiment = "atlas" => outcome = "completed"
    BY <1>3 DEF FileRun
  <2>2. CASE Cell(p) = NumCells
    <3>1. PICK s \in AllPlaySteps : s = Step(p)
      BY <1>1, PlayingPlace
    <3>2. PICK st \in Progress : st = [proc[p] EXCEPT !.next = 1]
      <4>1. 1 \in Cells
        BY ExecutionAssumption DEF Cells
      <4>2. [proc[p] EXCEPT !.next = 1] \in Progress
        BY <1>1, <4>1 DEF Progress
      <4> QED
        BY <4>2
    <3>3. Passes(p, s) /\ proc' \in [Launches -> Progress]
      <4>1. Advance(p, st)
        BY <2>1, <2>2, <3>2 DEF NextCell
      <4> QED
        BY <1>1, <3>1, <3>2, <4>1, PlayingPlace, AdvancePasses DEF Progress
    <3> QED
      BY <1>1, <2>1, <2>2, <3>1, <3>3 DEF Plays
  <2>3. CASE Cell(p) # NumCells
    <3>1. proc' = [proc EXCEPT ![p] = [proc[p] EXCEPT !.next = @ + 1]]
      BY <1>1, <2>1, <2>3 DEF NextCell
    <3>2. [proc[p] EXCEPT !.next = @ + 1] \in Progress
      BY <1>1, <2>3, ExecutionAssumption DEF Progress, Cells, Cell
    <3>3. proc' \in [Launches -> Progress] /\ OthersStay(p) /\ proc'[p] = [proc[p] EXCEPT !.next = @ + 1]
      BY <1>1, <3>1, <3>2 DEF OthersStay, Stays
    <3> QED
      BY <1>1, <2>1, <2>3, <3>3 DEF Plays
  <2> QED
    BY <2>2, <2>3
<1> QED
  BY <1>2, <1>3


(* The step that finds the evidence: what is found is the result. *)
LEMMA FindKind ==
  ASSUME TypeInv, NEW p \in Launches, Collect(p) \/ Compare(p)
  PROVE  (Moves(p) \/ Stops(p)) /\ proc' \in [Launches -> Progress]
<1>1. /\ UNCHANGED <<experiment, tree, changes, dir>>
      /\ At(p, "collect") \/ At(p, "compare")
      /\ Refuse(p) \/ Advance(p, [proc[p] EXCEPT !.result = Result(p)])
  BY DEF Collect, Compare
<1>2. At(p, FindStep) /\ Running(p)
  <2>1. Step(p) \in {"collect", "compare"} /\ At(p, Step(p)) /\ Running(p)
    BY <1>1, AtStands DEF At
  <2>2. proc[p].step \in DOMAIN ScriptOf(p) /\ Step(p) = ScriptOf(p)[proc[p].step]
    BY <2>1, PlaceTypes DEF Running, Step, ScriptOf
  <2> QED
    BY <2>1, <2>2, PlaceTypes DEF WellMade, Belongs, FindStep
<1>3. CASE Refuse(p)
  BY <1>1, <1>2, <1>3, RefuseHalts DEF Stops
<1>4. CASE Advance(p, [proc[p] EXCEPT !.result = Result(p)])
  <2>1. proc[p].next = 1 /\ proc[p] \in Progress /\ proc[p].file = None
    BY <1>2, NextIsFirst DEF AllPlaySteps, PlaySteps, FindStep, Files
  <2>2. PICK st \in Progress : st = [proc[p] EXCEPT !.result = Result(p)]
    BY <1>2, <2>1, ResultTyped DEF Progress, Running
  <2>3. PICK s \in {"collect", "compare"} : s = FindStep
    BY DEF FindStep
  <2>4. Passes(p, s) /\ proc' \in [Launches -> Progress]
    BY <1>1, <1>2, <1>4, <2>1, <2>2, <2>3, AdvancePasses DEF Progress
  <2>5. ~Refuse(p)
    <3>1. proc'[p].end \in {"done", None}
      BY <2>4 DEF Passes
    <3> QED
      BY <3>1, NoneAssumption DEF Refuse, TypeInv, ProcInv, Progress
  <2>6. s = "collect" => Collectable(p)
    BY <1>2, <2>3, <2>5, Collect(p) \/ Compare(p) DEF Collect, Compare, At
  <2>7. s = "compare" => DesignOf[tree.work] = proc[p].taken.design
    BY <1>2, <2>3, <2>5, Collect(p) \/ Compare(p) DEF Collect, Compare, At
  <2> QED
    BY <1>1, <2>3, <2>4, <2>6, <2>7 DEF Moves
<1> QED
  BY <1>1, <1>3, <1>4

LEMMA RetainKind ==
  ASSUME TypeInv, NEW p \in Launches, RetainFailure(p)
  PROVE  proc' \in [Launches -> Progress] /\ Halts(p)
<1>1. proc[p].end = "failing" /\ proc[p].step > 0 /\ proc[p] \in Progress /\ proc \in [Launches -> Progress]
  BY DEF RetainFailure, TypeInv, ProcInv, ProcOf
<1>2. proc' = [proc EXCEPT ![p].end = "raised"] /\ experiment' = experiment
  BY DEF RetainFailure
<1>3. [proc[p] EXCEPT !.end = "raised"] \in Progress
  BY <1>1 DEF Progress, Ends
<1>4. proc' \in [Launches -> Progress] /\ proc'[p] = [proc[p] EXCEPT !.end = "raised"] /\ OthersStay(p)
  BY <1>1, <1>2, <1>3 DEF OthersStay, Stays
<1> QED
  BY <1>1, <1>4, NoneAssumption DEF Halts, Progress

LEMMA FaultKind ==
  ASSUME TypeInv, NEW p \in Launches, Raise(p) \/ RaiseAgain(p) \/ Kill(p)
  PROVE  Stops(p) /\ proc' \in [Launches -> Progress]
<1>1. CASE Raise(p)
  BY <1>1, RefuseHalts DEF Raise, Stops
<1>2. ASSUME RaiseAgain(p) \/ Kill(p) PROVE Stops(p) /\ proc' \in [Launches -> Progress]
  <2>1. proc[p].end \in {None, "failing"} /\ proc[p].step > 0 /\ proc[p] \in Progress
        /\ proc \in [Launches -> Progress]
    BY <1>2 DEF Kill, RaiseAgain, Running, TypeInv, ProcInv, ProcOf, Catches
  <2>2. PICK end \in {"raised", "killed"} : proc' = [proc EXCEPT ![p].end = end]
    BY <1>2 DEF Kill, RaiseAgain
  <2>3. [proc[p] EXCEPT !.end = end] \in Progress
    BY <2>1 DEF Progress, Ends
  <2>4. proc' \in [Launches -> Progress] /\ proc'[p].end = end /\ proc'[p] = [proc[p] EXCEPT !.end = end]
    BY <2>1, <2>2, <2>3 DEF Progress
  <2>5. OthersStay(p)
    BY <1>2, <2>1, <2>2 DEF OthersStay, Stays, Kill, RaiseAgain
  <2> QED
    BY <1>2, <2>1, <2>4, <2>5, NoneAssumption DEF Kill, RaiseAgain, Stops, Halts
<1> QED
  BY <1>1, <1>2

(* Every step is quiet, or a launch's and of one of these kinds. *)
LEMMA StepKinds ==
  ASSUME TypeInv, FilesInv, [Next]_vars
  PROVE  /\ proc' \in [Launches -> Progress]
         /\ AnyStep
<1>1. tree \in [work : Versions, head : Versions] /\ proc \in [Launches -> Progress]
  BY DEF TypeInv, ProcInv
<1>2. CASE UNCHANGED vars
  BY <1>1, <1>2 DEF AnyStep, Quiet, vars
<1>3. ASSUME NEW v \in Versions, Edit(v) PROVE Quiet
  BY <1>1, <1>3 DEF Edit, Change, Quiet
<1>4. CASE Commit
  BY <1>1, <1>4 DEF Commit, Change, AnyStep, Quiet
<1>5. ASSUME NEW p \in Launches, Work(p)
      PROVE  proc' \in [Launches -> Progress] /\ Kind(p)
  <2>1. ASSUME NEW kind \in Kinds, Launch(p, kind) PROVE proc' \in [Launches -> Progress] /\ Kind(p)
    BY <2>1, StartKind DEF Kind
  <2>2. ASSUME NEW n \in Files, WriteFile(p, n) PROVE proc' \in [Launches -> Progress] /\ Kind(p)
    BY <2>2, WriteKind DEF Kind
  <2>3. CASE BranchOff(p)
    BY <2>3, BranchKind DEF Kind, Files
  <2>4. ASSUME NEW outcome \in {"completed", "failed"}, FileRun(p, outcome)
        PROVE  proc' \in [Launches -> Progress] /\ Kind(p)
    BY <2>4, PlayKind DEF Kind
  <2>5. CASE TakeProvenance(p) \/ FindVacant(p) \/ BeginStudy(p) \/ CheckStatus(p)
    BY <2>5, ProvenanceKind, VacantKind, StudyKind, StatusKind DEF Kind
  <2>6. CASE MakeDirectory(p) \/ OpenRun(p) \/ Collect(p) \/ Compare(p) \/ RetainFailure(p)
    BY <2>6, MkdirKind, OpenKind, FindKind, RetainKind DEF Kind
  <2>7. ASSUME NEW n \in Files, LookForFile(p, n) \/ OpenFile(p, n) \/ FillFile(p, n)
        PROVE  proc' \in [Launches -> Progress] /\ Kind(p)
    BY <2>7, SharedKind DEF Kind
  <2>8. ASSUME NEW s \in {"source-preflight", "report-preflight"}, Preflight(p, s)
        PROVE  proc' \in [Launches -> Progress] /\ Kind(p)
    BY <2>8, PreflightKind DEF Kind
  <2> QED
    BY <1>5, <2>1, <2>2, <2>3, <2>4, <2>5, <2>6, <2>7, <2>8 DEF Work
<1>6. ASSUME NEW p \in Launches, Raise(p) \/ RaiseAgain(p) \/ Kill(p)
      PROVE  proc' \in [Launches -> Progress] /\ Kind(p)
  BY <1>6, FaultKind DEF Kind
<1> QED
  BY <1>1, <1>2, <1>3, <1>4, <1>5, <1>6 DEF Next, Quiet, AnyStep

-----------------------------------------------------------------------------
(* What the steps do to the directory *)

\* Past the making of the directory, a launch is the one that made it.
LEMMA Author ==
  ASSUME TypeInv, MadeInv, Alone, NEW p \in Launches, NEW s, Stands(p, s) \/ Done(p, s),
         s \notin {"provenance", "mkdir"}, s \in Steps
  PROVE  dir.made = p
<1>1. Before(ScriptOf(p), "mkdir", s)
  BY OrderOf DEF Ordered
<1> QED
  BY <1>1, InOrder DEF MadeInv

(* What changes of a directory when an entry does, or a run *)
LEMMA EntryChange ==
  ASSUME TypeInv, NEW n \in Files \cup {"failure", "made"}, NEW v, dir' = [dir EXCEPT ![n] = v]
  PROVE  /\ dir' = [m \in Names |-> dir'[m]] /\ dir'[n] = v
         /\ \A m \in Files \cup {"failure", "made"} : m # n => dir'[m] = dir[m]
         /\ \A area \in Areas : dir'[area] = dir[area]
BY NamesApart DEF TypeInv, DirInv, Names

RunSet(area, c, run) == dir' = [dir EXCEPT ![area][c] = run]

LEMMA RunChange ==
  ASSUME TypeInv, NEW area \in Areas, NEW c \in Cells, NEW run, RunSet(area, c, run)
  PROVE  /\ dir' = [m \in Names |-> dir'[m]]
         /\ \A m \in Files \cup {"failure", "made"} : dir'[m] = dir[m]
         /\ dir'[area] = [dir[area] EXCEPT ![c] = run] /\ dir'[area][c] = run
         /\ \A a \in Areas, d \in Cells : a # area \/ d # c => dir'[a][d] = dir[a][d]
<1>1. /\ dir = [n \in Names |-> dir[n]] /\ area \in Names
      /\ dir[area] \in [Cells -> Manifests \cup {None}]
  BY DEF TypeInv, DirInv, Names
<1>2. /\ dir' = [m \in Names |-> dir'[m]] /\ \A m \in Names \ {area} : dir'[m] = dir[m]
      /\ dir'[area] = [dir[area] EXCEPT ![c] = run]
  BY <1>1 DEF RunSet
<1>3. dir'[area][c] = run /\ \A d \in Cells \ {c} : dir'[area][d] = dir[area][d]
  BY <1>1, <1>2
<1> QED
  BY <1>2, <1>3, NamesApart DEF Names

\* What one launch writes in a directory of its own was not there, ...
LEMMA WritesFresh ==
  ASSUME TypeInv, MadeInv, FilesInv, NEW p \in Launches, NEW n \in Files, Writes(p, n)
  PROVE  dir[n] = None
<1>1. At(p, n) /\ Stands(p, n) /\ ~Done(p, n) /\ proc[p].end = None /\ Alone
  BY AtStands, StandingIsNotDone DEF Writes, Passes, At
<1>2. dir.made = p
  BY <1>1, Author, FileSteps
<1> QED
  BY <1>1, <1>2 DEF FilesInv

\* ... and what it fills in a shared one it has begun itself.
LEMMA FillsBegun ==
  ASSUME TypeInv, FilesInv, NEW p \in Launches, NEW n \in Files, Fills(p, n)
  PROVE  dir[n] # None /\ dir[n].by = p /\ ~Whole(n)
BY AtStands DEF FilesInv, SharedInv, Fills, Passes

LEMMA OnlyOneFails ==
  ASSUME TypeInv, MadeInv, FailInv, NEW p \in Launches, proc[p].end = "failing"
  PROVE  dir.failure = None /\ experiment = "audit" /\ dir.made = p
<1>1. proc[p].step > 0 /\ Catches(p) /\ Step(p) \in Steps
  BY PlaceTypes DEF TypeInv, ProcInv, ProcOf
<1>2. experiment = "audit" /\ Stands(p, Step(p)) /\ Step(p) \notin {"provenance", "mkdir"}
  BY <1>1 DEF Catches, Stands
<1>3. dir.made = p
  BY <1>1, <1>2, Author DEF Alone
<1> QED
  BY <1>2, <1>3 DEF FailInv

Kept ==
  /\ \A n \in Files : Whole(n) => dir'[n] = dir[n]
  /\ dir.failure # None => dir'.failure = dir.failure
  /\ \A area \in Areas : \A c \in Cells : Finished(area, c) => dir'[area][c] = dir[area][c]
  /\ dir.made # None => dir'.made = dir.made

LEMMA EvidenceKept ==
  ASSUME TypeInv, MadeInv, FilesInv, FailInv, AnyStep
  PROVE  Kept
<1>1. CASE UNCHANGED dir
  BY <1>1 DEF Kept
<1>2. ASSUME NEW p \in Launches, Makes(p) PROVE Kept
  BY <1>2, EntryChange, NamesApart DEF Makes, Kept, Whole, Finished
\* A step on a file that is not whole
<1>3. ASSUME NEW n \in Files, ~Whole(n), NEW v, dir' = [dir EXCEPT ![n] = v] PROVE Kept
  <2>1. /\ \A m \in Files \cup {"failure", "made"} : m # n => dir'[m] = dir[m]
        /\ \A area \in Areas : dir'[area] = dir[area]
    BY <1>3, EntryChange
  <2> QED
    BY <1>3, <2>1, NamesApart DEF Kept, Finished
<1>4. ASSUME NEW p \in Launches, NEW n \in Files, Writes(p, n) \/ Shares(p, n) PROVE Kept
  <2>1. Writes(p, n) => dir[n] = None
    BY WritesFresh
  <2>2. Fills(p, n) => ~Whole(n)
    BY FillsBegun
  <2> QED
    BY <1>1, <1>3, <1>4, <2>1, <2>2 DEF Shares, Writes, Skips, Looks, Begins, Fills, Whole
<1>5. ASSUME NEW p \in Launches, RetainFailure(p) \/ TornRecord(p) PROVE Kept
  <2>1. dir.failure = None
    BY <1>5, OnlyOneFails DEF RetainFailure, TornRecord
  <2>2. \E v : dir' = [dir EXCEPT !["failure"] = v]
    BY <1>5 DEF RetainFailure, TornRecord
  <2>3. /\ \A m \in Files \cup {"failure", "made"} : m # "failure" => dir'[m] = dir[m]
        /\ \A area \in Areas : dir'[area] = dir[area]
    BY <2>2, EntryChange
  <2> QED
    BY <2>1, <2>3, NamesApart DEF Kept, Finished
<1>6. ASSUME NEW p \in Launches, Torn(p) PROVE Kept
  BY <1>3, <1>6 DEF Torn, Writing, Whole
\* A step on a run that is not finished
<1>7. ASSUME NEW area \in Areas, NEW c \in Cells, ~Finished(area, c), NEW run,
             RunSet(area, c, run)
      PROVE  Kept
  <2>1. /\ \A m \in Files \cup {"failure", "made"} : dir'[m] = dir[m]
        /\ \A a \in Areas, d \in Cells : a # area \/ d # c => dir'[a][d] = dir[a][d]
    BY <1>7, RunChange
  <2> QED
    BY <1>7, <2>1 DEF Kept
<1>8. ASSUME NEW p \in Launches, Playing(p), dir[Area(p)][Cell(p)] = None \/ InRun(p),
             \/ \E run : dir' = [dir EXCEPT ![Area(p)][Cell(p)] = run]
             \/ \E outcome : dir' = [dir EXCEPT ![Area(p)][Cell(p)].stage = outcome]
      PROVE  Kept
  <2>1. PICK area \in Areas, c \in Cells : area = Area(p) /\ c = Cell(p)
    BY <1>8, PlayingPlace
  <2>2. ~Finished(area, c)
    BY <1>8, <2>1 DEF InRun, Finished
  <2>3. \E run : RunSet(area, c, run)
    BY <1>8, <2>1 DEF RunSet
  <2> QED
    BY <1>7, <2>2, <2>3
<1>9. ASSUME NEW p \in Launches, Opens(p) \/ Plays(p) \/ GivenBack(p) PROVE Kept
  BY <1>8, <1>9 DEF Opens, Plays, GivenBack
<1>10. ASSUME NEW p \in Launches, Kind(p) PROVE Kept
  BY <1>1, <1>2, <1>4, <1>5, <1>6, <1>9, <1>10 DEF Kind, Starts, Launch, Moves, Stops
<1> QED
  BY <1>1, <1>10 DEF AnyStep, Quiet

(* What is kept, said of each thing found *)
LEMMA KeptFacts ==
  ASSUME TypeInv, Kept, experiment' = experiment,
         changes' = changes + 1 \/ changes' = changes
  PROVE  /\ \A n \in Files : Whole(n) => Whole(n)' /\ dir'[n] = dir[n]
         /\ \A area \in Areas : \A c \in Cells :
              Finished(area, c) => Finished(area, c)' /\ dir'[area][c] = dir[area][c]
         /\ \A area \in Areas : Completed(area) => Completed(area)'
         /\ \A design \in Designs : Evidence(design) => Evidence(design)'
<1>1. \A n \in Files : Whole(n) => Whole(n)' /\ dir'[n] = dir[n]
  BY DEF Kept, Whole
<1>2. \A area \in Areas : \A c \in Cells :
        Finished(area, c) => Finished(area, c)' /\ dir'[area][c] = dir[area][c]
  BY DEF Kept, Finished
<1>3. \A area \in Areas : \A c \in Cells :
        Completed(area) => Finished(area, c) /\ dir'[area][c] = dir[area][c]
  BY <1>2 DEF Completed, Finished
<1>4. \A area \in Areas : Completed(area) => Completed(area)'
  BY <1>3 DEF Completed, Finished
<1>5. ASSUME NEW design \in Designs, Evidence(design) PROVE Evidence(design)'
  <2>1. PICK root \in Areas : root = RootOf(design) /\ (experiment # "graph" => root = "runs")
                             /\ (experiment = "graph" => root = design)
    BY NamesApart DEF RootOf
  <2>2. Completed(root) /\ Completed(root)' /\ \A c \in Cells : dir'[root][c] = dir[root][c]
    BY <1>3, <1>4, <1>5, <2>1 DEF Evidence
  <2>3. Completed("fixed") => /\ Completed("fixed")'
                              /\ \A c \in Cells : dir'.fixed[c] = dir.fixed[c]
    BY <1>3, <1>4, NamesApart
  <2>4. \A n \in {"inputs", "source", "branches", "checks"} : Whole(n) => Whole(n)' /\ dir'[n] = dir[n]
    BY <1>1 DEF Files
  <2>5. experiment = "audit" /\ AuditRests(design) => AuditRests(design)'
    BY <2>1, <2>2, <2>4 DEF AuditRests
  <2>6. experiment = "graph" /\ GraphRests(design) => GraphRests(design)'
    BY <2>1, <2>2, <2>4 DEF GraphRests
  <2>7. experiment = "atlas" /\ AtlasRests(design) => AtlasRests(design)'
    <3>1. changes \in Nat
      BY DEF TypeInv
    <3>2. changes' < 2 => changes < 2
      BY <3>1
    <3> QED
      BY <2>1, <2>2, <2>3, <3>2 DEF AtlasRests
  <2>8. experiment # "graph" /\ StudyRests => StudyRests'
    BY <2>1, <2>2, <2>3, <2>4 DEF StudyRests
  <2>9. RootOf(design)' = RootOf(design)
    BY DEF RootOf
  <2> QED
    BY <1>5, <2>1, <2>2, <2>5, <2>6, <2>7, <2>8, <2>9 DEF Evidence
<1> QED
  BY <1>1, <1>2, <1>4, <1>5

-----------------------------------------------------------------------------
(* The invariants are kept *)

LEMMA ProcKept ==
  ASSUME TypeInv, proc' \in [Launches -> Progress], AnyStep
  PROVE  ProcInv'
<1> SUFFICES ASSUME NEW q \in Launches PROVE ProcOf(q)'
  BY DEF ProcInv
<1>1. ProcOf(q) /\ proc[q] \in Progress /\ tree.work \in Versions
  BY DEF TypeInv, ProcInv
<1>2. ASSUME Stays(q), experiment' = experiment PROVE ProcOf(q)'
  BY <1>1, <1>2, StayingPlace DEF ProcOf, Stays, Catches, FindStep, Alone
<1>3. CASE Starts(q)
  <2>1. /\ proc[q].step = 0 /\ experiment' = experiment
        /\ proc'[q].step = 1 /\ proc'[q].kind \in Kinds /\ proc'[q].loaded = tree.work
        /\ proc'[q].next = proc[q].next /\ proc'[q].end = proc[q].end
        /\ proc'[q].kind = "record" \/ experiment = "graph"
        /\ proc'[q].file = proc[q].file
    BY <1>1, <1>3 DEF Starts, Launch, TypeInv, ProcInv, Progress
  <2>2. /\ proc'[q].end = None /\ proc'[q].next = 1 /\ None # "done" /\ None # "failing"
        /\ proc'[q].file = None
    BY <1>1, <2>1, NoneAssumption DEF ProcOf, Stands
  <2>3. WellMade(Script(proc'[q].kind)) /\ ScriptOf(q)' = Script(proc'[q].kind)
    BY <2>1, ScriptsWellMade DEF TypeInv, ScriptOf, Script, GraphMain
  <2>4. \A s : ~Done(q, s)'
    <3>1. DOMAIN ScriptOf(q)' \subseteq Nat \ {0} /\ Behind(q)' = 1
      BY <2>1, <2>2, <2>3 DEF WellMade, Behind
    <3> QED
      BY <3>1 DEF Done
  <2>5. ~Done(q, FindStep)' /\ proc'[q].result = None
    <3>1. PICK f : f = FindStep
      OBVIOUS
    <3>2. ~Done(q, f)
      BY <2>1, <2>2, PlaceTypes DEF Done, Behind
    <3>3. proc[q].result = None
      BY <1>1, <3>1, <3>2 DEF ProcOf
    <3>4. proc'[q].result = None /\ FindStep' = FindStep
      BY <1>1, <1>3, <2>1, <3>3 DEF Starts, Launch, TypeInv, ProcInv, Progress, FindStep
    <3> QED
      BY <2>4, <3>1, <3>4
  <2> QED
    BY <1>1, <2>1, <2>2, <2>3, <2>4, <2>5 DEF ProcOf, WellMade
<1>4. ASSUME NEW s, Passes(q, s), s = "study" => proc'[q].study \in Studies PROVE ProcOf(q)'
  <2>1. /\ \A t : Done(q, t)' <=> Done(q, t) \/ t = s
        /\ ScriptOf(q)' = ScriptOf(q) /\ Stands(q, s)
    BY <1>4, PassingPlace
  <2>2. /\ proc[q].step \in 1 .. Len(ScriptOf(q)) /\ Len(ScriptOf(q)) \in Nat
        /\ None # "failing" /\ None # "done"
    BY <2>1, PlaceTypes, NoneAssumption DEF WellMade, Stands
  <2>3. /\ proc'[q].step \in 1 .. Len(ScriptOf(q))
        /\ proc'[q].end = "done" => proc'[q].step = Len(ScriptOf(q))
        /\ proc'[q].end # "failing"
    BY <1>4, <2>2 DEF Passes
  <2>4. Source # None /\ Result(q) # None
    BY <2>2, SourceTyped, ResultTyped, NoneAssumption
  <2>5. FindStep' = FindStep /\ experiment' = experiment
    BY <1>4 DEF Passes, OthersStay, FindStep
  <2>6. Done(q, "provenance")' => proc'[q].taken # None
    BY <1>1, <1>4, <2>1, <2>4 DEF ProcOf, Passes
  <2>7. Done(q, "study")' => proc'[q].study \in Studies
    BY <1>1, <1>4, <2>1 DEF ProcOf, Passes
  <2>8. Done(q, FindStep)' <=> proc'[q].result # None
    <3>1. PICK f : f = FindStep
      BY DEF FindStep
    <3>2. Done(q, f)' <=> Done(q, f) \/ f = s
      BY <2>1
    <3> QED
      BY <1>1, <1>4, <2>4, <2>5, <3>1, <3>2 DEF ProcOf, Passes
  <2> QED
    BY <1>1, <1>4, <2>1, <2>2, <2>3, <2>5, <2>6, <2>7, <2>8 DEF ProcOf, Passes
<1>5. CASE Halts(q)
  BY <1>1, <1>5, HaltingPlace DEF ProcOf, Halts, OthersStay, Catches, FindStep, Progress, Alone
<1>6. ASSUME Playing(q), OthersStay(q), proc'[q] = [proc[q] EXCEPT !.next = @ + 1]
      PROVE  ProcOf(q)'
  <2>1. /\ experiment' = experiment /\ Stands(q, Step(q)) /\ Step(q) \in AllPlaySteps
        /\ proc'[q].kind = proc[q].kind /\ proc'[q].step = proc[q].step
        /\ proc'[q].end = proc[q].end /\ proc'[q].loaded = proc[q].loaded
        /\ proc'[q].taken = proc[q].taken /\ proc'[q].study = proc[q].study
        /\ proc'[q].result = proc[q].result /\ proc'[q].file = proc[q].file
    BY <1>1, <1>6, PlayingPlace DEF OthersStay, Progress
  <2>2. /\ ScriptOf(q)' = ScriptOf(q) /\ Step(q)' = Step(q)
        /\ \A s : Done(q, s)' <=> Done(q, s)
        /\ \A s : Stands(q, s)' <=> Stands(q, s)
    BY <2>1 DEF ScriptOf, Script, GraphMain, Step, Done, Behind, Stands
  <2> QED
    BY <1>1, <2>1, <2>2 DEF ProcOf, Catches, FindStep, Alone
<1>7. ASSUME NEW p \in Launches, Kind(p), p # q PROVE Stays(q) /\ experiment' = experiment
  <2>1. OthersStay(p) \/ UNCHANGED <<experiment, proc>>
    BY <1>7 DEF Kind, Starts, Launch, Moves, Makes, Writes, Shares, Skips, Looks, Begins, Fills,
           Opens, Plays, RetainFailure, Stops, Passes, Halts, Notes, OthersStay, Stays, TypeInv, ProcInv
  <2> QED
    BY <1>7, <2>1 DEF OthersStay, Stays
<1>8. ASSUME ~Alone, NEW n \in Files, At(q, n), NEW x, Notes(q, x) PROVE ProcOf(q)'
  <2>1. /\ ScriptOf(q)' = ScriptOf(q) /\ Step(q)' = Step(q) /\ Stands(q, n)'
        /\ \A s : (Done(q, s)' <=> Done(q, s)) /\ (Stands(q, s)' <=> Stands(q, s))
        /\ proc'[q].step = proc[q].step /\ proc'[q].kind = proc[q].kind
        /\ proc'[q].next = proc[q].next /\ proc'[q].taken = proc[q].taken
        /\ proc'[q].study = proc[q].study /\ proc'[q].result = proc[q].result
        /\ proc'[q].loaded = proc[q].loaded /\ proc'[q].end = proc[q].end
    BY <1>8, NotingPlace, AtStands
  <2>2. experiment' = experiment
    BY <1>8 DEF Notes, OthersStay
  <2> QED
    BY <1>1, <1>8, <2>1, <2>2 DEF ProcOf, Catches, FindStep, Alone
<1>9. CASE Kind(q)
  <2>1. CASE Moves(q)
    BY <1>4, <2>1 DEF Moves
  <2>2. CASE Makes(q)
    BY <1>4, <2>2 DEF Makes
  <2>3. ASSUME NEW n \in Files, Writes(q, n) PROVE ProcOf(q)'
    BY <1>4, <2>3, FileSteps DEF Writes
  <2>4. ASSUME NEW n \in Files, Shares(q, n) PROVE ProcOf(q)'
    BY <1>4, <1>8, <2>4, FileSteps DEF Shares, Skips, Looks, Begins, Fills
  <2>5. CASE Opens(q)
    BY <1>2, <2>5 DEF Opens, Stays
  <2>6. CASE Plays(q)
    <3>1. PICK s : s = Step(q) /\ s # "study"
      BY <2>6, PlayingPlace DEF Plays
    <3> QED
      BY <1>4, <1>6, <2>6, <3>1 DEF Plays
  <2>7. CASE RetainFailure(q) \/ Stops(q)
    BY <1>5, <2>7, RetainKind DEF Stops
  <2> QED
    BY <1>3, <1>9, <2>1, <2>2, <2>3, <2>4, <2>5, <2>6, <2>7 DEF Kind
<1> QED
  BY <1>2, <1>7, <1>9 DEF AnyStep, Quiet, Stays

LEMMA EntryTyped ==
  ASSUME TypeInv, NEW p \in Launches, NEW n \in Files, At(p, n)
  PROVE  /\ Entry(p, n) \in Entries /\ Entry(p, n) # None
         /\ Entry(p, n).whole /\ Entry(p, n).by = p /\ Entry(p, n).of = Content(p, n)
         /\ n = "inputs" => Content(p, n) \in Designs
         /\ n = "source" => proc[p].taken # None
         /\ n \in {"results", "readout"} => proc[p].result # None
<1>1. /\ Stands(p, n) /\ Ordered(ScriptOf(p)) /\ proc[p] \in Progress /\ ProcOf(p)
      /\ tree.work \in Versions /\ proc[p].loaded \in Versions
  BY AtStands, OrderOf DEF TypeInv, ProcInv, ProcOf, At
<1>2. n = "inputs" => Content(p, n) \in Designs
  BY <1>1 DEF Content, Designs
<1>3. n = "source" => Done(p, "provenance")
  BY <1>1, InOrder DEF Ordered
<1>4. n \in {"results", "readout"} => Done(p, FindStep)
  <2>1. PICK f : f = FindStep
    OBVIOUS
  <2>2. Stands(p, "readout") => Done(p, "results")
    BY <1>1, InOrder DEF Ordered
  <2>3. Stands(p, "results") \/ Done(p, "results") => Done(p, f)
    BY <1>1, <2>1, InOrder DEF Ordered
  <2> QED
    BY <1>1, <2>1, <2>2, <2>3
<1>5. /\ n = "source" => proc[p].taken # None
      /\ n \in {"results", "readout"} => proc[p].result # None
  BY <1>1, <1>3, <1>4 DEF ProcOf
<1>6. Content(p, n) \in Designs \cup Sources \cup Results \cup {"as played", None}
  BY <1>1, <1>2, <1>5 DEF Content, Files, Progress
<1>7. Entry(p, n) \in Entries
  BY <1>6 DEF Entry, Entries
<1> QED
  BY <1>2, <1>5, <1>7, NoneAssumption DEF Entry

LEMMA ManifestTyped ==
  ASSUME TypeInv, FilesInv, PlayedInv, NEW p \in Launches, Playing(p)
  PROVE  /\ Manifest(p) \in Manifests /\ Manifest(p) # None
         /\ Manifest(p).by = p /\ Manifest(p).stage = "open"
         /\ Manifest(p).design = Basis(p).design
         /\ Step(p) = "fixed" =>
              /\ dir.runs[Cell(p)] # None /\ dir.runs[Cell(p)].stage = "completed"
              /\ Manifest(p).commit = dir.runs[Cell(p)].commit
              /\ Manifest(p).dirty = dir.runs[Cell(p)].dirty
              /\ Manifest(p).design = dir.runs[Cell(p)].design
<1>1. /\ Stands(p, Step(p)) /\ At(p, Step(p)) /\ Ordered(ScriptOf(p)) /\ proc[p] \in Progress
      /\ ProcOf(p) /\ Cell(p) \in Cells
      /\ Step(p) \in {"episodes", "runs", "profiles", "fixed", "probes"}
      /\ Source \in Sources /\ DesignOf[tree.work] \in Designs
  BY PlayingPlace, OrderOf, SourceTyped DEF TypeInv, ProcInv, AllPlaySteps, PlaySteps
<1>2. PICK s \in {"episodes", "runs", "profiles", "fixed", "probes"} : s = Step(p)
  BY <1>1
<1>3. CASE s = "episodes"
  <2>1. Alone
    <3>1. proc[p].step \in DOMAIN ScriptOf(p) /\ Step(p) = ScriptOf(p)[proc[p].step]
      BY <1>1, PlaceTypes DEF Stands, Step, ScriptOf
    <3> QED
      BY <1>2, <1>3, <3>1, PlaceTypes DEF WellMade, Belongs, Alone
  <2>2. dir.inputs.of \in Designs
    BY <1>1, <1>2, <1>3, <2>1, InputsTyped
  <2>3. Basis(p) = [Source EXCEPT !.design = dir.inputs.of]
    BY <1>2, <1>3 DEF Basis
  <2>4. /\ Basis(p).commit \in Versions /\ Basis(p).dirty \in BOOLEAN
        /\ Basis(p).design \in Designs
    BY <1>1, <2>2, <2>3 DEF Sources
  <2> QED
    BY <1>2, <1>3, <2>4, NoneAssumption DEF Manifest, Manifests
<1>4. CASE s = "runs"
  <2>1. Done(p, "study")
    BY <1>1, <1>2, <1>4, InOrder DEF Ordered
  <2>2. Basis(p) \in Basics
    BY <1>1, <1>2, <1>4, <2>1 DEF Basis, Basics, ProcOf, Studies
  <2> QED
    BY <1>2, <1>4, <2>2, NoneAssumption DEF Manifest, Manifests, Basics
<1>5. CASE s = "fixed"
  <2>1. Done(p, "status")
    BY <1>1, <1>2, <1>5, InOrder DEF Ordered
  <2>2. Where(p, "runs") = "runs"
    <3>1. proc[p].step \in DOMAIN ScriptOf(p) /\ Step(p) = ScriptOf(p)[proc[p].step]
      BY <1>1, PlaceTypes DEF Stands, Step, ScriptOf
    <3> QED
      BY <1>2, <1>5, <3>1, PlaceTypes DEF WellMade, Belongs, RecordsSourceLast, Where, RootOf
  <2>3. dir.runs[Cell(p)] \in Manifests /\ dir.runs[Cell(p)] # None
        /\ dir.runs[Cell(p)].stage = "completed"
    BY <1>1, <2>1, <2>2, NamesApart DEF PlayedInv, Completed, TypeInv, DirInv
  <2>4. /\ Basis(p).commit = dir.runs[Cell(p)].commit /\ Basis(p).dirty = dir.runs[Cell(p)].dirty
        /\ Basis(p).design = dir.runs[Cell(p)].design
    BY <1>2, <1>5 DEF Basis
  <2> QED
    BY <1>2, <1>5, <2>3, <2>4, NoneAssumption DEF Manifest, Manifests
<1>6. CASE s \in {"profiles", "probes"}
  <2>1. Basis(p) = [commit |-> None, dirty |-> None, design |-> DesignOf[tree.work]]
    BY <1>2, <1>6 DEF Basis
  <2>2. Basis(p) \in Basics
    BY <1>1, <2>1 DEF Basics
  <2> QED
    BY <1>2, <1>6, <2>2, NoneAssumption DEF Manifest, Manifests, Basics
<1> QED
  BY <1>3, <1>4, <1>5, <1>6

(* The run that an episode's step is about, before and after *)
LEMMA RunStep ==
  ASSUME TypeInv, FilesInv, PlayedInv, NEW p \in Launches, Opens(p) \/ Plays(p) \/ GivenBack(p)
  PROVE  \E area \in Areas, c \in Cells, run \in Manifests \cup {None} :
           /\ area = Area(p) /\ c = Cell(p) /\ Playing(p)
           /\ RunSet(area, c, run)
           /\ ~Finished(area, c)
           /\ dir[area][c] # None => dir[area][c].by = p
           /\ run = None => GivenBack(p) /\ ~Opens(p) /\ ~Plays(p)
           /\ run # None =>
                /\ run.by = p
                /\ run.stage = "open" => Opens(p) /\ dir[area][c] = None /\ run = Manifest(p)
                /\ run.stage # "open" =>
                     /\ Plays(p) /\ dir[area][c] # None
                     /\ \A x \in {"commit", "dirty", "design"} : run[x] = dir[area][c][x]
                     /\ experiment = "atlas" => run.stage = "completed"
<1>1. Playing(p)
  BY DEF Opens, Plays, GivenBack
<1>2. PICK area \in Areas, c \in Cells : area = Area(p) /\ c = Cell(p)
  BY <1>1, PlayingPlace
<1>3. dir[area][c] \in Manifests \cup {None}
  BY DEF TypeInv, DirInv
<1>4. CASE Opens(p)
  <2>1. PICK run \in Manifests : run = Manifest(p)
    BY <1>1, ManifestTyped
  <2>2. run # None /\ run.by = p /\ run.stage = "open"
    BY <1>1, <2>1, ManifestTyped
  <2>3. RunSet(area, c, run) /\ dir[area][c] = None
    BY <1>2, <1>4, <2>1 DEF Opens, RunSet
  <2> QED
    BY <1>1, <1>2, <1>4, <2>1, <2>2, <2>3 DEF Finished
<1>5. CASE Plays(p)
  <2>1. PICK outcome \in {"completed", "failed"} :
          /\ dir' = [dir EXCEPT ![area][c].stage = outcome]
          /\ experiment = "atlas" => outcome = "completed"
    BY <1>2, <1>5 DEF Plays
  <2>2. dir[area][c] # None /\ dir[area][c].by = p /\ dir[area][c].stage = "open"
    BY <1>2, <1>5 DEF Plays, InRun
  <2>3. PICK run : run = [dir[area][c] EXCEPT !.stage = outcome]
    OBVIOUS
  <2>4. run \in Manifests /\ run.by = p /\ run.stage = outcome
        /\ run.commit = dir[area][c].commit /\ run.dirty = dir[area][c].dirty
        /\ run.design = dir[area][c].design
    BY <1>3, <2>2, <2>3 DEF Manifests
  <2>5. RunSet(area, c, run)
    BY <2>1, <2>3 DEF RunSet
  <2>6. run # None /\ ~Finished(area, c)
    BY <2>2, <2>4, NoneAssumption DEF Finished
  <2>7. \A x \in {"commit", "dirty", "design"} : run[x] = dir[area][c][x]
    BY <2>4
  <2>8. run.stage # "open"
    BY <2>1, <2>4
  <2>9. experiment = "atlas" => run.stage = "completed"
    BY <2>1, <2>4
  <2> QED
    BY <1>1, <1>2, <1>5, <2>2, <2>4, <2>5, <2>6, <2>7, <2>8, <2>9
<1>6. CASE GivenBack(p) /\ ~Opens(p) /\ ~Plays(p)
  <2>1. RunSet(area, c, None)
    BY <1>2, <1>6 DEF GivenBack, RunSet
  <2>2. dir[area][c].by = p /\ dir[area][c].stage = "open"
    BY <1>2, <1>6 DEF GivenBack, InRun
  <2> QED
    BY <1>1, <1>2, <1>6, <2>1, <2>2 DEF Finished
<1> QED
  BY <1>4, <1>5, <1>6

(* The entry that a step leaves of the file it is at *)
Puts(p, n) == Writes(p, n) \/ Begins(p, n) \/ Fills(p, n)

LEMMA FileStep ==
  ASSUME TypeInv, MadeInv, FilesInv, NEW p \in Launches, (\E n \in Files : Puts(p, n)) \/ Torn(p)
  PROVE  \E n \in Files, e \in Entries :
           /\ At(p, n) /\ ~Whole(n) /\ dir' = [dir EXCEPT ![n] = e]
           /\ e # None /\ e.by = p
           /\ e.whole => /\ e = Entry(p, n)
                         /\ (Writes(p, n) /\ dir[n] = None) \/ Fills(p, n)
           /\ ~e.whole => dir[n] = None /\ e = Begun(p) /\ (Torn(p) \/ Begins(p, n))
           /\ e.whole /\ n = "inputs" => e.of \in Designs
<1>1. PICK b \in Entries : b = Begun(p) /\ b # None /\ b.by = p /\ ~b.whole
  <2>1. Begun(p) \in Entries
    BY DEF Entries, Begun
  <2> QED
    BY <2>1, NoneAssumption DEF Begun
<1>2. ASSUME NEW n \in Files, Writes(p, n) \/ Fills(p, n)
      PROVE  \E e \in Entries :
               /\ At(p, n) /\ ~Whole(n) /\ dir' = [dir EXCEPT ![n] = e]
               /\ e # None /\ e.by = p /\ e.whole /\ e = Entry(p, n)
               /\ (Writes(p, n) /\ dir[n] = None) \/ Fills(p, n)
               /\ n = "inputs" => e.of \in Designs
  <2>1. At(p, n) /\ dir' = [dir EXCEPT ![n] = Entry(p, n)]
    BY <1>2 DEF Writes, Fills, Passes
  <2>2. ~Whole(n) /\ (Writes(p, n) => dir[n] = None)
    BY <1>2, WritesFresh, FillsBegun DEF Whole
  <2>3. PICK e \in Entries : e = Entry(p, n)
    BY <2>1, EntryTyped
  <2> QED
    BY <1>2, <2>1, <2>2, <2>3, EntryTyped
<1>3. ASSUME NEW n \in Files, Begins(p, n) PROVE At(p, n) /\ dir[n] = None /\ dir' = [dir EXCEPT ![n] = b]
  BY <1>1, <1>3 DEF Begins
<1>4. ASSUME Torn(p) PROVE \E n \in Files : At(p, n) /\ dir[n] = None /\ dir' = [dir EXCEPT ![n] = b]
  BY <1>1, <1>4 DEF Torn, Writing, At
<1> QED
  BY <1>1, <1>2, <1>3, <1>4 DEF Puts, Whole

LEMMA DirKept ==
  ASSUME TypeInv, MadeInv, FilesInv, PlayedInv, AnyStep
  PROVE  DirInv'
<1>1. /\ dir = [n \in Names |-> dir[n]]
      /\ dir.made \in Launches \cup {None}
      /\ \A area \in Areas : dir[area] \in [Cells -> Manifests \cup {None}]
      /\ \A n \in Files : dir[n] \in Entries \cup {None}
      /\ Whole("inputs") => dir.inputs.of \in Designs
  BY DEF TypeInv, DirInv
<1>2. CASE UNCHANGED dir
  BY <1>1, <1>2 DEF DirInv, Whole
<1>3. ASSUME NEW n \in {"failure", "made"}, NEW v, dir' = [dir EXCEPT ![n] = v],
             n = "made" => v \in Launches
      PROVE  DirInv'
  <2>1. /\ dir' = [m \in Names |-> dir'[m]] /\ dir'[n] = v
        /\ \A m \in Files \cup {"failure", "made"} : m # n => dir'[m] = dir[m]
        /\ \A area \in Areas : dir'[area] = dir[area]
    BY <1>3, EntryChange
  <2>2. dir'.made \in Launches \cup {None} /\ \A m \in Files : dir'[m] = dir[m]
    BY <1>1, <1>3, <2>1, NamesApart
  <2>3. Whole("inputs")' => dir'.inputs.of \in Designs
    BY <1>1, <2>2 DEF Whole, Files
  <2> QED
    BY <1>1, <2>1, <2>2, <2>3 DEF DirInv
<1>4. ASSUME NEW p \in Launches, Makes(p) PROVE DirInv'
  BY <1>3, <1>4 DEF Makes
<1>5. ASSUME NEW p \in Launches, RetainFailure(p) \/ TornRecord(p) PROVE DirInv'
  BY <1>3, <1>5 DEF RetainFailure, TornRecord
<1>6. ASSUME NEW p \in Launches, (\E n \in Files : Puts(p, n)) \/ Torn(p) PROVE DirInv'
  <2>1. PICK n \in Files, e \in Entries :
          /\ dir' = [dir EXCEPT ![n] = e]
          /\ e.whole /\ n = "inputs" => e.of \in Designs
    BY <1>6, FileStep
  <2>2. /\ dir' = [m \in Names |-> dir'[m]] /\ dir'[n] = e
        /\ \A m \in Files \cup {"failure", "made"} : m # n => dir'[m] = dir[m]
        /\ \A area \in Areas : dir'[area] = dir[area]
    BY <2>1, EntryChange
  <2>3. dir'.made = dir.made /\ \A m \in Files : dir'[m] \in Entries \cup {None}
    BY <1>1, <2>2, NamesApart
  <2>4. Whole("inputs")' => dir'.inputs.of \in Designs
    BY <1>1, <2>1, <2>2 DEF Whole, Files
  <2> QED
    BY <1>1, <2>2, <2>3, <2>4 DEF DirInv
<1>7. ASSUME NEW p \in Launches, Opens(p) \/ Plays(p) \/ GivenBack(p) PROVE DirInv'
  <2>1. PICK area \in Areas, c \in Cells, run \in Manifests \cup {None} : RunSet(area, c, run)
    BY <1>7, RunStep
  <2>2. /\ dir' = [m \in Names |-> dir'[m]]
        /\ \A m \in Files \cup {"failure", "made"} : dir'[m] = dir[m]
        /\ dir'[area] = [dir[area] EXCEPT ![c] = run]
    BY <2>1, RunChange
  <2>3. \A a \in Areas : a # area => dir'[a] = dir[a]
    BY <2>1, <1>1 DEF RunSet, Names
  <2>4. \A a \in Areas : dir'[a] \in [Cells -> Manifests \cup {None}]
    BY <1>1, <2>2, <2>3
  <2> QED
    BY <1>1, <2>2, <2>4 DEF DirInv, Whole, Files
<1>8. ASSUME NEW p \in Launches, Kind(p) PROVE DirInv'
  BY <1>2, <1>4, <1>5, <1>6, <1>7, <1>8
     DEF Kind, Starts, Launch, Moves, Shares, Skips, Looks, Puts, Stops
<1> QED
  BY <1>2, <1>8 DEF AnyStep, Quiet

-----------------------------------------------------------------------------
(* What must have happened for a part of the state to change *)

LEMMA SameExperiment ==
  ASSUME TypeInv, AnyStep
  PROVE  /\ experiment' = experiment /\ FindStep' = FindStep /\ Alone' = Alone
         /\ RunsAStudy' = RunsAStudy /\ RecordsSourceLast' = RecordsSourceLast
         /\ changes' = changes + 1 \/ changes' = changes
<1>1. ASSUME NEW p \in Launches, NEW n \in Files, Writes(p, n) \/ Shares(p, n)
      PROVE  experiment' = experiment /\ changes' = changes
  BY <1>1 DEF Writes, Shares, Skips, Looks, Begins, Fills, Passes, Notes, OthersStay
<1>2. ASSUME NEW p \in Launches, Kind(p) PROVE experiment' = experiment /\ changes' = changes
  BY <1>1, <1>2 DEF Kind, Starts, Launch, Moves, Makes, Opens, Plays, RetainFailure, Stops, Passes,
                   Halts, OthersStay
<1>3. experiment' = experiment /\ (changes' = changes + 1 \/ changes' = changes)
  BY <1>2 DEF AnyStep, Quiet
<1> QED
  BY <1>3 DEF FindStep, Alone, RunsAStudy, RecordsSourceLast

(* A launch that is not still where it was has passed a step, has played   *)
(* one cell of several, is about to write a file, has started, or halted.  *)
LEMMA PlaceChanges ==
  ASSUME TypeInv, AnyStep, NEW q \in Launches
  PROVE  \/ Stays(q)
         \/ Starts(q)
         \/ Halts(q) /\ (RetainFailure(q) \/ Stops(q))
         \/ \E n \in Files : At(q, n) /\ (Looks(q, n) \/ Begins(q, n))
         \/ Plays(q) /\ Cell(q) # NumCells /\ proc'[q] = [proc[q] EXCEPT !.next = @ + 1]
         \/ \E s : Passes(q, s) /\ \/ Plays(q) /\ Cell(q) = NumCells /\ s = Step(q)
                                   \/ Makes(q) /\ s = "mkdir"
                                   \/ s \in Files /\ (Writes(q, s) \/ Skips(q, s) \/ Fills(q, s))
                                   \/ Moves(q) /\ s \notin Files \cup AllPlaySteps \cup {"mkdir"}
<1>1. ASSUME NEW p \in Launches, Kind(p), p # q PROVE Stays(q)
  <2>1. OthersStay(p) \/ UNCHANGED <<experiment, proc>>
    BY <1>1 DEF Kind, Starts, Launch, Moves, Makes, Writes, Shares, Skips, Looks, Begins, Fills,
           Opens, Plays, RetainFailure, Stops, Passes, Halts, Notes, OthersStay, Stays, TypeInv, ProcInv
  <2> QED
    BY <1>1, <2>1 DEF OthersStay, Stays
<1>2. CASE Kind(q)
  <2>1. CASE Moves(q)
    BY <2>1 DEF Moves, Files, AllPlaySteps, PlaySteps
  <2>2. CASE Makes(q)
    BY <2>2 DEF Makes
  <2>3. ASSUME NEW n \in Files, Writes(q, n) \/ Shares(q, n)
        PROVE  \/ Passes(q, n) /\ (Writes(q, n) \/ Skips(q, n) \/ Fills(q, n))
               \/ At(q, n) /\ (Looks(q, n) \/ Begins(q, n))
    BY <2>3 DEF Writes, Shares, Skips, Looks, Begins, Fills
  <2>4. CASE Opens(q)
    BY <2>4 DEF Opens, Stays
  <2>5. CASE Plays(q)
    <3>1. PICK s : s = Step(q)
      BY <2>5, PlayingPlace DEF Plays
    <3> QED
      BY <2>5, <3>1 DEF Plays
  <2>6. CASE RetainFailure(q) \/ Stops(q)
    BY <2>6, RetainKind DEF Stops
  <2> QED
    BY <1>2, <2>1, <2>2, <2>3, <2>4, <2>5, <2>6 DEF Kind
<1> QED
  BY <1>1, <1>2 DEF AnyStep, Quiet, Stays

(* Steps are done by passing them, and never undone. *)
LEMMA DoneSteps ==
  ASSUME TypeInv, AnyStep, NEW q \in Launches, NEW s
  PROVE  /\ Done(q, s) => Done(q, s)'
         /\ Stands(q, s) => Stands(q, s)' \/ Done(q, s)'
         /\ Done(q, s)' => Done(q, s) \/ Passes(q, s)
         /\ Passes(q, s) => Done(q, s)' /\ ~Done(q, s)
         /\ Stands(q, s)' => \/ Stands(q, s) /\ proc[q].step = proc'[q].step
                             \/ ~Done(q, s) /\ ~Stands(q, s) /\ proc'[q].next = 1
<1>1. ProcOf(q) /\ proc[q] \in Progress /\ experiment' = experiment
  BY SameExperiment DEF TypeInv, ProcInv
<1>2. Passes(q, s) => Done(q, s)' /\ ~Done(q, s)
  BY PassingPlace
<1>3. CASE Stays(q)
  BY <1>1, <1>2, <1>3, StayingPlace DEF Stays
<1>4. CASE Starts(q)
  <2>1. proc[q].step = 0 /\ proc[q].next = 1 /\ proc'[q].next = 1 /\ proc'[q].step = 1
        /\ proc[q].end = None /\ proc'[q].end = None /\ proc'[q].kind \in Kinds
    BY <1>1, <1>4 DEF Starts, Launch, ProcOf, Stands, TypeInv, ProcInv, Progress
  <2>2. ~Done(q, s) /\ ~Stands(q, s)
    BY <2>1, PlaceTypes, NoneAssumption DEF Done, Behind, Stands
  <2>3. DOMAIN ScriptOf(q)' \subseteq Nat \ {0} /\ Behind(q)' = 1
    <3>1. WellMade(Script(proc'[q].kind)) /\ ScriptOf(q)' = Script(proc'[q].kind)
      BY <1>1, <2>1, ScriptsWellMade DEF TypeInv, ScriptOf, Script, GraphMain
    <3> QED
      BY <2>1, <3>1, NoneAssumption DEF WellMade, Behind
  <2>4. ~Done(q, s)'
    BY <2>3 DEF Done
  <2> QED
    BY <1>2, <2>1, <2>2, <2>4
<1>5. CASE Halts(q)
  BY <1>2, <1>5, HaltingPlace
<1>6. CASE Playing(q) /\ proc'[q] = [proc[q] EXCEPT !.next = @ + 1]
  <2>1. /\ proc'[q].kind = proc[q].kind /\ proc'[q].step = proc[q].step
        /\ proc'[q].end = proc[q].end
    BY <1>1, <1>6 DEF Progress
  <2>2. /\ Done(q, s)' <=> Done(q, s)
        /\ Stands(q, s)' <=> Stands(q, s)
    BY <1>1, <2>1 DEF ScriptOf, Script, GraphMain, Step, Done, Behind, Stands
  <2> QED
    BY <1>2, <2>1, <2>2
<1>7. ASSUME NEW n \in Files, At(q, n), Looks(q, n) \/ Begins(q, n)
      PROVE  (Done(q, s)' <=> Done(q, s)) /\ (Stands(q, s)' <=> Stands(q, s)) /\ proc'[q].step = proc[q].step
  <2>1. \E x : Notes(q, x)
    BY <1>7 DEF Looks, Begins
  <2> QED
    BY <2>1, NotingPlace
<1>8. ASSUME NEW t, Passes(q, t)
      PROVE  /\ Done(q, s) => Done(q, s)'
             /\ Stands(q, s) => Stands(q, s)' \/ Done(q, s)'
             /\ Done(q, s)' => Done(q, s) \/ Passes(q, s)
             /\ Stands(q, s)' => ~Done(q, s) /\ ~Stands(q, s) /\ proc'[q].next = 1
  <2>1. /\ Done(q, s)' <=> Done(q, s) \/ s = t
        /\ Stands(q, s)' => s # t /\ ~Done(q, s) /\ ~Stands(q, s)
        /\ Stands(q, s) => s = t
    BY <1>8, PassingPlace DEF Stands
  <2> QED
    BY <1>8, <2>1 DEF Passes
<1> QED
  BY <1>2, <1>3, <1>4, <1>5, <1>6, <1>7, <1>8, PlaceChanges DEF Plays

(* Each part of a directory is changed by steps of its own. *)
LEMMA Untouched ==
  ASSUME TypeInv, MadeInv, FilesInv, PlayedInv, NEW p \in Launches
  PROVE  /\ Makes(p) \/ RetainFailure(p) \/ TornRecord(p) =>
              (\A n \in Files : dir'[n] = dir[n]) /\ (\A area \in Areas : dir'[area] = dir[area])
         /\ Makes(p) => dir'.failure = dir.failure
         /\ RetainFailure(p) \/ TornRecord(p) => dir'.made = dir.made
         /\ (\E n \in Files : Puts(p, n)) \/ Torn(p) =>
              /\ dir'.failure = dir.failure /\ dir'.made = dir.made
              /\ \A area \in Areas : dir'[area] = dir[area]
         /\ Opens(p) \/ Plays(p) \/ GivenBack(p) =>
              \A n \in Files \cup {"failure", "made"} : dir'[n] = dir[n]
<1>1. ASSUME NEW n \in {"failure", "made"}, NEW v, dir' = [dir EXCEPT ![n] = v]
      PROVE  /\ (\A m \in Files : dir'[m] = dir[m]) /\ (\A area \in Areas : dir'[area] = dir[area])
             /\ \A m \in {"failure", "made"} : m # n => dir'[m] = dir[m]
  BY <1>1, EntryChange, NamesApart
<1>2. ASSUME (\E n \in Files : Puts(p, n)) \/ Torn(p)
      PROVE  /\ dir'.failure = dir.failure /\ dir'.made = dir.made
             /\ \A area \in Areas : dir'[area] = dir[area]
  <2>1. PICK n \in Files : \E e : dir' = [dir EXCEPT ![n] = e]
    BY <1>2, FileStep
  <2>2. /\ \A m \in Files \cup {"failure", "made"} : m # n => dir'[m] = dir[m]
        /\ \A area \in Areas : dir'[area] = dir[area]
    BY <2>1, EntryChange
  <2> QED
    BY <2>2, NamesApart
<1>3. ASSUME Opens(p) \/ Plays(p) \/ GivenBack(p)
      PROVE  \A n \in Files \cup {"failure", "made"} : dir'[n] = dir[n]
  <2>1. PICK area \in Areas, c \in Cells : \E run : RunSet(area, c, run)
    BY <1>3, RunStep
  <2> QED
    BY <2>1, RunChange
<1>4. "failure" # "made"
  OBVIOUS
<1> QED
  BY <1>1, <1>2, <1>3, <1>4 DEF Makes, RetainFailure, TornRecord

LEMMA MadeChanges ==
  ASSUME TypeInv, MadeInv, FilesInv, PlayedInv, AnyStep, dir'.made # dir.made
  PROVE  \E p \in Launches : Makes(p) /\ dir.made = None /\ dir'.made = p
<1>1. PICK p \in Launches : Kind(p) /\ dir' # dir
  BY DEF AnyStep, Quiet
<1>2. Makes(p)
  BY <1>1, Untouched DEF Kind, Starts, Launch, Moves, Shares, Skips, Looks, Puts, Stops
<1>3. dir.made = None /\ dir' = [dir EXCEPT !["made"] = p]
  BY <1>2 DEF Makes
<1> QED
  BY <1>2, <1>3, EntryChange

(* A file changes when its step writes it, or is cut short; where the      *)
(* directory is shared, it is begun first and filled then.                 *)
LEMMA FileChanges ==
  ASSUME TypeInv, MadeInv, FilesInv, PlayedInv, AnyStep, NEW n \in Files, dir'[n] # dir[n]
  PROVE  /\ \E p \in Launches :
             /\ At(p, n) /\ ~Whole(n) /\ dir'[n] # None /\ dir'[n].by = p
             /\ dir'[n].whole => /\ dir'[n] = Entry(p, n)
                                 /\ (Writes(p, n) /\ dir[n] = None) \/ Fills(p, n)
             /\ ~dir'[n].whole => /\ dir[n] = None /\ dir'[n] = Begun(p)
                                  /\ (Torn(p) /\ Stops(p)) \/ Begins(p, n)
         /\ \A m \in Files : m # n => dir'[m] = dir[m]
<1>1. PICK p \in Launches : Kind(p) /\ dir' # dir
  BY DEF AnyStep, Quiet
<1>2. (\E m \in Files : Puts(p, m)) \/ (Stops(p) /\ Torn(p))
  BY <1>1, Untouched DEF Kind, Starts, Launch, Moves, Shares, Skips, Looks, Puts, Stops
<1>3. PICK m \in Files, e \in Entries :
        /\ At(p, m) /\ ~Whole(m) /\ dir' = [dir EXCEPT ![m] = e]
        /\ e # None /\ e.by = p
        /\ e.whole => /\ e = Entry(p, m)
                      /\ (Writes(p, m) /\ dir[m] = None) \/ Fills(p, m)
        /\ ~e.whole => dir[m] = None /\ e = Begun(p) /\ (Torn(p) \/ Begins(p, m))
  BY <1>2, FileStep
<1>4. dir'[m] = e /\ \A k \in Files : k # m => dir'[k] = dir[k]
  BY <1>3, EntryChange
<1>5. m = n
  BY <1>4
<1>6. ASSUME ~e.whole, ~Begins(p, n) PROVE Torn(p) /\ Stops(p)
  <2>1. SUFFICES ASSUME NEW k \in Files, Puts(p, k) PROVE FALSE
    BY <1>2, <1>3, <1>5, <1>6
  <2>2. k = n
    BY <1>3, <1>5, <2>1 DEF Puts, Writes, Begins, Fills, Passes, At
  <2>3. dir' = [dir EXCEPT ![n] = Entry(p, n)]
    BY <1>6, <2>1, <2>2 DEF Puts, Writes, Fills
  <2>4. e = Entry(p, n)
    BY <1>4, <1>5, <2>3, EntryChange
  <2> QED
    BY <1>6, <2>4 DEF Entry
<1> QED
  BY <1>3, <1>4, <1>5, <1>6

LEMMA RunChanges ==
  ASSUME TypeInv, MadeInv, FilesInv, PlayedInv, AnyStep,
         NEW area \in Areas, NEW c \in Cells, dir'[area][c] # dir[area][c]
  PROVE  \E p \in Launches :
           /\ area = Area(p) /\ c = Cell(p) /\ Playing(p)
           /\ ~Finished(area, c)
           /\ dir[area][c] # None => dir[area][c].by = p
           /\ \A d \in Cells \ {c} : dir'[area][d] = dir[area][d]
           /\ dir'[area][c] = None => GivenBack(p) /\ Stops(p)
           /\ dir'[area][c] # None =>
                /\ dir'[area][c].by = p
                /\ dir'[area][c].stage = "open" =>
                     Opens(p) /\ dir[area][c] = None /\ dir'[area][c] = Manifest(p)
                /\ dir'[area][c].stage # "open" =>
                     /\ Plays(p) /\ dir[area][c] # None
                     /\ \A x \in {"commit", "dirty", "design"} : dir'[area][c][x] = dir[area][c][x]
                     /\ experiment = "atlas" => dir'[area][c].stage = "completed"
<1>1. PICK p \in Launches : Kind(p) /\ dir' # dir
  BY DEF AnyStep, Quiet
<1>2. Opens(p) \/ Plays(p) \/ (GivenBack(p) /\ Stops(p))
  BY <1>1, Untouched DEF Kind, Starts, Launch, Moves, Shares, Skips, Looks, Puts, Stops
<1>3. PICK a \in Areas, d \in Cells, run \in Manifests \cup {None} :
        /\ a = Area(p) /\ d = Cell(p) /\ Playing(p)
        /\ RunSet(a, d, run)
        /\ ~Finished(a, d)
        /\ dir[a][d] # None => dir[a][d].by = p
        /\ run = None => GivenBack(p) /\ ~Opens(p) /\ ~Plays(p)
        /\ run # None =>
             /\ run.by = p
             /\ run.stage = "open" => Opens(p) /\ dir[a][d] = None /\ run = Manifest(p)
             /\ run.stage # "open" =>
                  /\ Plays(p) /\ dir[a][d] # None
                  /\ \A x \in {"commit", "dirty", "design"} : run[x] = dir[a][d][x]
                  /\ experiment = "atlas" => run.stage = "completed"
  BY <1>2, RunStep
<1>4. dir'[a][d] = run /\ \A b \in Areas, k \in Cells : b # a \/ k # d => dir'[b][k] = dir[b][k]
  <2>1. RunSet(a, d, run)
    BY <1>3
  <2>2. dir'[a][d] = run
    BY <2>1, RunChange, ZenonT(60)
  <2>3. \A b \in Areas, k \in Cells : b # a \/ k # d => dir'[b][k] = dir[b][k]
    BY <2>1, RunChange, ZenonT(60)
  <2> QED
    BY <2>2, <2>3
<1>5. a = area /\ d = c
  BY <1>4
<1> QED
  BY <1>2, <1>3, <1>4, <1>5

LEMMA FailureChanges ==
  ASSUME TypeInv, MadeInv, FilesInv, PlayedInv, AnyStep, dir'.failure # dir.failure
  PROVE  \E p \in Launches : RetainFailure(p) \/ (TornRecord(p) /\ Stops(p) /\ proc'[p].end \in {"raised", "killed"})
<1>1. PICK p \in Launches : Kind(p) /\ dir' # dir
  BY DEF AnyStep, Quiet
<1> QED
  BY <1>1, Untouched DEF Kind, Starts, Launch, Moves, Shares, Skips, Looks, Puts, Stops

LEMMA PassingKind ==
  ASSUME TypeInv, AnyStep, NEW q \in Launches, NEW s, Passes(q, s)
  PROVE  \/ Plays(q) /\ Cell(q) = NumCells /\ s = Step(q) /\ s \in AllPlaySteps
         \/ Makes(q) /\ s = "mkdir"
         \/ s \in Files /\ (Writes(q, s) \/ Skips(q, s) \/ Fills(q, s))
         \/ Moves(q) /\ s \notin Files \cup AllPlaySteps \cup {"mkdir"}
<1>1. Done(q, s)' /\ ~Done(q, s) /\ proc[q].step > 0 /\ proc[q] \in Progress /\ Step(q) = s
      /\ experiment' = experiment /\ proc[q].end = None /\ proc[q].step \in Nat
  BY PassingPlace, PlaceTypes DEF Passes, At, OthersStay, TypeInv, ProcInv
<1>2. proc'[q].end \notin {"failing", "raised", "killed"} /\ "done" # None
  BY NoneAssumption DEF Passes
<1>3. proc'[q].step # proc[q].step \/ proc'[q].end = "done"
  BY <1>1 DEF Passes
<1>4. ~Stays(q) /\ ~Starts(q) /\ ~Halts(q) /\ proc'[q] # [proc[q] EXCEPT !.next = @ + 1]
  <2>1. ~Stays(q)
    BY <1>1, <1>2, <1>3 DEF Stays
  <2>2. ~Starts(q)
    BY <1>1 DEF Starts, Launch
  <2>3. proc'[q] # [proc[q] EXCEPT !.next = @ + 1]
    BY <1>1, <1>2, <1>3 DEF Progress
  <2> QED
    BY <1>2, <2>1, <2>2, <2>3 DEF Halts
<1>5. ASSUME NEW t, Passes(q, t) PROVE t = s
  BY <1>1, <1>5 DEF Passes, At
<1>6. ASSUME NEW n \in Files, At(q, n), Looks(q, n) \/ Begins(q, n) PROVE FALSE
  <2>1. \E x : Notes(q, x)
    BY <1>6 DEF Looks, Begins
  <2> QED
    BY <1>1, <1>2, <1>3, <2>1, NotingPlace
<1>7. Plays(q) => Step(q) \in AllPlaySteps
  BY PlayingPlace DEF Plays
<1> QED
  BY <1>4, <1>5, <1>6, <1>7, PlaceChanges

(* What a launch has found out changes only when it passes the step that   *)
(* finds it.                                                               *)
LEMMA FoundChanges ==
  ASSUME TypeInv, AnyStep, NEW p \in Launches
  PROVE  /\ proc'[p].taken # proc[p].taken => Passes(p, "provenance") /\ proc'[p].taken = Source
         /\ proc'[p].study # proc[p].study => Passes(p, "study")
         /\ proc'[p].result # proc[p].result =>
              \E s \in {"collect", "compare"} :
                s = FindStep /\ Passes(p, s) /\ proc'[p].result = Result(p)
<1>1. proc[p] \in Progress /\ proc \in [Launches -> Progress]
  BY DEF TypeInv, ProcInv
<1>2. ASSUME NEW s, Passes(p, s)
      PROVE  /\ proc'[p].taken # proc[p].taken => Passes(p, "provenance") /\ proc'[p].taken = Source
             /\ proc'[p].study # proc[p].study => Passes(p, "study")
             /\ proc'[p].result # proc[p].result =>
                  \E f \in {"collect", "compare"} :
                    f = FindStep /\ Passes(p, f) /\ proc'[p].result = Result(p)
  <2>1. proc'[p].taken # proc[p].taken => s = "provenance" /\ proc'[p].taken = Source
    BY <1>2 DEF Passes
  <2>2. proc'[p].result # proc[p].result => s = FindStep /\ proc'[p].result = Result(p)
    BY <1>2 DEF Passes
  <2>3. proc'[p].study # proc[p].study => s = "study"
    BY <1>2 DEF Passes
  <2>4. FindStep \in {"collect", "compare"}
    BY DEF FindStep
  <2> QED
    BY <1>2, <2>1, <2>2, <2>3, <2>4
<1>3. ASSUME \/ Starts(p) \/ proc'[p] = [proc[p] EXCEPT !.next = @ + 1]
             \/ \E n \in Files : Looks(p, n) \/ Begins(p, n)
      PROVE  /\ proc'[p].taken = proc[p].taken /\ proc'[p].result = proc[p].result
             /\ proc'[p].study = proc[p].study
  <2>1. CASE Starts(p)
    BY <1>1, <2>1 DEF Starts, Launch, Progress
  <2>2. CASE proc'[p] = [proc[p] EXCEPT !.next = @ + 1]
    BY <1>1, <2>2 DEF Progress
  <2>3. CASE \E n \in Files : Looks(p, n) \/ Begins(p, n)
    BY <2>3, NotingPlace DEF Looks, Begins
  <2> QED
    BY <1>3, <2>1, <2>2, <2>3
<1> QED
  BY <1>2, <1>3, PlaceChanges, HaltingPlace DEF Stays

(* The study of a launch, and so where its runs are, is settled once.      *)
LEMMA WhereKept ==
  ASSUME TypeInv, AnyStep, NEW p \in Launches, NEW s,
         Done(p, s) \/ Stands(p, s), s \in AllPlaySteps \/ s = "status"
  PROVE  \A r \in AllPlaySteps : s = r \/ (s = "status" /\ r = "runs") =>
           Where(p, r) \in Areas /\ Where(p, r)' = Where(p, r)
<1> SUFFICES ASSUME NEW r \in AllPlaySteps, s = r \/ (s = "status" /\ r = "runs")
    PROVE  Where(p, r) \in Areas /\ Where(p, r)' = Where(p, r)
  OBVIOUS
<1>1. experiment' = experiment
  BY SameExperiment
<1>2. CASE r # "runs"
  BY <1>1, <1>2, NamesApart DEF Where
<1>3. CASE r = "runs"
  <2>1. Before(ScriptOf(p), "study", s)
    BY <1>3, OrderOf DEF Ordered
  <2>2. Done(p, "study")
    BY <2>1, InOrder
  <2>3. proc[p].study \in Studies /\ ~Passes(p, "study")
    BY <2>2, PassingPlace DEF TypeInv, ProcInv, ProcOf
  <2>4. proc'[p].study = proc[p].study
    BY <2>3, FoundChanges
  <2> QED
    BY <1>1, <1>3, <2>3, <2>4, NamesApart DEF Where, RootOf, Studies
<1> QED
  BY <1>2, <1>3

LEMMA MadeKept ==
  ASSUME TypeInv, MadeInv, FilesInv, PlayedInv, FailInv, AnyStep
  PROVE  MadeInv'
<1> USE SameExperiment
<1> SUFFICES ASSUME Alone
    PROVE  /\ \A p \in Launches : Done(p, "mkdir")' <=> dir'.made = p
           /\ \A n \in Files : dir'[n] # None =>
                \E p \in Launches : dir'.made = p /\ dir'[n].by = p
           /\ \A area \in Areas : \A c \in Cells :
                dir'[area][c] # None =>
                  \E p \in Launches :
                    /\ dir'.made = p /\ dir'[area][c].by = p
                    /\ \E s \in PlaySteps(area) : Done(p, s)' \/ Stands(p, s)'
  BY DEF MadeInv
<1>1. Kept /\ None \notin Launches /\ dir.made \in Launches \cup {None}
  BY EvidenceKept, NoneAssumption DEF TypeInv, DirInv
<1>2. ASSUME NEW p \in Launches PROVE Done(p, "mkdir")' <=> dir'.made = p
  <2>1. Done(p, "mkdir") => Done(p, "mkdir")' /\ dir'.made = p
    BY <1>1, DoneSteps DEF MadeInv, Kept
  <2>2. Passes(p, "mkdir") => dir'.made = p
    <3>1. SUFFICES ASSUME Passes(p, "mkdir") PROVE Makes(p)
      BY EntryChange DEF Makes
    <3> QED
      BY <3>1, PassingKind DEF AllPlaySteps, PlaySteps, Files
  <2>3. ASSUME dir'.made = p, ~Done(p, "mkdir") PROVE Done(p, "mkdir")'
    <3>1. dir'.made # dir.made
      BY <2>3 DEF MadeInv
    <3>2. Makes(p)
      BY <2>3, <3>1, MadeChanges
    <3> QED
      BY <3>2, DoneSteps DEF Makes
  <2> QED
    BY <2>1, <2>2, <2>3, DoneSteps
<1>3. ASSUME NEW n \in Files, dir'[n] # None
      PROVE  \E p \in Launches : dir'.made = p /\ dir'[n].by = p
  <2>1. CASE dir'[n] = dir[n]
    BY <1>1, <1>3, <2>1 DEF MadeInv, Kept
  <2>2. CASE dir'[n] # dir[n]
    <3>1. PICK p \in Launches : At(p, n) /\ dir'[n].by = p
      BY <2>2, FileChanges
    <3>2. dir.made = p
      BY <3>1, AtStands, Author, FileSteps
    <3> QED
      BY <1>1, <3>1, <3>2 DEF Kept
  <2> QED
    BY <2>1, <2>2
<1>4. ASSUME NEW area \in Areas, NEW c \in Cells, dir'[area][c] # None
      PROVE  \E p \in Launches :
               /\ dir'.made = p /\ dir'[area][c].by = p
               /\ \E s \in PlaySteps(area) : Done(p, s)' \/ Stands(p, s)'
  <2>1. \E p \in Launches :
          /\ dir.made = p /\ dir'[area][c].by = p
          /\ \E s \in PlaySteps(area) : Done(p, s) \/ Stands(p, s)
    <3>1. CASE dir'[area][c] = dir[area][c]
      BY <1>4, <3>1 DEF MadeInv
    <3>2. CASE dir'[area][c] # dir[area][c]
      <4>1. PICK p \in Launches : area = Area(p) /\ Playing(p) /\ dir'[area][c].by = p
        BY <1>4, <3>2, RunChanges
      <4>2. Stands(p, Step(p)) /\ Step(p) \in PlaySteps(area) /\ Step(p) \in Steps
            /\ Step(p) \notin {"provenance", "mkdir"}
        BY <4>1, PlayingPlace DEF AllPlaySteps, PlaySteps
      <4>3. PICK s \in PlaySteps(area) : s = Step(p)
        BY <4>2
      <4>4. dir.made = p
        BY <4>2, <4>3, Author
      <4> QED
        BY <4>1, <4>2, <4>3, <4>4
    <3> QED
      BY <3>1, <3>2
  <2>2. PICK p \in Launches :
          /\ dir.made = p /\ dir'[area][c].by = p
          /\ \E s \in PlaySteps(area) : Done(p, s) \/ Stands(p, s)
    BY <2>1
  <2>3. PICK s \in PlaySteps(area) : Done(p, s)' \/ Stands(p, s)'
    BY <2>2, DoneSteps
  <2> QED
    BY <1>1, <2>2, <2>3 DEF Kept
<1> QED
  BY <1>2, <1>3, <1>4

LEMMA SharedKept ==
  ASSUME TypeInv, MadeInv, FilesInv, PlayedInv, AnyStep
  PROVE  SharedInv'
<1> SUFFICES ASSUME ~Alone
    PROVE  /\ \A n \in Files : dir'[n] # None => \E q \in Launches :
                /\ dir'[n].by = q
                /\ Whole(n)' => Done(q, n)' /\ (n = "source" => dir'[n].of = proc'[q].taken)
                /\ ~Whole(n)' => Stands(q, n)' /\ proc'[q].file = "open"
           /\ \A p \in Launches, n \in Files : Stands(p, n)' /\ proc'[p].file = "open" =>
                dir'[n] # None /\ dir'[n].by = p /\ ~Whole(n)'
  BY SameExperiment DEF SharedInv
<1>1. /\ \A n \in Files : dir[n] # None => \E q \in Launches :
           /\ dir[n].by = q
           /\ Whole(n) => Done(q, n) /\ (n = "source" => dir[n].of = proc[q].taken)
           /\ ~Whole(n) => Stands(q, n) /\ proc[q].file = "open"
      /\ \A p \in Launches, n \in Files : Stands(p, n) /\ proc[p].file = "open" =>
           dir[n] # None /\ dir[n].by = p /\ ~Whole(n)
      /\ None # "open" /\ None # "absent"
  BY NoneAssumption DEF FilesInv, SharedInv
\* A file that is open stays in the hands of its launch until that fills it.
<1>2. ASSUME NEW p \in Launches, NEW n \in Files, Stands(p, n), proc[p].file = "open", ~Fills(p, n)
      PROVE  Stands(p, n)' /\ proc'[p].file = "open"
  <2>1. ~Playing(p) /\ proc[p].step > 0
    BY <1>1, <1>2, PlayingPlace DEF Stands
  <2>2. ASSUME NEW s, Passes(p, s) PROVE FALSE
    <3>1. s = n
      BY <1>2, <2>2, PassingPlace DEF Stands
    <3> QED
      BY <1>1, <1>2, <2>2, <3>1, PassingKind, FileSteps DEF Writes, Skips
  <2>3. ~Starts(p) /\ ~Plays(p) /\ \A m \in Files : ~Looks(p, m) /\ ~Begins(p, m)
    BY <1>1, <1>2, <2>1 DEF Starts, Launch, Plays, Looks, Begins
  <2>4. Stays(p) \/ Halts(p)
    BY <2>2, <2>3, PlaceChanges
  <2> QED
    BY <1>2, <2>4, StayingPlace, HaltingPlace, SameExperiment DEF Stays
<1>3. ASSUME NEW n \in Files, dir'[n] # dir[n]
      PROVE  \E p \in Launches :
               /\ dir'[n] # None /\ dir'[n].by = p /\ At(p, n)
               /\ dir'[n].whole => Fills(p, n) /\ dir'[n] = Entry(p, n)
               /\ ~dir'[n].whole => Begins(p, n) /\ dir[n] = None
  <2>1. \A p \in Launches : ~Torn(p) /\ ~Writes(p, n)
    BY DEF Torn, Writing, Writes, Alone
  <2> QED
    BY <1>3, <2>1, FileChanges
<1>4. ASSUME NEW n \in Files, dir'[n] # None
      PROVE  \E q \in Launches :
                /\ dir'[n].by = q
                /\ Whole(n)' => Done(q, n)' /\ (n = "source" => dir'[n].of = proc'[q].taken)
                /\ ~Whole(n)' => Stands(q, n)' /\ proc'[q].file = "open"
  <2>1. CASE dir'[n] = dir[n]
    <3>1. PICK q \in Launches :
            /\ dir[n].by = q
            /\ Whole(n) => Done(q, n) /\ (n = "source" => dir[n].of = proc[q].taken)
            /\ ~Whole(n) => Stands(q, n) /\ proc[q].file = "open"
      BY <1>1, <1>4, <2>1
    <3>2. Whole(n)' <=> Whole(n)
      BY <2>1 DEF Whole
    <3>3. ASSUME Whole(n) PROVE Done(q, n)' /\ (n = "source" => dir'[n].of = proc'[q].taken)
      <4>1. Done(q, n)'
        BY <3>1, <3>3, DoneSteps
      <4>2. ASSUME n = "source" PROVE proc'[q].taken = proc[q].taken
        <5>1. Done(q, "provenance")
          BY <3>1, <3>3, <4>2, OrderOf, InOrder DEF Ordered
        <5> QED
          BY <5>1, FoundChanges, PassingPlace
      <4> QED
        BY <2>1, <3>1, <3>3, <4>1, <4>2
    <3>4. ASSUME ~Whole(n) PROVE Stands(q, n)' /\ proc'[q].file = "open"
      <4>1. ~Fills(q, n)
        <5>1. SUFFICES ASSUME Fills(q, n) PROVE dir'[n] = Entry(q, n)
          BY <1>4, <3>2, <3>4 DEF Entry, Whole
        <5> QED
          BY <5>1, EntryChange DEF Fills
      <4> QED
        BY <1>2, <3>1, <3>4, <4>1
    <3> QED
      BY <2>1, <3>1, <3>2, <3>3, <3>4
  <2>2. CASE dir'[n] # dir[n]
    <3>1. PICK p \in Launches :
            /\ dir'[n].by = p /\ At(p, n)
            /\ dir'[n].whole => Fills(p, n) /\ dir'[n] = Entry(p, n)
            /\ ~dir'[n].whole => Begins(p, n)
      BY <1>3, <2>2
    <3>2. CASE dir'[n].whole
      <4>1. Passes(p, n) /\ dir'[n].of = Content(p, n) /\ n # "provenance"
        BY <3>1, <3>2, FileSteps DEF Fills, Entry
      <4>2. Done(p, n)' /\ proc'[p].taken = proc[p].taken
        BY <4>1, DoneSteps DEF Passes
      <4>3. n = "source" => Content(p, n) = proc[p].taken
        BY DEF Content
      <4> QED
        BY <1>4, <3>1, <3>2, <4>1, <4>2, <4>3 DEF Whole
    <3>3. CASE ~dir'[n].whole
      <4>1. Notes(p, "open") /\ Stands(p, n)
        BY <3>1, <3>3, AtStands DEF Begins
      <4> QED
        BY <3>1, <3>3, <4>1, NotingPlace DEF Whole
    <3> QED
      BY <3>2, <3>3
  <2> QED
    BY <2>1, <2>2
<1>5. ASSUME NEW p \in Launches, NEW n \in Files, Stands(p, n)', proc'[p].file = "open"
      PROVE  dir'[n] # None /\ dir'[n].by = p /\ ~Whole(n)'
  <2>1. CASE Stands(p, n) /\ proc[p].file = "open"
    <3>1. dir[n] # None /\ dir[n].by = p /\ ~Whole(n)
      BY <1>1, <2>1
    <3>2. ~Passes(p, n)
      BY <1>1, <1>5 DEF Passes
    <3>3. ASSUME dir'[n] # dir[n] PROVE FALSE
      <4>1. PICK q \in Launches : Fills(q, n) /\ At(q, n) /\ Stands(q, n)
        BY <1>3, <3>1, <3>3, AtStands
      <4>2. q = p
        BY <1>1, <3>1, <4>1 DEF Fills
      <4> QED
        BY <3>2, <4>1, <4>2 DEF Fills
    <3> QED
      BY <3>1, <3>3 DEF Whole
  <2>2. CASE \E m \in Files : At(p, m) /\ (Looks(p, m) \/ Begins(p, m))
    <3>1. PICK m \in Files : At(p, m) /\ (Looks(p, m) \/ Begins(p, m))
      BY <2>2
    <3>2. Begins(p, m)
      BY <1>1, <1>5, <3>1, NotingPlace DEF Looks
    <3>3. m = n
      BY <1>5, <3>1, <3>2, NotingPlace DEF Begins, Stands, At
    <3>4. dir'[n] = Begun(p)
      BY <3>2, <3>3, EntryChange DEF Begins
    <3>5. Begun(p) \in Entries /\ Begun(p).by = p /\ ~Begun(p).whole
      BY DEF Begun, Entries
    <3> QED
      BY <3>4, <3>5, NoneAssumption DEF Whole
  <2>3. CASE ~(\E m \in Files : At(p, m) /\ (Looks(p, m) \/ Begins(p, m)))
    <3>1. proc[p] \in Progress /\ ProcOf(p)
      BY DEF TypeInv, ProcInv
    <3>2. \A s : ~Passes(p, s)
      BY <1>1, <1>5 DEF Passes
    <3>3. proc'[p].file = proc[p].file
      <4>1. Starts(p) => proc'[p].file = proc[p].file
        BY <3>1 DEF Starts, Launch, Progress, TypeInv, ProcInv
      <4>2. proc'[p] = [proc[p] EXCEPT !.next = @ + 1] => proc'[p].file = proc[p].file
        BY <3>1 DEF Progress
      <4> QED
        BY <2>3, <3>2, <4>1, <4>2, PlaceChanges, HaltingPlace DEF Stays
    <3>4. PICK m \in Files : Stands(p, m)
      BY <1>1, <1>5, <3>1, <3>3 DEF ProcOf
    <3>5. m = n
      <4>1. Stands(p, m)'
        BY <3>2, <3>4, DoneSteps, StandingIsNotDone
      <4> QED
        BY <1>5, <4>1 DEF Stands
    <3> QED
      BY <1>5, <2>1, <3>3, <3>4, <3>5
  <2> QED
    BY <2>2, <2>3
<1> QED
  BY <1>4, <1>5

LEMMA FilesKept ==
  ASSUME TypeInv, MadeInv, FilesInv, PlayedInv, FailInv, AnyStep
  PROVE  FilesInv'
<1>1. Kept /\ Alone' = Alone
  BY EvidenceKept, SameExperiment
<1>2. ASSUME NEW p \in Launches, NEW n \in Files, Done(p, n)'
      PROVE  dir'[n] # None /\ (Alone => Whole(n)')
  <2>1. CASE Done(p, n)
    BY <1>1, <2>1, FileChanges DEF FilesInv, Kept, Whole
  <2>2. CASE Passes(p, n)
    <3>1. At(p, n) /\ (Writes(p, n) \/ Skips(p, n) \/ Fills(p, n))
      BY <2>2, PassingKind, FileSteps DEF Passes
    <3>2. Skips(p, n) => ~Alone /\ dir'[n] # None
      BY DEF Skips
    <3>3. Writes(p, n) \/ Fills(p, n) => dir'[n] = Entry(p, n)
      BY EntryChange DEF Writes, Fills
    <3> QED
      BY <3>1, <3>2, <3>3, EntryTyped DEF Whole
  <2> QED
    BY <1>2, <2>1, <2>2, DoneSteps
<1>3. ASSUME Alone, NEW n \in Files, dir'[n] # None
      PROVE  \E p \in Launches :
               /\ dir'.made = p
               /\ Done(p, n)' \/ (~Whole(n)' /\ Stands(p, n)' /\ proc'[p].end # None)
  <2>1. CASE dir'[n] = dir[n]
    <3>1. PICK p \in Launches :
            /\ dir.made = p
            /\ Done(p, n) \/ (~Whole(n) /\ Stands(p, n) /\ proc[p].end # None)
      BY <1>3, <2>1 DEF FilesInv
    <3>2. dir'.made = p
      BY <1>1, <3>1, NoneAssumption DEF Kept
    <3>3. CASE Done(p, n)
      BY <3>2, <3>3, DoneSteps
    <3>4. CASE ~Whole(n) /\ Stands(p, n) /\ proc[p].end # None
      <4>1. Stays(p) \/ Halts(p)
        <5>1. proc[p].step # 0 /\ ~Playing(p) /\ (\A s : ~Passes(p, s)) /\ (\A m : ~At(p, m))
          BY <3>4 DEF Stands, Playing, At, Passes
        <5> QED
          BY <5>1, PlaceChanges DEF Starts, Launch, Plays
      <4>2. Stands(p, n)' /\ proc'[p].end # None
        BY <3>4, <4>1, StayingPlace, HaltingPlace, SameExperiment, NoneAssumption DEF Stays, Halts
      <4> QED
        BY <2>1, <3>2, <3>4, <4>2 DEF Whole
    <3> QED
      BY <3>1, <3>3, <3>4
  <2>2. CASE dir'[n] # dir[n]
    <3>1. PICK p \in Launches :
            /\ At(p, n)
            /\ dir'[n].whole => Writes(p, n)
            /\ ~dir'[n].whole => Stops(p)
      BY <1>3, <2>2, FileChanges DEF Begins, Fills
    <3>2. Stands(p, n) /\ dir'.made = p
      BY <1>1, <1>3, <3>1, AtStands, Author, FileSteps, NoneAssumption DEF Kept
    <3>3. CASE dir'[n].whole
      BY <3>1, <3>2, <3>3, DoneSteps DEF Writes
    <3>4. CASE ~dir'[n].whole
      BY <3>1, <3>2, <3>4, HaltingPlace, NoneAssumption DEF Stops, Halts, Whole
    <3> QED
      BY <3>3, <3>4
  <2> QED
    BY <2>1, <2>2
<1> QED
  BY <1>1, <1>2, <1>3, SharedKept DEF FilesInv

LEMMA PlaysFinishes ==
  ASSUME TypeInv, FilesInv, PlayedInv, NEW p \in Launches, Plays(p),
         NEW area, NEW c, area = Area(p), c = Cell(p)
  PROVE  area \in Areas /\ c \in Cells /\ Finished(area, c)'
<1>1. PICK a \in Areas, d \in Cells, run \in Manifests \cup {None} :
        /\ a = Area(p) /\ d = Cell(p)
        /\ RunSet(a, d, run)
        /\ run = None => ~Plays(p)
        /\ run # None /\ run.stage = "open" => dir[a][d] = None
  BY RunStep
<1>2. run # None /\ run.stage # "open"
  BY <1>1 DEF Plays, InRun
<1>3. dir'[area][c] = run
  <2>1. RunSet(a, d, run)
    BY <1>1
  <2>2. dir'[a][d] = run
    BY <2>1 DEF RunSet, TypeInv, DirInv, Names
  <2> QED
    BY <1>1, <2>2
<1> QED
  BY <1>1, <1>2, <1>3 DEF Finished

LEMMA PlayedKept ==
  ASSUME TypeInv, MadeInv, FilesInv, PlayedInv, FailInv, AnyStep
  PROVE  PlayedInv'
<1>1. /\ Kept /\ experiment' = experiment /\ RecordsSourceLast' = RecordsSourceLast
      /\ \A area \in Areas : \A c \in Cells :
           Finished(area, c) => Finished(area, c)' /\ dir'[area][c] = dir[area][c]
      /\ \A area \in Areas : Completed(area) => Completed(area)'
  BY EvidenceKept, SameExperiment, KeptFacts
<1>2. ASSUME NEW p \in Launches, NEW s \in AllPlaySteps, NEW c \in Cells,
             Done(p, s)' \/ (Stands(p, s)' /\ c < proc'[p].next)
      PROVE  Finished(Where(p, s), c)'
  <2>1. proc[p].next \in Nat /\ c \in Nat /\ NumCells \in Nat /\ c > 0 /\ c <= NumCells
    BY ExecutionAssumption DEF TypeInv, ProcInv, Progress, Cells
  <2>2. Done(p, s) \/ Stands(p, s)
    <3>1. Stands(p, s)' /\ ~Stands(p, s) => proc'[p].next = 1
      BY DoneSteps
    <3> QED
      BY <1>2, <2>1, <3>1, DoneSteps, PassingPlace
  <2>3. PICK area \in Areas : area = Where(p, s) /\ Where(p, s)' = area
    BY <2>2, WhereKept
  <2>4. SUFFICES Finished(area, c)'
    BY <2>3 DEF Finished
  <2>5. Done(p, s) => Finished(area, c)'
    BY <1>1, <2>3 DEF PlayedInv
  <2>6. Stands(p, s) /\ c < proc[p].next => Finished(area, c)'
    BY <1>1, <2>3 DEF PlayedInv
  <2>7. Plays(p) /\ Stands(p, s) /\ c = proc[p].next => Finished(area, c)'
    <3>1. Plays(p) /\ Stands(p, s) => area = Area(p)
      BY <2>3, PlayingPlace DEF Plays, Stands
    <3> QED
      BY <3>1, PlaysFinishes DEF Cell
  <2>8. Passes(p, s) => Finished(area, c)'
    <3>1. ASSUME Passes(p, s) PROVE Plays(p) /\ proc[p].next = NumCells /\ Stands(p, s)
      BY <3>1, PassingKind, PassingPlace DEF PlaySteps, Files, AllPlaySteps, Cell
    <3>2. Passes(p, s) => c < proc[p].next \/ c = proc[p].next
      BY <2>1, <3>1
    <3> QED
      BY <2>6, <2>7, <3>1, <3>2
  <2>9. ASSUME Stands(p, s)', c < proc'[p].next PROVE Finished(area, c)'
    <3>1. Stands(p, s) /\ proc[p].step = proc'[p].step
      <4>1. ~(proc'[p].next = 1)
        BY <2>1, <2>9
      <4> QED
        BY <2>9, <4>1, DoneSteps
    <3>2. CASE proc'[p].next = proc[p].next
      BY <2>6, <2>9, <3>1, <3>2
    <3>3. CASE Plays(p) /\ proc'[p] = [proc[p] EXCEPT !.next = @ + 1]
      <4>1. proc'[p].next = proc[p].next + 1
        BY <3>3 DEF TypeInv, ProcInv, Progress
      <4>2. c < proc[p].next \/ c = proc[p].next
        BY <2>1, <2>9, <4>1
      <4> QED
        BY <2>6, <2>7, <3>1, <3>3, <4>2
    <3>4. \A t : ~Passes(p, t)
      <4>1. SUFFICES ASSUME NEW t, Passes(p, t) PROVE FALSE
        OBVIOUS
      <4>2. t = s
        BY <3>1, <4>1, PassingPlace DEF Stands
      <4> QED
        BY <2>9, <4>1, <4>2, PassingPlace
    <3>5. ~Starts(p)
      BY <3>1 DEF Stands, Starts, Launch
    <3>6. \A n \in Files : ~At(p, n)
      BY <3>1, FileSteps DEF Stands, At
    <3> QED
      BY <3>2, <3>3, <3>4, <3>5, <3>6, PlaceChanges, HaltingPlace DEF Stays
  <2> QED
    BY <1>2, <2>5, <2>8, <2>9, DoneSteps
<1>3. ASSUME NEW p \in Launches, Done(p, "status")' PROVE Completed(Where(p, "runs"))'
  <2>1. Done(p, "status") \/ Passes(p, "status")
    BY <1>3, DoneSteps
  <2>2. PICK area \in Areas : area = Where(p, "runs") /\ Where(p, "runs")' = area
    BY <2>1, WhereKept, PassingPlace DEF AllPlaySteps, PlaySteps
  <2>3. Completed(area)
    <3>1. CASE Done(p, "status")
      BY <2>2, <3>1 DEF PlayedInv
    <3>2. CASE Passes(p, "status")
      <4>1. Moves(p)
        BY <3>2, PassingKind DEF Files, AllPlaySteps, PlaySteps
      <4> QED
        BY <2>2, <3>2, <4>1 DEF Moves, Passes, At
    <3> QED
      BY <2>1, <3>1, <3>2
  <2> QED
    BY <1>1, <2>2, <2>3 DEF Completed
<1>4. ASSUME experiment = "atlas", NEW area \in Areas, NEW c \in Cells, dir'[area][c] # None
      PROVE  dir'[area][c].stage # "failed"
  <2>1. CASE dir'[area][c] = dir[area][c]
    BY <1>4, <2>1 DEF PlayedInv
  <2>2. CASE dir'[area][c] # dir[area][c]
    <3>1. dir'[area][c].stage \in {"open", "completed"}
      BY <1>4, <2>2, RunChanges
    <3> QED
      BY <3>1
  <2> QED
    BY <2>1, <2>2
<1>5. ASSUME RecordsSourceLast, NEW c \in Cells, dir'.fixed[c] # None
      PROVE  /\ dir'.runs[c] # None /\ dir'.runs[c].stage = "completed"
             /\ \A x \in {"commit", "dirty", "design"} : dir'.fixed[c][x] = dir'.runs[c][x]
  <2>1. /\ dir.runs[c] # None /\ dir.runs[c].stage = "completed"
        /\ \A x \in {"commit", "dirty", "design"} : dir'.fixed[c][x] = dir.runs[c][x]
    <3>1. CASE dir.fixed[c] # None /\ \A x \in {"commit", "dirty", "design"} : dir'.fixed[c][x] = dir.fixed[c][x]
      BY <1>5, <3>1 DEF PlayedInv
    <3>2. CASE ~(dir.fixed[c] # None /\ \A x \in {"commit", "dirty", "design"} : dir'.fixed[c][x] = dir.fixed[c][x])
      <4>1. dir'["fixed"][c] # dir["fixed"][c] /\ "fixed" \in Areas
        BY <1>5, <3>2, NamesApart
      <4>2. PICK p \in Launches :
              /\ "fixed" = Area(p) /\ c = Cell(p) /\ Playing(p)
              /\ dir'["fixed"][c].stage = "open" => dir'["fixed"][c] = Manifest(p)
              /\ dir'["fixed"][c].stage # "open" =>
                   /\ dir["fixed"][c] # None
                   /\ \A x \in {"commit", "dirty", "design"} : dir'["fixed"][c][x] = dir["fixed"][c][x]
        BY <1>5, <4>1, RunChanges
      <4>3. dir'["fixed"][c] = Manifest(p)
        BY <3>2, <4>2
      <4>4. Step(p) = "fixed"
        <5>1. Stands(p, Step(p)) /\ Step(p) \in PlaySteps("fixed")
          BY <1>5, <4>2, PlayingPlace DEF RecordsSourceLast, Alone
        <5>2. Step(p) # "probes"
          <6>1. proc[p].step \in DOMAIN ScriptOf(p) /\ Step(p) = ScriptOf(p)[proc[p].step]
            BY <5>1, PlaceTypes DEF Stands, Step, ScriptOf
          <6> QED
            BY <1>5, <6>1, PlaceTypes DEF WellMade, Belongs, RecordsSourceLast
        <5> QED
          BY <5>1, <5>2 DEF PlaySteps
      <4> QED
        BY <4>2, <4>3, <4>4, ManifestTyped
    <3> QED
      BY <3>1, <3>2
  <2>2. Finished("runs", c) /\ "runs" \in Areas
    BY <2>1, NamesApart DEF Finished
  <2> QED
    BY <1>1, <2>1, <2>2
<1> QED
  BY <1>1, <1>2, <1>3, <1>4, <1>5 DEF PlayedInv

LEMMA FailKept ==
  ASSUME TypeInv, MadeInv, FilesInv, PlayedInv, FailInv, AnyStep
  PROVE  FailInv'
<1>1. Kept /\ experiment' = experiment
  BY EvidenceKept, SameExperiment
<1>2. ASSUME dir.failure # None, dir'.failure = dir.failure PROVE FailInv'
  <2>1. PICK p \in Launches :
          /\ experiment = "audit" /\ dir.made = p
          /\ proc[p].end \in {"raised", "killed"} /\ proc[p].step > 0 /\ Catches(p)
          /\ dir.failure.by = p
          /\ dir.failure.whole => /\ dir.failure.phase = Phase(p)
                                  /\ dir.failure.rows = [c \in Cells |-> Status(dir.runs[c])]
    BY <1>2 DEF FailInv
  <2>2. \A s : ~At(p, s)
    BY <2>1, NoneAssumption DEF At
  <2>3. Stays(p)
    <3>1. ~Halts(p)
      BY <2>1, NoneAssumption DEF Halts
    <3>2. ~Starts(p)
      BY <2>1 DEF Starts, Launch
    <3>3. ~Plays(p) /\ \A s : ~Passes(p, s)
      BY <2>2 DEF Plays, Playing, Passes
    <3> QED
      BY <2>2, <3>1, <3>2, <3>3, PlaceChanges
  <2>4. Step(p)' = Step(p)
    BY <1>1, <2>3, StayingPlace
  <2>5. dir'.made = p
    BY <1>1, <2>1, NoneAssumption DEF Kept
  <2>6. ASSUME NEW c \in Cells PROVE dir'.runs[c] = dir.runs[c]
    <3>1. SUFFICES ASSUME dir'["runs"][c] # dir["runs"][c] PROVE FALSE
      OBVIOUS
    <3>2. PICK q \in Launches : Playing(q)
      BY <3>1, RunChanges, NamesApart
    <3>3. PICK s \in AllPlaySteps : At(q, s) /\ Stands(q, s)
      BY <3>2, PlayingPlace
    <3>4. dir.made = q
      BY <2>1, <3>3, Author DEF Alone, AllPlaySteps, PlaySteps
    <3> QED
      BY <2>1, <2>2, <3>3, <3>4
  <2>7. dir'.failure.whole => dir'.failure.rows = [c \in Cells |-> Status(dir'.runs[c])]
    BY <1>2, <2>1, <2>6
  <2>8. Catches(p)' /\ Phase(p)' = Phase(p)
    BY <1>1, <2>1, <2>4 DEF Catches, Phase
  <2> QED
    BY <1>1, <1>2, <2>1, <2>3, <2>5, <2>7, <2>8 DEF FailInv, Stays, Status
<1>3. ASSUME dir'.failure # dir.failure PROVE FailInv'
  <2>1. PICK p \in Launches :
          RetainFailure(p) \/ (TornRecord(p) /\ Stops(p) /\ proc'[p].end \in {"raised", "killed"})
    BY <1>3, FailureChanges
  <2>2. /\ experiment = "audit" /\ dir.made = p /\ proc[p].step > 0 /\ Catches(p)
        /\ proc[p].end = "failing" /\ proc[p] \in Progress /\ proc \in [Launches -> Progress]
    BY <2>1, OnlyOneFails DEF RetainFailure, TornRecord, TypeInv, ProcInv, ProcOf
  <2>3. Halts(p) /\ proc'[p].end \in {"raised", "killed"}
    <3>1. RetainFailure(p) => proc'[p].end = "raised"
      BY <2>2 DEF RetainFailure, Progress
    <3> QED
      BY <2>1, <3>1, RetainKind DEF Stops
  <2>4. Step(p)' = Step(p) /\ proc'[p].step = proc[p].step
    BY <2>3, HaltingPlace
  <2>5. dir'.made = p /\ dir'["runs"] = dir["runs"]
    BY <2>1, <2>2, Untouched, NamesApart
  <2>6. /\ dir'.failure # None => dir'.failure.by = p
        /\ dir'.failure.whole => /\ dir'.failure.phase = Phase(p)
                                 /\ dir'.failure.rows = [c \in Cells |-> Status(dir.runs[c])]
    <3>1. ASSUME RetainFailure(p)
          PROVE  dir'["failure"] = [by |-> p, whole |-> TRUE, phase |-> Phase(p),
                                    rows |-> [c \in Cells |-> Status(dir.runs[c])]]
      BY <3>1, EntryChange DEF RetainFailure
    <3>2. ASSUME TornRecord(p)
          PROVE  dir'["failure"] = [by |-> p, whole |-> FALSE, phase |-> None, rows |-> None]
      BY <3>2, EntryChange DEF TornRecord
    <3> QED
      BY <2>1, <3>1, <3>2
  <2>7. Catches(p)' /\ Phase(p)' = Phase(p)
    BY <1>1, <2>2, <2>4 DEF Catches, Phase
  <2>8. dir'.failure.whole => dir'.failure.rows = [c \in Cells |-> Status(dir'.runs[c])]
    BY <2>5, <2>6
  <2> QED
    BY <1>1, <2>2, <2>3, <2>4, <2>5, <2>6, <2>7, <2>8 DEF FailInv, Status
<1>4. CASE dir.failure = None /\ dir'.failure = dir.failure
  BY <1>4 DEF FailInv
<1> QED
  BY <1>2, <1>3, <1>4

\* The graph experiment plays runs and nothing else.
LEMMA GraphPlays ==
  ASSUME TypeInv, ~Alone, NEW p \in Launches, Playing(p)
  PROVE  /\ Area(p) = Where(p, "runs") /\ Area(p) \in Designs
         /\ At(p, "runs") /\ Stands(p, "runs") /\ proc[p].end = None
<1>1. At(p, Step(p)) /\ Stands(p, Step(p)) /\ Area(p) = Where(p, Step(p)) /\ Step(p) \in {"episodes", "runs", "profiles", "fixed", "probes"}
  BY PlayingPlace DEF AllPlaySteps, PlaySteps
<1>2. proc[p].step \in DOMAIN ScriptOf(p) /\ Step(p) = ScriptOf(p)[proc[p].step]
  BY <1>1, PlaceTypes DEF Stands, Step, ScriptOf
<1>3. Step(p) = "runs"
  BY <1>1, <1>2, PlaceTypes DEF WellMade, Belongs, Alone, RecordsSourceLast
<1>4. Where(p, "runs") \in Designs
  BY <1>1, <1>3, RootsAreKnown DEF RootsKnown, AllPlaySteps, PlaySteps
<1> QED
  BY <1>1, <1>3, <1>4 DEF At

LEMMA GraphKept ==
  ASSUME TypeInv, MadeInv, FilesInv, PlayedInv, FailInv, GraphInv, AnyStep
  PROVE  GraphInv'
<1> SUFFICES ASSUME ~Alone
    PROVE  /\ \A area \in {"runs", "fixed"} : \A c \in Cells : dir'[area][c] = None
           /\ \A root \in Designs : \A c \in Cells : dir'[root][c] # None =>
                \E p \in Launches :
                  /\ dir'[root][c].by = p /\ dir'[root][1] # None /\ dir'[root][1].by = p
                  /\ Done(p, "runs")' \/ Stands(p, "runs")'
           /\ \A p \in Launches : \A root \in Designs : At(p, "runs")' /\ root = Where(p, "runs")' =>
                /\ proc'[p].next > 1 => dir'[root][1] # None /\ dir'[root][1].by = p
                /\ dir'[root][1] # None /\ dir'[root][1].by = p =>
                     \A c \in Cells : c > proc'[p].next => dir'[root][c] = None
  BY SameExperiment DEF GraphInv
<1>1. 1 \in Cells /\ Designs \subseteq Areas /\ {"runs", "fixed"} \subseteq Areas
  BY ExecutionAssumption, NamesApart DEF Cells
\* A run changes only in the hands of its launch, which stands at that cell.
<1>2. ASSUME NEW root \in Areas, NEW c \in Cells, dir'[root][c] # dir[root][c]
      PROVE  /\ root \in Designs
             /\ \E p \in Launches :
                  /\ At(p, "runs") /\ Stands(p, "runs") /\ c = proc[p].next /\ root = Where(p, "runs")
                  /\ dir[root][c] # None => dir[root][c].by = p
                  /\ dir'[root][c] # None => dir'[root][c].by = p
                  /\ \A d \in Cells \ {c} : dir'[root][d] = dir[root][d]
  <2>1. PICK p \in Launches :
          /\ root = Area(p) /\ c = Cell(p) /\ Playing(p)
          /\ dir[root][c] # None => dir[root][c].by = p
          /\ \A d \in Cells \ {c} : dir'[root][d] = dir[root][d]
          /\ dir'[root][c] # None => dir'[root][c].by = p
    BY <1>2, RunChanges
  <2>2. /\ Area(p) = Where(p, "runs") /\ Area(p) \in Designs
        /\ At(p, "runs") /\ Stands(p, "runs")
    BY <2>1, GraphPlays
  <2> QED
    BY <2>1, <2>2 DEF Cell
<1>3. ASSUME NEW area \in {"runs", "fixed"}, NEW c \in Cells PROVE dir'[area][c] = None
  <2>1. dir'[area][c] = dir[area][c]
    BY <1>1, <1>2, NamesApart
  <2> QED
    BY <2>1 DEF GraphInv
<1>4. ASSUME NEW root \in Designs, NEW c \in Cells, dir'[root][c] # None
      PROVE  \E p \in Launches :
               /\ dir'[root][c].by = p /\ dir'[root][1] # None /\ dir'[root][1].by = p
               /\ Done(p, "runs")' \/ Stands(p, "runs")'
  <2>1. CASE dir'[root][c] = dir[root][c]
    <3>1. PICK p \in Launches :
            /\ dir[root][c].by = p /\ dir[root][1] # None /\ dir[root][1].by = p
            /\ Done(p, "runs") \/ Stands(p, "runs")
      BY <1>4, <2>1 DEF GraphInv
    <3>2. dir'[root][1] # None /\ dir'[root][1].by = p
      <4>1. SUFFICES ASSUME dir'[root][1] # dir[root][1] PROVE dir'[root][1] # None /\ dir'[root][1].by = p
        BY <3>1
      <4>2. /\ At(p, "runs") /\ proc[p].next = 1 /\ root = Where(p, "runs")
            /\ dir'[root][1] # None => dir'[root][1].by = p
        BY <1>1, <1>2, <3>1, <4>1
      <4>3. c = 1
        <5>1. ~(c > 1)
          BY <1>4, <2>1, <3>1, <4>2 DEF GraphInv
        <5> QED
          BY <5>1, ExecutionAssumption DEF Cells
      <4> QED
        BY <1>4, <4>2, <4>3
    <3> QED
      BY <2>1, <3>1, <3>2, DoneSteps
  <2>2. CASE dir'[root][c] # dir[root][c]
    <3>1. PICK p \in Launches :
            /\ At(p, "runs") /\ Stands(p, "runs") /\ c = proc[p].next /\ root = Where(p, "runs")
            /\ dir'[root][c].by = p
            /\ \A d \in Cells \ {c} : dir'[root][d] = dir[root][d]
      BY <1>1, <1>2, <1>4, <2>2
    <3>2. dir'[root][1] # None /\ dir'[root][1].by = p
      <4>1. CASE c = 1
        BY <1>4, <3>1, <4>1
      <4>2. CASE c # 1
        <5>1. proc[p].next > 1
          BY <3>1, <4>2, ExecutionAssumption DEF Cells
        <5> QED
          BY <1>1, <3>1, <4>2, <5>1 DEF GraphInv
      <4> QED
        BY <4>1, <4>2
    <3> QED
      BY <3>1, <3>2, DoneSteps
  <2> QED
    BY <2>1, <2>2
<1>5. ASSUME NEW p \in Launches, NEW root \in Designs, At(p, "runs")', root = Where(p, "runs")'
      PROVE  /\ proc'[p].next > 1 => dir'[root][1] # None /\ dir'[root][1].by = p
             /\ dir'[root][1] # None /\ dir'[root][1].by = p =>
                  \A c \in Cells : c > proc'[p].next => dir'[root][c] = None
  <2>1. Stands(p, "runs")' /\ proc'[p].end = None
    BY <1>5, NoneAssumption DEF At, Stands
  <2>2. CASE ~(Stands(p, "runs") /\ proc[p].step = proc'[p].step)
    <3>1. ~Done(p, "runs") /\ ~Stands(p, "runs") /\ proc'[p].next = 1
      BY <2>1, <2>2, DoneSteps
    <3>2. ~(dir'[root][1] # None /\ dir'[root][1].by = p)
      <4>1. CASE dir'[root][1] = dir[root][1]
        BY <1>1, <3>1, <4>1 DEF GraphInv
      <4>2. CASE dir'[root][1] # dir[root][1]
        BY <1>1, <1>2, <3>1, <4>2
      <4> QED
        BY <4>1, <4>2
    <3> QED
      BY <3>1, <3>2
  <2>3. CASE Stands(p, "runs") /\ proc[p].step = proc'[p].step
    <3>0. root = Where(p, "runs")
      BY <1>5, <2>3, WhereKept DEF AllPlaySteps, PlaySteps
    <3>1. /\ At(p, "runs") /\ proc[p] \in Progress
          /\ \/ Stays(p)
             \/ Plays(p) /\ proc'[p] = [proc[p] EXCEPT !.next = @ + 1]
      <4>1. ~Halts(p)
        BY <2>1, NoneAssumption DEF Halts
      <4>2. ~Starts(p)
        BY <2>3 DEF Stands, Starts, Launch
      <4>3. \A s : ~Passes(p, s)
        <5>1. SUFFICES ASSUME NEW s, Passes(p, s) PROVE FALSE
          OBVIOUS
        <5>2. s = "runs"
          BY <2>3, <5>1, PassingPlace DEF Stands
        <5> QED
          BY <2>1, <5>1, <5>2, PassingPlace
      <4>4. Stays(p) \/ (Plays(p) /\ proc'[p] = [proc[p] EXCEPT !.next = @ + 1])
        <5>1. \A n \in Files : ~At(p, n)
          BY <2>3 DEF Stands, At, Files
        <5> QED
          BY <4>1, <4>2, <4>3, <5>1, PlaceChanges
      <4>5. proc[p].end = None
        BY <2>1, <4>4, GraphPlays DEF Stays, Plays
      <4> QED
        BY <2>3, <4>4, <4>5 DEF Stands, At, TypeInv, ProcInv
    <3>2. /\ proc[p].next \in Cells /\ proc[p].next \in Nat /\ proc[p].next >= 1
          /\ proc'[p].next = proc[p].next \/ (Plays(p) /\ proc'[p].next = proc[p].next + 1)
      BY <3>1, ExecutionAssumption DEF Progress, Stays, Cells
    \* If the first cell is this launch's, no other plays, and it has not come further.
    <3>3. ASSUME dir[root][1] # None, dir[root][1].by = p, NEW c \in Cells, c > proc[p].next
          PROVE  dir'[root][c] = None
      <4>1. dir[root][c] = None
        BY <1>5, <3>0, <3>1, <3>3 DEF GraphInv
      <4>2. SUFFICES ASSUME dir'[root][c] # dir[root][c] PROVE FALSE
        BY <4>1
      <4>3. PICK q \in Launches : At(q, "runs") /\ c = proc[q].next /\ root = Where(q, "runs")
        BY <1>1, <1>2, <4>2
      <4>4. proc[q].next > 1
        BY <3>2, <3>3, <4>3, ExecutionAssumption DEF Cells
      <4>5. q = p
        BY <3>3, <4>3, <4>4 DEF GraphInv
      <4> QED
        BY <3>2, <3>3, <4>3, <4>5
    <3>4. ASSUME dir[root][1] # None, dir[root][1].by = p, dir'[root][1] # None
          PROVE  dir'[root][1].by = p
      BY <1>1, <1>2, <3>4
    <3>5. CASE proc'[p].next = proc[p].next
      <4>1. ASSUME proc[p].next > 1 PROVE dir'[root][1] # None /\ dir'[root][1].by = p
        <5>1. dir[root][1] # None /\ dir[root][1].by = p
          BY <3>0, <3>1, <4>1 DEF GraphInv
        <5>2. dir'[root][1] = dir[root][1]
          <6>1. SUFFICES ASSUME dir'[root][1] # dir[root][1] PROVE FALSE
            OBVIOUS
          <6>2. proc[p].next = 1
            BY <1>1, <1>2, <5>1, <6>1
          <6> QED
            BY <4>1, <6>2
        <5> QED
          BY <5>1, <5>2
      <4>2. ASSUME dir'[root][1] # None, dir'[root][1].by = p, NEW c \in Cells, c > proc[p].next
            PROVE  dir'[root][c] = None
        <5>1. CASE dir[root][1] # None /\ dir[root][1].by = p
          BY <3>3, <4>2, <5>1
        <5>2. CASE ~(dir[root][1] # None /\ dir[root][1].by = p)
          <6>1. dir'[root][1] # dir[root][1]
            BY <4>2, <5>2
          <6>2. dir[root][1] = None /\ \A d \in Cells \ {1} : dir'[root][d] = dir[root][d]
            BY <1>1, <1>2, <4>2, <5>2, <6>1
          <6>3. c # 1
            BY <3>2, <4>2
          <6>4. dir[root][c] = None
            BY <6>2 DEF GraphInv
          <6> QED
            BY <6>2, <6>3, <6>4
        <5> QED
          BY <5>1, <5>2
      <4> QED
        BY <3>5, <4>1, <4>2
    <3>6. CASE Plays(p) /\ proc'[p].next = proc[p].next + 1
      <4>1. Area(p) = root /\ Cell(p) = proc[p].next /\ dir[root][proc[p].next] # None
            /\ dir[root][proc[p].next].by = p
        BY <3>0, <3>6, GraphPlays DEF Plays, InRun, Cell
      <4>2. dir[root][1] # None /\ dir[root][1].by = p
        <5>1. CASE proc[p].next = 1
          BY <4>1, <5>1
        <5>2. CASE proc[p].next > 1
          BY <3>0, <3>1, <5>2 DEF GraphInv
        <5> QED
          BY <3>2, <5>1, <5>2
      <4>3. dir'[root][1] # None
        <5>1. CASE proc[p].next = 1
          <6>1. Finished(root, 1)'
            BY <3>6, <4>1, <5>1, PlaysFinishes
          <6> QED
            BY <6>1 DEF Finished
        <5>2. CASE proc[p].next # 1
          <6>1. SUFFICES ASSUME dir'[root][1] # dir[root][1] PROVE FALSE
            BY <4>2
          <6> QED
            BY <1>1, <1>2, <4>2, <5>2, <6>1
        <5> QED
          BY <5>1, <5>2
      <4>4. \A c \in Cells : c > proc[p].next + 1 => c > proc[p].next
        BY <3>2 DEF Cells
      <4> QED
        BY <3>3, <3>4, <3>6, <4>2, <4>3, <4>4
    <3> QED
      BY <3>2, <3>5, <3>6
  <2> QED
    BY <2>2, <2>3
<1> QED
  BY <1>3, <1>4, <1>5

LEMMA AtlasKept ==
  ASSUME TypeInv, MadeInv, FilesInv, PlayedInv, FailInv, AtlasInv, AnyStep
  PROVE  AtlasInv'
<1> SUFFICES ASSUME experiment = "atlas", NEW p \in Launches, proc'[p].taken # None
    PROVE  /\ changes' = 0 => DesignOf[tree'.work] = proc'[p].taken.design
           /\ changes' < 2 /\ DesignOf[tree'.work] = proc'[p].taken.design =>
                \A area \in Areas : \A c \in Cells :
                  dir'[area][c] # None /\ dir'[area][c].by = p =>
                    dir'[area][c].design = proc'[p].taken.design
  BY SameExperiment DEF AtlasInv
<1>1. Alone /\ changes \in Nat /\ FindStep = "compare"
  BY DEF Alone, FindStep, TypeInv
<1>2. CASE Quiet
  BY <1>1, <1>2 DEF Quiet, AtlasInv
<1>3. CASE UNCHANGED <<tree, changes>> /\ proc'[p].taken = proc[p].taken
  <2>1. ASSUME changes < 2, DesignOf[tree.work] = proc[p].taken.design,
               NEW area \in Areas, NEW c \in Cells, dir'[area][c] # None, dir'[area][c].by = p
        PROVE  dir'[area][c].design = proc[p].taken.design
    <3>1. CASE dir[area][c] # None /\ dir[area][c].by = p /\ dir'[area][c].design = dir[area][c].design
      BY <1>3, <2>1, <3>1 DEF AtlasInv
    <3>2. CASE ~(dir[area][c] # None /\ dir[area][c].by = p /\ dir'[area][c].design = dir[area][c].design)
      <4>1. dir'[area][c] # dir[area][c]
        BY <2>1, <3>2
      <4>2. PICK q \in Launches :
              /\ Playing(q) /\ dir'[area][c].by = q
              /\ dir[area][c] # None => dir[area][c].by = q
              /\ dir'[area][c].stage = "open" => dir'[area][c] = Manifest(q)
              /\ dir'[area][c].stage # "open" =>
                   /\ dir[area][c] # None
                   /\ \A x \in {"commit", "dirty", "design"} : dir'[area][c][x] = dir[area][c][x]
        BY <2>1, <4>1, RunChanges
      <4>3. dir'[area][c] = Manifest(q)
        BY <2>1, <3>2, <4>2
      <4>4. Step(q) \in {"profiles", "probes"}
        <5>1. Stands(q, Step(q)) /\ Step(q) \in {"episodes", "runs", "profiles", "fixed", "probes"}
          BY <4>2, PlayingPlace DEF AllPlaySteps, PlaySteps
        <5>2. proc[q].step \in DOMAIN ScriptOf(q) /\ Step(q) = ScriptOf(q)[proc[q].step]
          BY <5>1, PlaceTypes DEF Stands, Step, ScriptOf
        <5> QED
          BY <5>1, <5>2, PlaceTypes DEF WellMade, Belongs, RunsAStudy, RecordsSourceLast
      <4>5. Manifest(q).design = DesignOf[tree.work]
        BY <4>2, <4>4, ManifestTyped DEF Basis
      <4> QED
        BY <2>1, <4>3, <4>5
    <3> QED
      BY <3>1, <3>2
  <2> QED
    BY <1>3, <2>1 DEF AtlasInv
<1>4. CASE UNCHANGED <<tree, changes>> /\ proc'[p].taken # proc[p].taken
  <2>1. Passes(p, "provenance") /\ proc'[p].taken = Source /\ Stands(p, "provenance")
    BY <1>4, FoundChanges, PassingPlace
  <2>2. DesignOf[tree'.work] = proc'[p].taken.design
    BY <1>4, <2>1 DEF Source
  <2>3. ASSUME NEW area \in Areas, NEW c \in Cells, dir'[area][c] # None, dir'[area][c].by = p PROVE FALSE
    <3>1. \E s \in PlaySteps(area) : Done(p, s) \/ Stands(p, s)
      <4>1. CASE dir'[area][c] = dir[area][c]
        BY <1>1, <2>3, <4>1 DEF MadeInv
      <4>2. CASE dir'[area][c] # dir[area][c]
        <5>1. area = Area(p) /\ Playing(p)
          BY <2>3, <4>2, RunChanges
        <5>2. Step(p) \in PlaySteps(area) /\ Stands(p, Step(p))
          BY <1>1, <5>1, PlayingPlace
        <5> QED
          BY <5>2
      <4> QED
        BY <4>1, <4>2
    <3>2. PICK s \in PlaySteps(area) : Done(p, s) \/ Stands(p, s)
      BY <3>1
    <3>3. s \in {"profiles", "probes"}
      <4>1. \E i \in DOMAIN ScriptOf(p) : ScriptOf(p)[i] = s
        BY <3>2, PlaceTypes DEF Done, Stands, Step, ScriptOf
      <4> QED
        BY <4>1, PlaceTypes DEF WellMade, Belongs, PlaySteps, RunsAStudy, RecordsSourceLast
    <3>4. Before(ScriptOf(p), "provenance", s)
      BY <3>3, OrderOf DEF Ordered
    <3>5. Done(p, "provenance")
      BY <3>2, <3>4, InOrder
    <3> QED
      BY <2>1, <3>5, StandingIsNotDone
  <2> QED
    BY <2>2, <2>3
<1>5. Quiet \/ UNCHANGED <<tree, changes>>
  BY DEF AnyStep, Kind, Starts, Launch, Moves, Makes, Writes, Shares, Skips, Looks, Begins, Fills,
         Opens, Plays, RetainFailure, Stops
<1> QED
  BY <1>2, <1>3, <1>4, <1>5

(* What lets a launch collect is the evidence its result will rest on. *)
LEMMA FindsEvidence ==
  ASSUME TypeInv, MadeInv, FilesInv, PlayedInv, AtlasInv, NEW p \in Launches, Moves(p),
         NEW s \in {"collect", "compare"}, s = FindStep, Passes(p, s)
  PROVE  Evidence(Result(p).design)
<1>1. /\ At(p, s) /\ Stands(p, s) /\ Ordered(ScriptOf(p)) /\ ProcOf(p)
      /\ s = "collect" => Collectable(p)
      /\ s = "compare" => DesignOf[tree.work] = proc[p].taken.design
  BY OrderOf, PassingPlace DEF Moves, Passes, At, TypeInv, ProcInv
<1>2. Result(p).design = IF experiment = "graph" THEN DesignOf[proc[p].loaded] ELSE DesignOf[tree.work]
  BY DEF Result
<1>3. CASE experiment = "audit"
  <2>1. AuditCollects /\ s = "collect"
    BY <1>1, <1>3 DEF Collectable, FindStep
  <2>2. Done(p, "source")
    BY <1>1, <1>3, <2>1, InOrder DEF Ordered
  <2>3. Whole("source")
    BY <1>3, <2>2 DEF FilesInv, Files, Alone
  <2> QED
    BY <1>2, <1>3, <2>1, <2>3
       DEF AuditCollects, AuditInputsAgree, AuditSourceIsBound, AuditBranchesAgree, AuditRests, Evidence,
           RootOf, Whole
<1>4. CASE experiment = "graph"
  <2>1. GraphCollects(DesignOf[proc[p].loaded])
    BY <1>1, <1>4 DEF Collectable, FindStep
  <2> QED
    BY <1>2, <1>4, <2>1 DEF GraphCollects, GraphSourceAgrees, GraphRests, Evidence, RootOf
<1>5. CASE experiment = "atlas"
  <2>1. s = "compare" /\ Alone
    BY <1>5 DEF FindStep, Alone
  <2>2. Done(p, "profiles") /\ Done(p, "probes") /\ Done(p, "provenance")
    BY <1>1, <1>5, <2>1, InOrder DEF Ordered
  <2>3. proc[p].taken # None
    BY <1>1, <2>2 DEF ProcOf
  <2>4. ASSUME NEW area \in {"runs", "fixed"} PROVE Completed(area) /\ area \in Areas
    <3>1. PICK t \in AllPlaySteps : Done(p, t) /\ Where(p, t) = area
      BY <2>2 DEF AllPlaySteps, PlaySteps, Where
    <3>2. \A c \in Cells : Finished(area, c) /\ dir[area][c] \in Manifests \cup {None} /\ area \in Areas
      BY <3>1, NamesApart DEF PlayedInv, TypeInv, DirInv
    <3> QED
      BY <1>5, <3>2, NamesApart DEF Finished, PlayedInv, Completed, Manifests
  <2>5. dir.made = p
    BY <1>1, <2>1, Author
  <2>6. ASSUME changes < 2, NEW area \in {"runs", "fixed"}, NEW c \in Cells
        PROVE  dir[area][c].design = DesignOf[tree.work]
    <3>1. dir[area][c] # None
      BY <2>4 DEF Completed
    <3>2. dir[area][c].by = p
      BY <2>1, <2>4, <2>5, <3>1 DEF MadeInv
    <3> QED
      BY <1>1, <1>5, <2>1, <2>3, <2>4, <2>6, <3>1, <3>2 DEF AtlasInv
  <2> QED
    BY <1>2, <1>5, <2>4, <2>6 DEF AtlasRests, Evidence, RootOf
<1>6. CASE experiment \in {"noisy", "quality", "responsive", "ablation"}
  <2>1. StudyCollects
    BY <1>1, <1>6 DEF Collectable, FindStep
  <2>2. \A c \in Cells : dir.fixed[c] # None
    BY <2>1 DEF StudyCollects, Completed
  <2>3. \A c \in Cells : \A x \in {"commit", "dirty", "design"} : dir.fixed[c][x] = dir.runs[c][x]
    BY <1>6, <2>2 DEF PlayedInv, RecordsSourceLast
  <2> QED
    BY <1>6, <2>1, <2>3 DEF StudyCollects, StudyRests, Evidence, RootOf
<1> QED
  BY <1>3, <1>4, <1>5, <1>6, ExecutionAssumption DEF TypeInv

LEMMA GatheredKept ==
  ASSUME TypeInv, MadeInv, FilesInv, PlayedInv, FailInv, AtlasInv, GatheredInv, AnyStep
  PROVE  GatheredInv'
<1>1. /\ \A n \in Files : Whole(n) => Whole(n)' /\ dir'[n] = dir[n]
      /\ \A design \in Designs : Evidence(design) => Evidence(design)'
      /\ "results" \in Files /\ "readout" \in Files /\ "source" \in Files
  BY EvidenceKept, SameExperiment, KeptFacts DEF Files
<1>2. ASSUME NEW p \in Launches, proc[p].result # None
      PROVE  proc'[p].result = proc[p].result
  <2>1. SUFFICES ASSUME proc'[p].result # proc[p].result PROVE FALSE
    OBVIOUS
  <2>2. PICK s \in {"collect", "compare"} : s = FindStep /\ Passes(p, s)
    BY <2>1, FoundChanges
  <2>3. Done(p, s)
    BY <1>2, <2>2 DEF TypeInv, ProcInv, ProcOf
  <2> QED
    BY <2>2, <2>3, PassingPlace
<1>3. ASSUME NEW p \in Launches, proc'[p].result # None
      PROVE  Evidence(proc[p].result.design)'
  <2>1. PICK result : result = proc'[p].result
    OBVIOUS
  <2>2. PICK design : design = result.design
    OBVIOUS
  <2>3. CASE result = proc[p].result
    <3>1. Evidence(proc[p].result.design)
      BY <1>3, <2>1, <2>3 DEF GatheredInv
    <3>2. proc[p].result.design = design /\ design \in Designs
      BY <1>3, <2>1, <2>2, <2>3 DEF TypeInv, ProcInv, Progress, Results
    <3>3. Evidence(design)
      BY <3>1, <3>2
    <3>4. Evidence(design)'
      BY <3>2, <3>3, KeptFacts, EvidenceKept, SameExperiment
    <3> QED
      BY <2>1, <2>2, <3>4
  <2>4. CASE result # proc[p].result
    <3>1. PICK s \in {"collect", "compare"} : s = FindStep /\ Passes(p, s) /\ proc'[p].result = Result(p)
      BY <2>1, <2>4, FoundChanges
    <3>2. Moves(p)
      BY <3>1, PassingKind DEF Files, AllPlaySteps, PlaySteps
    <3>3. design = Result(p).design /\ design \in Designs
      BY <2>1, <2>2, <3>1, <3>2, ResultTyped DEF Passes, Moves, At, Results
    <3>4. Evidence(Result(p).design)
      BY <3>1, <3>2, FindsEvidence
    <3>5. Evidence(design)
      BY <3>3, <3>4
    <3>6. Evidence(design)'
      BY <3>3, <3>5, KeptFacts, EvidenceKept, SameExperiment
    <3> QED
      BY <2>1, <2>2, <3>6
  <2> QED
    BY <2>3, <2>4
<1>4. ASSUME NEW n \in {"results", "readout"}, Whole(n)'
      PROVE  \E p \in Launches : proc'[p].result # None /\ dir'[n].of = proc'[p].result
  <2>1. CASE dir'[n] = dir[n]
    <3>1. PICK p \in Launches : proc[p].result # None /\ dir[n].of = proc[p].result
      BY <1>4, <2>1 DEF Whole, GatheredInv
    <3> QED
      BY <1>2, <2>1, <3>1
  <2>2. CASE dir'[n] # dir[n]
    <3>1. n \in Files
      BY <1>1
    <3>2. PICK p \in Launches : At(p, n) /\ dir'[n] = Entry(p, n)
      BY <1>4, <2>2, <3>1, FileChanges DEF Whole
    <3>3. proc[p].result # None
      BY <3>1, <3>2, EntryTyped
    <3>4. dir'[n].of = proc[p].result
      BY <3>2 DEF Entry, Content
    <3> QED
      BY <1>2, <3>3, <3>4
  <2> QED
    BY <2>1, <2>2
<1>5. ASSUME Alone, dir'.readout # None PROVE Whole("results")'
  <2>1. CASE dir'.readout = dir.readout
    BY <1>1, <1>5, <2>1 DEF GatheredInv
  <2>2. CASE dir'.readout # dir.readout
    <3>1. PICK n \in Files : n = "readout"
      BY <1>1
    <3>2. PICK p \in Launches : At(p, n)
      BY <2>2, <3>1, FileChanges
    <3>3. Done(p, "results")
      BY <3>1, <3>2, AtStands, OrderOf, InOrder DEF Ordered
    <3> QED
      BY <1>1, <1>5, <3>3 DEF FilesInv
  <2> QED
    BY <2>1, <2>2
<1>6. ASSUME RecordsSourceLast, dir'.source # None PROVE Whole("results")' /\ Whole("readout")'
  <2>1. CASE dir'.source = dir.source
    BY <1>1, <1>6, <2>1 DEF GatheredInv
  <2>2. CASE dir'.source # dir.source
    <3>1. PICK n \in Files : n = "source"
      BY <1>1
    <3>2. PICK p \in Launches : At(p, n)
      BY <2>2, <3>1, FileChanges
    <3>3. Done(p, "readout")
      BY <1>6, <3>1, <3>2, AtStands, OrderOf, InOrder DEF Ordered
    <3>4. Done(p, "results")
      BY <3>3, OrderOf, InOrder DEF Ordered
    <3> QED
      BY <1>1, <1>6, <3>3, <3>4 DEF FilesInv, Alone, RecordsSourceLast
  <2> QED
    BY <2>1, <2>2
<1> QED
  BY <1>3, <1>4, <1>5, <1>6, SameExperiment DEF GatheredInv, Alone, RecordsSourceLast

-----------------------------------------------------------------------------
(* The theorems *)

LEMMA InitHolds == Init => IInv
<1> SUFFICES ASSUME Init PROVE IInv
  OBVIOUS
<1>1. /\ experiment \in Experiments /\ changes = 0
      /\ tree \in [work : Versions, head : Versions]
      /\ \A p \in Launches :
           /\ proc[p].kind = "record" /\ proc[p].step = 0 /\ proc[p].next = 1 /\ proc[p].end = None
           /\ proc[p].taken = None /\ proc[p].study = None /\ proc[p].result = None
           /\ proc[p].loaded = None /\ proc[p].file = None
  BY DEF Init
<1>2. proc \in [Launches -> Progress] /\ 1 \in Cells
  <2>1. 1 \in Cells
    BY ExecutionAssumption DEF Cells
  <2> QED
    BY <2>1 DEF Init, Progress, Ends
<1>3. /\ dir = [n \in Names |-> dir[n]]
      /\ \A n \in Files \cup {"failure", "made"} : dir[n] = None
      /\ \A area \in Areas : dir[area] = [c \in Cells |-> None]
  BY NamesApart DEF Init, Names
<1>4. \A p \in Launches : \A s : ~Done(p, s) /\ ~Stands(p, s) /\ ~At(p, s)
  <2>1. ASSUME NEW p \in Launches
        PROVE  DOMAIN ScriptOf(p) \subseteq Nat \ {0} /\ Behind(p) = 0 /\ Len(ScriptOf(p)) \in Nat
    BY <1>1, ScriptsWellMade, NoneAssumption DEF WellMade, ScriptOf, Behind
  <2> QED
    BY <1>1, <2>1 DEF Done, Stands, At
<1>5. ProcInv
  <2>1. \A p \in Launches : Len(ScriptOf(p)) \in Nat
    BY <1>1, ScriptsWellMade DEF WellMade, ScriptOf
  <2>2. ASSUME NEW p \in Launches PROVE ProcOf(p)
    <3>1. ~Done(p, FindStep)
      <4>1. PICK f : f = FindStep
        OBVIOUS
      <4> QED
        BY <1>4, <4>1
    <3> QED
      BY <1>1, <1>4, <2>1, <3>1, NoneAssumption DEF ProcOf
  <2> QED
    BY <1>2, <2>2 DEF ProcInv
<1>6. DirInv
  BY <1>3 DEF DirInv, Files, Whole
<1>7. TypeInv
  BY <1>1, <1>5, <1>6 DEF TypeInv
<1>8. MadeInv /\ FilesInv /\ FailInv
  <2>1. MadeInv /\ FailInv
    BY <1>3, <1>4, NoneAssumption DEF MadeInv, FailInv
  <2>2. FilesInv
    BY <1>3, <1>4 DEF FilesInv, SharedInv
  <2> QED
    BY <2>1, <2>2
<1>9. PlayedInv /\ GraphInv /\ AtlasInv
  BY <1>1, <1>3, <1>4, NamesApart DEF PlayedInv, GraphInv, AtlasInv
<1>10. GatheredInv
  BY <1>1, <1>3 DEF GatheredInv, Whole, Files
<1> QED
  BY <1>7, <1>8, <1>9, <1>10 DEF IInv

LEMMA IInvKept == IInv /\ [Next]_vars => IInv'
<1> SUFFICES ASSUME IInv, [Next]_vars PROVE IInv'
  OBVIOUS
<1>1. /\ TypeInv /\ MadeInv /\ FilesInv /\ PlayedInv
      /\ FailInv /\ GraphInv /\ AtlasInv /\ GatheredInv
  BY DEF IInv
<1>2. proc' \in [Launches -> Progress] /\ AnyStep
  BY <1>1, StepKinds
<1>3. TypeInv'
  <2>1. ProcInv' /\ DirInv'
    BY <1>1, <1>2, ProcKept, DirKept
  <2>2. experiment' = experiment /\ (changes' = changes + 1 \/ changes' = changes)
    BY <1>1, <1>2, SameExperiment
  <2>3. tree' \in [work : Versions, head : Versions]
    BY <1>1, <1>2 DEF TypeInv, AnyStep, Quiet, Kind, Starts, Launch, Moves, Makes, Writes, Shares, Skips,
                      Looks, Begins, Fills, Opens, Plays, RetainFailure, Stops
  <2> QED
    BY <1>1, <2>1, <2>2, <2>3 DEF TypeInv
<1>4. MadeInv' /\ FilesInv' /\ PlayedInv' /\ FailInv'
  BY <1>1, <1>2, MadeKept, FilesKept, PlayedKept, FailKept
<1>5. GraphInv' /\ AtlasInv' /\ GatheredInv'
  BY <1>1, <1>2, GraphKept, AtlasKept, GatheredKept
<1> QED
  BY <1>3, <1>4, <1>5 DEF IInv

(* The inductive invariant, of any number of launches, cells, edits and    *)
(* faults.                                                                 *)
THEOREM ExecutionsKeepTheirPlace == Spec => []IInv
BY InitHolds, IInvKept, PTL DEF Spec

(* Files once whole and runs once finished are never rewritten or removed, *)
(* by the same launch or another (EvidenceIsRetained).                     *)
THEOREM EvidenceAlwaysRetained == Spec => EvidenceIsRetained
<1> DEFINE Retained ==
      /\ \A n \in Files \cup {"failure"} : Whole(n) => dir'[n] = dir[n]
      /\ \A a \in Areas : \A c \in Claimed(a) :
           dir[a][c].stage # "open" => dir'[a][c] = dir[a][c]
<1>1. IInv /\ [Next]_vars => [Retained]_vars
  BY StepKinds, EvidenceKept DEF IInv, Kept, Whole, Finished, Claimed
<1>2. EvidenceIsRetained <=> [][Retained]_vars
  BY PTL DEF EvidenceIsRetained
<1> QED
  BY <1>1, <1>2, ExecutionsKeepTheirPlace, PTL DEF Spec

(* Figures and reports rest on completed runs and on the inputs and source *)
(* that lie beside them (ResultsRestOnTheirRuns).                          *)
THEOREM ResultsAlwaysRest == Spec => []ResultsRestOnTheirRuns
<1>1. ASSUME IInv PROVE ResultsRestOnTheirRuns
  <2>1. TypeInv /\ FilesInv /\ SharedInv /\ GatheredInv
    BY <1>1 DEF IInv, FilesInv
  <2>2. \A n \in {"results", "readout"} : Whole(n) => Evidence(dir[n].of.design)
    BY <2>1 DEF GatheredInv
  \* Beside a report there are figures; if they are not whole, another launch was writing them.
  <2>3. ASSUME ~Alone, dir.readout # None, ~Whole("results")
        PROVE  dir.results # None /\ dir.results.by # dir.readout.by
    <3>1. PICK n \in Files, m \in Files : n = "readout" /\ m = "results"
      BY DEF Files
    <3>2. PICK q \in Launches : dir[n].by = q /\ (Done(q, n) \/ Stands(q, n))
      BY <2>1, <2>3, <3>1 DEF SharedInv
    <3>3. Done(q, m)
      BY <2>1, <3>1, <3>2, OrderOf, InOrder DEF Ordered
    <3>4. dir[m] # None
      BY <2>1, <3>3 DEF FilesInv
    <3>5. PICK r \in Launches : dir[m].by = r /\ Stands(r, m)
      BY <2>1, <2>3, <3>1, <3>4 DEF SharedInv
    <3>6. r # q
      BY <2>1, <3>3, <3>5, StandingIsNotDone
    <3> QED
      BY <3>1, <3>2, <3>4, <3>5, <3>6
  <2>4. dir.readout # None =>
          \/ Whole("results")
          \/ experiment = "graph" /\ dir.results # None /\ dir.results.by # dir.readout.by
    BY <2>1, <2>3 DEF GatheredInv, Alone
  <2> QED
    BY <2>1, <2>2, <2>4 DEF GatheredInv, ResultsRestOnTheirRuns
<1> QED
  BY <1>1, ExecutionsKeepTheirPlace, PTL

(* What a directory holds has one author (OneExecutionPerDirectory).       *)
THEOREM DirectoriesHaveOneAuthor == Spec => []OneExecutionPerDirectory
<1>1. ASSUME IInv PROVE OneExecutionPerDirectory
  <2>1. TypeInv /\ MadeInv /\ FilesInv /\ SharedInv /\ FailInv /\ GraphInv
    BY <1>1 DEF IInv, FilesInv
  <2>2. CASE Alone
    <3>1. \A area \in Areas : \A c \in Claimed(area) : dir[area][c].by = dir.made
      BY <2>1, <2>2 DEF MadeInv, Claimed
    <3>2. \A n \in Files : dir[n] # None => dir[n].by = dir.made
      BY <2>1, <2>2 DEF MadeInv
    <3>3. dir.failure # None => dir.failure.by = dir.made
      BY <2>1 DEF FailInv
    <3>4. \A root \in Designs : Claimed(root) = {}
      BY <2>1, <2>2, NamesApart DEF MadeInv, Claimed, PlaySteps
    <3> QED
      BY <2>2, <3>1, <3>2, <3>3, <3>4 DEF OneExecutionPerDirectory, Alone
  <2>3. CASE ~Alone
    <3>1. \A area \in {"runs", "fixed"} : Claimed(area) = {}
      BY <2>1, <2>3 DEF GraphInv, Claimed
    <3>2. \A root \in Designs : \A c \in Claimed(root) :
            \E p \in Launches : /\ dir[root][c].by = p /\ dir[root][1].by = p
                                /\ Done(p, "runs") \/ Stands(p, "runs")
      BY <2>1, <2>3 DEF GraphInv, Claimed
    <3>3. ASSUME NEW root \in Designs, NEW c \in Claimed(root)
          PROVE  /\ dir.source # None
                 /\ dir.source.by = dir[root][c].by =>
                      Whole("source") /\ dir.source.of = proc[dir.source.by].taken
      <4>1. PICK p \in Launches : dir[root][c].by = p /\ (Done(p, "runs") \/ Stands(p, "runs"))
        BY <3>2, <3>3
      <4>2. Done(p, "source") /\ "source" \in Files
        BY <2>1, <2>3, <4>1, OrderOf, InOrder DEF Ordered, Alone, Files
      <4>3. dir.source # None
        BY <2>1, <4>2 DEF FilesInv
      \* It is not of this launch that a record was left open.
      <4>4. ASSUME dir.source.by = p PROVE Whole("source") /\ dir.source.of = proc[p].taken
        BY <2>1, <2>3, <4>2, <4>3, <4>4, StandingIsNotDone DEF SharedInv
      <4> QED
        BY <4>1, <4>3, <4>4
    <3>4. \A area \in Areas : \A c, d \in Claimed(area) : dir[area][c].by = dir[area][d].by
      BY <3>1, <3>2 DEF Areas
    <3> QED
      BY <2>3, <3>3, <3>4 DEF OneExecutionPerDirectory, Alone
  <2> QED
    BY <2>2, <2>3
<1> QED
  BY <1>1, ExecutionsKeepTheirPlace, PTL

(* A failed execution's record tells what is there (FailuresAreToldTruly). *)
THEOREM FailuresAlwaysToldTruly == Spec => []FailuresAreToldTruly
<1>1. ASSUME IInv, Whole("failure")
      PROVE  /\ dir.failure.rows = [c \in Cells |-> Status(dir.runs[c])]
             /\ ~Whole("readout")
             /\ dir.failure.phase = "inputs" => Claimed("runs") = {}
             /\ dir.failure.phase = "episodes" => Whole("source") /\ dir.branches = None
             /\ dir.failure.phase = "branch-fixtures" =>
                  ~Whole("checks") /\ \A c \in Cells : Status(dir.runs[c]) \in {"completed", "failed"}
             /\ dir.failure.phase = "prediction-readout" => Whole("branches") /\ Whole("checks")
  <2>1. TypeInv /\ MadeInv /\ FilesInv /\ PlayedInv /\ FailInv
    BY <1>1 DEF IInv
  <2>2. PICK p \in Launches :
          /\ experiment = "audit" /\ dir.made = p
          /\ proc[p].end \in {"raised", "killed"} /\ proc[p].step > 0 /\ Catches(p)
          /\ dir.failure.phase = Phase(p)
          /\ dir.failure.rows = [c \in Cells |-> Status(dir.runs[c])]
    BY <1>1, <2>1 DEF FailInv, Whole
  <2>3. PICK t \in Steps : t = Step(p)
    BY <2>1, <2>2, PlaceTypes
  <2>4. Alone /\ Stands(p, t) /\ ~Done(p, t) /\ t \in {"inputs", "source", "episodes", "branches",
                                                       "checks", "collect", "results", "readout"}
    <3>1. proc[p].step \in DOMAIN AuditMain /\ AuditMain[proc[p].step] = t
      BY <2>1, <2>2, <2>3, PlaceTypes DEF ScriptOf, Script, Step
    <3>2. t \notin {"provenance", "mkdir"}
      BY <2>2, <2>3 DEF Catches
    <3>3. t \in {"inputs", "source", "episodes", "branches", "checks", "collect", "results", "readout"}
      BY <3>1, <3>2 DEF AuditMain, AuditExecute
    <3> QED
      BY <2>1, <2>2, <2>3, <3>3, StandingIsNotDone DEF Alone, Stands
  <2>5. \A n \in Files : dir[n] # None => Done(p, n) \/ (~Whole(n) /\ Stands(p, n))
    BY <2>1, <2>2, <2>4 DEF FilesInv
  <2>6. \A n \in Files : Done(p, n) => Whole(n)
    BY <2>1, <2>4 DEF FilesInv
  \* What the launch has done at each of its steps
  <2>7. /\ Done(p, "readout") \/ Stands(p, "readout") => Done(p, "results")
        /\ Done(p, "results") \/ Stands(p, "results") => Done(p, "collect")
        /\ Done(p, "collect") \/ Stands(p, "collect") => Done(p, "checks")
        /\ Done(p, "checks") \/ Stands(p, "checks") => Done(p, "branches")
        /\ Done(p, "branches") \/ Stands(p, "branches") => Done(p, "episodes")
        /\ Done(p, "episodes") \/ Stands(p, "episodes") => Done(p, "source")
        /\ Done(p, "source") \/ Stands(p, "source") => Done(p, "inputs")
    BY <2>1, <2>2, OrderOf, InOrder DEF Ordered, FindStep
  <2>8. ~Whole("readout")
    <3>1. ~Done(p, "readout")
      BY <2>4, <2>7 
    <3> QED
      BY <2>5, <3>1 DEF Whole, Files
  <2>9. Phase(p) = "inputs" => Claimed("runs") = {}
    <3>1. SUFFICES ASSUME t \in {"inputs", "source"}, NEW c \in Cells, dir["runs"][c] # None PROVE FALSE
      BY <2>3, <2>4 DEF Phase, Claimed
    <3>2. PICK s \in PlaySteps("runs") : Done(p, s) \/ Stands(p, s)
      BY <2>1, <2>2, <2>4, <3>1, NamesApart DEF MadeInv
    <3>3. s = "episodes"
      <4>1. \E i \in DOMAIN ScriptOf(p) : ScriptOf(p)[i] = s
        BY <2>1, <3>2, PlaceTypes DEF Done, Stands, Step, ScriptOf
      <4> QED
        BY <2>1, <2>2, <4>1, PlaceTypes DEF WellMade, Belongs, PlaySteps, RunsAStudy, RecordsSourceLast
    <3> QED
      BY <2>4, <2>7, <3>1, <3>2, <3>3 DEF Stands
  <2>10. Phase(p) = "episodes" => Whole("source") /\ dir.branches = None
    <3>1. SUFFICES ASSUME t = "episodes" PROVE Whole("source") /\ dir.branches = None
      BY <2>3, <2>4 DEF Phase
    <3> QED
      BY <2>4, <2>5, <2>6, <2>7, <3>1 DEF Files, Stands
  <2>11. Phase(p) = "branch-fixtures" =>
           ~Whole("checks") /\ \A c \in Cells : Status(dir.runs[c]) \in {"completed", "failed"}
    <3>1. SUFFICES ASSUME t \in {"branches", "checks"}
                   PROVE  ~Whole("checks") /\ \A c \in Cells : Status(dir.runs[c]) \in {"completed", "failed"}
      BY <2>3, <2>4 DEF Phase
    <3>2. ~Done(p, "checks") /\ Done(p, "episodes")
      BY <2>4, <2>7, <3>1
    <3>3. ~Whole("checks")
      BY <2>5, <3>2 DEF Files, Whole
    <3>4. \A c \in Cells : Finished("runs", c) /\ dir.runs[c] \in Manifests \cup {None}
      BY <2>1, <3>2, NamesApart DEF PlayedInv, AllPlaySteps, PlaySteps, Where, TypeInv, DirInv
    <3> QED
      BY <3>3, <3>4 DEF Finished, Status, Manifests
  <2>12. Phase(p) = "prediction-readout" => Whole("branches") /\ Whole("checks")
    <3>1. SUFFICES ASSUME t \in {"collect", "results", "readout"} PROVE Whole("branches") /\ Whole("checks")
      BY <2>3, <2>4 DEF Phase
    <3> QED
      BY <2>4, <2>6, <2>7, <3>1 DEF Files
  <2> QED
    BY <2>2, <2>8, <2>9, <2>10, <2>11, <2>12
<1>2. IInv => FailuresAreToldTruly
  BY <1>1 DEF FailuresAreToldTruly
<1> QED
  BY <1>2, ExecutionsKeepTheirPlace, PTL
==============================================================================
