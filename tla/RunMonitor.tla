----------------------------- MODULE RunMonitor -----------------------------
(***************************************************************************)
(* reporting/monitor.py: snapshots of a run directory taken while launches *)
(* write into it.  A snapshot signs four files (inode, size, mtime), reads *)
(* the manifest, then the whole run or the unsealed prefix, and signs the  *)
(* files again; each stat and each read is a step of its own.              *)
(*                                                                         *)
(* What a file holds is its author, inode and stage (RunDirectory), and a  *)
(* signature tells any two of these apart: every write changes the size.   *)
(***************************************************************************)
EXTENDS RunDirectory

CONSTANTS MaxSnapshots   \* snapshots of a behaviour

ASSUME SnapshotAssumption == MaxSnapshots \in Nat \ {0}

VARIABLES
  snap,   \* the snapshot being taken
  rows    \* the rows returned so far

monitorVars == <<vars, snap, rows>>

SnapshotFiles == <<"events", "manifest", "scenario", "branch">>

\* The manifest texts json.loads refuses: a write has truncated them.
Torn(manifest) == manifest.stage \in {0, 2}

\* Complete records of a ledger: RunStarted, then the seal.
Records(ledger) == IF ledger.stage < 2 THEN 0 ELSE IF ledger.stage < 4 THEN 1 ELSE 2

\* seen, a history field: all four files at the moment of the last read.
Idle == [at |-> "idle", before |-> <<>>, seen |-> <<>>, after |-> <<>>, manifest |-> "none",
         status |-> "unsealed", integrity |-> "not_checked", count |-> 0]

MonitorInit == Init /\ snap = Idle /\ rows = <<>>

AllFour == [i \in 1..4 |-> files[SnapshotFiles[i]]]

-----------------------------------------------------------------------------
\* monitor_runs lists a directory that has a ledger or a manifest.
StartSnapshot ==
  /\ snap.at = "idle"
  /\ Len(rows) < MaxSnapshots
  /\ Present("events") \/ Present("manifest")
  /\ snap' = [Idle EXCEPT !.at = "signing"]
  /\ UNCHANGED <<vars, rows>>

SignBefore ==
  /\ snap.at = "signing"
  /\ snap' = [snap EXCEPT !.before = Append(@, files[SnapshotFiles[Len(@) + 1]]),
                          !.at = IF Len(snap.before) = 3 THEN "manifest" ELSE @]
  /\ UNCHANGED <<vars, rows>>

Broken == [snap EXCEPT !.seen = AllFour, !.status = "broken", !.integrity = "broken",
                       !.at = "checking"]

ReadManifest ==
  /\ snap.at = "manifest"
  /\ snap' =
       IF ~Present("manifest") THEN [snap EXCEPT !.at = "prefix"]
       ELSE IF Torn(files["manifest"]) THEN Broken
       ELSE IF files["manifest"].stage = 1
       THEN [snap EXCEPT !.manifest = "running", !.at = "prefix"]
       ELSE [snap EXCEPT !.manifest = "final", !.at = "run"]
  /\ UNCHANGED <<vars, rows>>

\* load_run under a final manifest: chain, seal, scenario and branch bindings.
LoadRun ==
  /\ snap.at = "run"
  /\ snap' =
       IF /\ files["events"].stage = 4 /\ files["manifest"].stage = 3
          /\ Present("scenario")
          /\ \A n \in {"scenario", "branch"} :
               Present(n) => files[n].by = files["manifest"].by
       THEN [snap EXCEPT !.seen = AllFour, !.status = "sealed", !.count = 2,
                         !.integrity = "sealed_validated", !.at = "checking"]
       ELSE Broken
  /\ UNCHANGED <<vars, rows>>

\* _prefix reads whole records only; a torn tail is counted, not parsed.
ReadPrefix ==
  /\ snap.at = "prefix"
  /\ snap' = [snap EXCEPT
       !.seen = AllFour,
       !.count = Records(files["events"]),
       !.integrity = IF Records(files["events"]) > 0 THEN "prefix_hashes_only" ELSE @,
       !.at = "checking"]
  /\ UNCHANGED <<vars, rows>>

SignAfter ==
  /\ snap.at = "checking"
  /\ Len(snap.after) < 4
  /\ snap' = [snap EXCEPT !.after = Append(@, files[SnapshotFiles[Len(@) + 1]])]
  /\ UNCHANGED <<vars, rows>>

\* Mutated form.
Undowngraded == [status |-> snap.status, integrity |-> snap.integrity, count |-> snap.count]

\* A snapshot whose files changed is downgraded; its counts stay as read.
Row ==
  IF snap.before = snap.after
  THEN [status |-> snap.status, integrity |-> snap.integrity, count |-> snap.count]
  ELSE [status |-> "unsealed", integrity |-> "not_checked", count |-> snap.count]

ReturnRow ==
  /\ snap.at = "checking"
  /\ Len(snap.after) = 4
  /\ rows' = Append(rows, Row)
  /\ snap' = Idle
  /\ UNCHANGED vars

MonitorStep ==
  \/ StartSnapshot \/ SignBefore \/ ReadManifest \/ LoadRun \/ ReadPrefix
  \/ SignAfter \/ ReturnRow

MonitorNext ==
  \/ MonitorStep
  \/ Next /\ UNCHANGED <<snap, rows>>

MonitorSpec == MonitorInit /\ [][MonitorNext]_monitorVars

-----------------------------------------------------------------------------
Collected == snap.at = "checking" /\ Len(snap.after) = 4

\* What a row rests on. Two equal signatures of a ledger that was not there do not
\* tell that a launch came, wrote and was cleaned up in between; a sealed row rests
\* on all four files, any other one on ledger and manifest.
RestsOn ==
  IF Row.status = "sealed" THEN 1..4
  ELSE {2} \cup (IF snap.before[1] # Absent THEN {1} ELSE {})

\* A row that certifies or condemns anything describes one instant: the files
\* it rests on, read one after the other while launches wrote, took back and
\* claimed anew, stood together as the row has them (monitor.py 86-128). And what
\* is condemned without that is a manifest caught empty: a final one is written
\* after everything that load_run needs.
SnapshotsAreConsistent ==
  /\ Collected /\ Row.status = "broken" => Torn(snap.seen[2])
  /\ Collected /\ Row.integrity # "not_checked" =>
    /\ \A i \in RestsOn : snap.seen[i] = snap.before[i]
    /\ snap.manifest = "running" => snap.seen[2].stage = 1
    /\ snap.manifest = "final" => snap.seen[2].stage = 3
=============================================================================
