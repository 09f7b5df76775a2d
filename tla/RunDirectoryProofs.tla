------------------------- MODULE RunDirectoryProofs -------------------------
(***************************************************************************)
(* What RunPaths.reserve guarantees for any number of launches, exceptions *)
(* and kills, and what a monitor may say of it. Four invariants carry it:  *)
(*                                                                         *)
(*   Inv       as long as nobody cleans the directory from outside, inode  *)
(*             numbers reused or not: a holder's ledger is its own, what   *)
(*             else is there belongs to the author of the ledger, and a    *)
(*             cleanup has removed what precedes its place in the order.   *)
(*             OneHolder follows from it but is not inductive alone: a     *)
(*             late open("x") is harmless because every holder has a ledger*)
(*   WholeInv  Inv, and what a program has written so far is still there   *)
(*   LedgerInv, CleanersInv                                                *)
(*             whoever cleans from outside, when inode numbers are not     *)
(*             reused: the number a launch remembers names its own ledger  *)
(*   DirectoryInv, SnapInv                                                 *)
(*             a monitor's signatures lie in the past of their files, and  *)
(*             what it read since is theirs or has changed since           *)
(***************************************************************************)
EXTENDS RunMonitor, SequenceTheorems, TLAPS

NextInv ==
  \A p \in Processes :
    /\ proc[p].at \in {"planned", "reserving", "checking", "opening", "creating"}
         => proc[p].next = 1
    /\ proc[p].at = "cleaning" => proc[p].next <= 6

HolderInv ==
  \A p \in Processes : Holder(p) => Present("events") /\ files["events"].by = p

AuthorInv ==
  \A n \in Names \ {"transcript"} :
    Present(n) => Present("events") /\ files[n].by = files["events"].by

CleanInv ==
  \A p \in Processes :
    /\ proc[p].at = "cleaning" => proc[p].ino # 0
    /\ proc[p].at = "cleaning" /\ proc[p].next <= 5 =>
         /\ ~Present("manifest")
         /\ \A k \in 1..4 : k < proc[p].next => ~Present(Removals[k])

Inv == TypeOK /\ NextInv /\ HolderInv /\ AuthorInv /\ CleanInv

-----------------------------------------------------------------------------
\* The programs of the two callers: ten writes each, of files they may write.
LEMMA WriteList ==
  ASSUME NEW kind \in {"study", "branch"}
  PROVE  /\ Len(Writes(kind)) = 10
         /\ \A i \in 1..10 : /\ Writes(kind)[i][1] \in Names
                             /\ Writes(kind)[i][2] \in 0..4
  BY DEF Writes, Names

\* The cleanup touches neither manifest nor transcript, and the ledger last.
LEMMA RemovalOrder ==
  /\ Len(Removals) = 5
  /\ \A k \in 1..5 : Removals[k] \in Names \ {"manifest", "transcript"}
  /\ \A k \in 1..4 : Removals[k] # "events"
  /\ Removals[5] = "events"
  /\ \A n \in Names \ {"manifest", "transcript", "events"} : \E k \in 1..4 : n = Removals[k]
  BY DEF Removals, Names

\* A ledger gets an inode number, and numbers stay natural.
LEMMA InodesTyped ==
  ASSUME issued \in Nat, NEW i \in FreshInodes
  PROVE  i \in Nat \ {0}
  BY DEF FreshInodes
\* The budget of exceptions and kills is never exceeded.
LEMMA FaultsBounded ==
  ASSUME TypeOK, Fault \/ UNCHANGED faults
  PROVE  faults' \in 0..MaxFaults
  BY DirectoryAssumption DEF TypeOK, Fault

\* Put leaves other files alone, and an existing file keeps its author.
LEMMA PutEffect ==
  ASSUME TypeOK, NEW p \in Processes, NEW n \in Names, NEW stage \in 0..4, Put(p, n, stage)
  PROVE  /\ files' \in [Names -> [by : Processes \cup {"nobody"}, ino : Nat, stage : -1..4]]
         /\ issued' \in Nat
         /\ \A m \in Names : m # n => files'[m] = files[m]
         /\ Present(n)'
         /\ files'[n].by = IF Present(n) THEN files[n].by ELSE p
  <1>1. CASE Present(n)
    BY <1>1 DEF Put, TypeOK, Present, Absent
  <1>2. CASE ~Present(n) /\ n = "events"
    <2>1. PICK i \in FreshInodes :
            /\ files' = [files EXCEPT ![n] = [by |-> p, ino |-> i, stage |-> stage]]
            /\ issued' = IF i > issued THEN i ELSE issued
      BY <1>2 DEF Put
    <2>2. i \in Nat
      BY InodesTyped DEF TypeOK
    <2>3. QED
      BY <1>2, <2>1, <2>2 DEF TypeOK, Present, Absent
  <1>3. CASE ~Present(n) /\ n # "events"
    BY <1>3 DEF Put, TypeOK, Present, Absent
  <1>4. QED
    BY <1>1, <1>2, <1>3

\* Steps that leave the files alone and do not make a holder or a cleaner.
LEMMA QuietMove ==
  ASSUME Inv, NEW p \in Processes, NEW place,
         place \in {"planned", "reserving", "checking", "opening"} \cup InsideReservation
                   \cup Stopped,
         place \notin InsideReservation \/ (place = "failing" /\ Holder(p)),
         place \in {"reserving", "checking", "opening"} => proc[p].next = 1,
         place # "planned",
         proc' = [proc EXCEPT ![p].at = place],
         UNCHANGED <<files, issued>>, dir' \in BOOLEAN, faults' \in 0..MaxFaults
  PROVE  Inv'
  <1> USE DEF Inv
  <1>1. TypeOK'
    BY DEF TypeOK, LaunchStates
  <1>2. NextInv'
    BY DEF NextInv, TypeOK, LaunchStates, Stopped, InsideReservation
  <1>3. HolderInv'
    BY DEF HolderInv, Holder, Present, TypeOK, LaunchStates, Stopped, InsideReservation
  <1>4. AuthorInv'
    BY DEF AuthorInv, Present
  <1>5. CleanInv'
    BY DEF CleanInv, Present, TypeOK, LaunchStates, Stopped, InsideReservation
  <1>6. QED
    BY <1>1, <1>2, <1>3, <1>4, <1>5

\* Taking the reservation: nothing was there, so nobody held it.
LEMMA OpenStep ==
  ASSUME Inv, NEW p \in Processes, OpenLedger(p)
  PROVE  Inv'
  <1> USE DEF Inv
  <1>1. /\ dir /\ ~Present("events") /\ proc[p].at = "opening" /\ proc[p].next = 1
        /\ dir' = dir
    BY DEF OpenLedger, NextInv
  <1>0. faults' \in 0..MaxFaults
    BY FaultsBounded DEF OpenLedger
  <1>2. Put(p, "events", 0)
    BY DEF OpenLedger
  <1>3. PICK i \in {files'["events"].ino, 0}, place \in {"creating", "failing"} :
          proc' = [proc EXCEPT ![p].at = place, ![p].ino = i]
    BY DEF OpenLedger
  <1>4. "events" \in Names
    BY DEF Names
  <1>5. /\ files' \in [Names -> [by : Processes \cup {"nobody"}, ino : Nat, stage : -1..4]]
        /\ issued' \in Nat
        /\ \A m \in Names : m # "events" => files'[m] = files[m]
        /\ Present("events")' /\ files'["events"].by = p
    BY <1>1, <1>2, <1>4, PutEffect
  <1>6. \A q \in Processes : ~Holder(q)
    BY <1>1 DEF HolderInv
  <1>7. \A n \in Names \ {"transcript"} : ~Present(n)
    BY <1>1 DEF AuthorInv
  <1>8. i \in Nat
    BY <1>3, <1>4, <1>5
  <1>9. TypeOK'
    <2>1. proc' \in [Processes -> LaunchStates]
      BY <1>3, <1>8 DEF TypeOK, LaunchStates, InsideReservation
    <2>2. dir' \in BOOLEAN
      BY <1>1 DEF TypeOK, LaunchStates
    <2>3. QED
      BY <1>0, <1>5, <2>1, <2>2 DEF TypeOK, LaunchStates
  <1>10. NextInv'
    BY <1>1, <1>3 DEF NextInv, TypeOK, LaunchStates
  <1>11. HolderInv'
    BY <1>1, <1>3, <1>5, <1>6 DEF HolderInv, Holder, TypeOK, LaunchStates
  <1>12. AuthorInv'
    BY <1>4, <1>5, <1>7 DEF AuthorInv, Present, Names
  <1>13. CleanInv'
    BY <1>3, <1>6, RemovalOrder DEF CleanInv, Holder, TypeOK, LaunchStates
  <1>14. QED
    BY <1>9, <1>10, <1>11, <1>12, <1>13

\* A holder that adds to or rewrites its files stays the only author. The
\* other launches hold nothing, so no cleanup is under way.
LEMMA HolderWrites ==
  ASSUME Inv, NEW p \in Processes, proc[p].at \in {"creating", "writing"},
         files' \in [Names -> [by : Processes \cup {"nobody"}, ino : Nat, stage : -1..4]],
         issued' \in Nat, dir' \in BOOLEAN, faults' \in 0..MaxFaults,
         \A n \in Names : files'[n] # files[n] =>
           files'[n].by = IF Present(n) THEN files[n].by ELSE p,
         \A n \in Names : Present(n) => Present(n)',
         proc' \in [Processes -> LaunchStates],
         \A q \in Processes : q # p => proc'[q] = proc[q],
         proc'[p].at \in {"writing", "failing", "done"}
  PROVE  Inv'
  <1> USE DEF Inv
  <1>1. Holder(p) /\ Present("events") /\ files["events"].by = p /\ "events" \in Names
    BY DEF Holder, HolderInv, Names
  <1>2. Present("events")' /\ files'["events"].by = p
    BY <1>1
  <1>3. \A q \in Processes : Holder(q) => q = p
    BY <1>1 DEF HolderInv
  <1>4. TypeOK'
    BY DEF TypeOK
  <1>5. NextInv'
    BY DEF NextInv, TypeOK, LaunchStates
  <1>6. HolderInv'
    BY <1>2, <1>3 DEF HolderInv, Holder, TypeOK, LaunchStates
  <1>7. AuthorInv'
    BY <1>1, <1>2 DEF AuthorInv, Present
  <1>8. CleanInv'
    <2>1. SUFFICES ASSUME NEW q \in Processes, proc'[q].at = "cleaning"
                   PROVE  proc'[q].ino # 0 /\ proc'[q].next > 5
      BY DEF CleanInv, TypeOK, LaunchStates
    <2>2. q # p /\ proc'[q] = proc[q]
      BY <2>1 DEF TypeOK, LaunchStates
    <2>3. ~Holder(q)
      BY <1>3, <2>2
    <2>4. proc[q].next > 5 /\ proc[q].ino # 0
      BY <2>1, <2>2, <2>3, RemovalOrder DEF Holder, TypeOK, LaunchStates, CleanInv
    <2>5. QED
      BY <2>2, <2>4
  <1>9. QED
    BY <1>4, <1>5, <1>6, <1>7, <1>8

LEMMA CreateStep ==
  ASSUME Inv, NEW p \in Processes, CreateDirectories(p)
  PROVE  Inv'
  <1> USE DEF Inv
  <1>1. proc[p].at = "creating" /\ proc[p].next = 1 /\ dir' = TRUE /\ issued' = issued
    BY DEF CreateDirectories, NextInv
  <1>2. PICK created \in {{}, {"checkpoints"}, {"checkpoints", "metrics"}} :
          /\ files' = [n \in Names |-> IF n \in created /\ ~Present(n)
                                       THEN [by |-> p, ino |-> 0, stage |-> 1] ELSE files[n]]
          /\ IF "metrics" \in created
             THEN MoveTo(p, "writing") /\ UNCHANGED faults
             ELSE MoveTo(p, "failing") /\ Fault
    BY DEF CreateDirectories
  <1>3. files' \in [Names -> [by : Processes \cup {"nobody"}, ino : Nat, stage : -1..4]]
    BY <1>2 DEF TypeOK
  <1>4. \A n \in Names : Present(n) => Present(n)'
    BY <1>2 DEF Present
  <1>5. \A n \in Names : files'[n] # files[n] =>
          files'[n].by = IF Present(n) THEN files[n].by ELSE p
    BY <1>2
  <1>6. faults' \in 0..MaxFaults
    BY <1>2, FaultsBounded
  <1>7. /\ proc' \in [Processes -> LaunchStates]
        /\ \A q \in Processes : q # p => proc'[q] = proc[q]
        /\ proc'[p].at \in {"writing", "failing"} /\ proc'[p].next = 1
    BY <1>1, <1>2 DEF MoveTo, TypeOK, LaunchStates, InsideReservation
  <1>8. issued' \in Nat /\ dir' \in BOOLEAN
    BY <1>1 DEF TypeOK
  <1>9. QED
    BY <1>1, <1>3, <1>4, <1>5, <1>6, <1>7, <1>8, HolderWrites

LEMMA WriteStep ==
  ASSUME Inv, NEW p \in Processes, WriteNext(p) \/ SkipTranscript(p)
  PROVE  Inv'
  <1> USE DEF Inv
  <1>1. /\ proc[p].at = "writing" /\ proc[p].next \in 1..10
        /\ proc[p].kind \in {"study", "branch"}
    BY DEF WriteNext, SkipTranscript, NextInv, TypeOK, LaunchStates
  <1>2. /\ proc' \in [Processes -> LaunchStates]
        /\ \A q \in Processes : q # p => proc'[q] = proc[q]
        /\ proc'[p].at \in {"writing", "done"}
    <2>1. CASE proc[p].next = 10
      <3>1. proc' = [proc EXCEPT ![p].at = "done"]
        BY <1>1, <2>1, WriteList DEF WriteNext, SkipTranscript, Advance, MoveTo
      <3>2. QED
        BY <3>1 DEF TypeOK, LaunchStates, Stopped
    <2>2. CASE proc[p].next # 10
      <3>1. proc' = [proc EXCEPT ![p].next = proc[p].next + 1]
        BY <1>1, <2>2, WriteList DEF WriteNext, SkipTranscript, Advance
      <3>2. proc[p].next + 1 \in 1..10
        BY <1>1, <2>2
      <3>3. QED
        BY <1>1, <3>1, <3>2 DEF TypeOK, LaunchStates
    <2>3. QED
      BY <2>1, <2>2
  <1>3. dir' \in BOOLEAN /\ faults' \in 0..MaxFaults
    BY DEF WriteNext, SkipTranscript, TypeOK
  <1>4. /\ files' \in [Names -> [by : Processes \cup {"nobody"}, ino : Nat, stage : -1..4]]
        /\ issued' \in Nat
        /\ \A n \in Names : files'[n] # files[n] =>
             files'[n].by = IF Present(n) THEN files[n].by ELSE p
        /\ \A n \in Names : Present(n) => Present(n)'
    <2>1. CASE WriteNext(p)
      <3>1. PICK n \in Names, stage \in 0..4 : Put(p, n, stage)
        BY <1>1, <2>1, WriteList DEF WriteNext
      <3>2. QED
        BY <3>1, PutEffect DEF Present
    <2>2. CASE SkipTranscript(p)
      BY <2>2 DEF SkipTranscript, TypeOK, Present
    <2>3. QED
      BY <2>1, <2>2
  <1>5. QED
    BY <1>1, <1>2, <1>3, <1>4, HolderWrites

\* The ledger is the last file of a launch to go, so nothing outlives it.
LEMMA RemoveStep ==
  ASSUME Inv, NEW p \in Processes, RemoveNext(p)
  PROVE  Inv'
  <1> USE DEF Inv
  <1>a. proc[p].at = "cleaning" /\ proc[p].next \in 1..5
    BY RemovalOrder DEF RemoveNext, TypeOK, LaunchStates
  <1>b. PICK k \in 1..5 : k = proc[p].next
    BY <1>a
  <1>c. PICK gone \in Names : gone = Removals[k]
    BY RemovalOrder
  <1>1. /\ proc[p].at = "cleaning" /\ proc[p].next = k
        /\ dir' = dir /\ issued' = issued /\ faults' = faults
        /\ files' = [files EXCEPT ![gone] = Absent]
        /\ proc' = [proc EXCEPT ![p].next = k + 1]
    BY <1>a, <1>b, <1>c DEF RemoveNext
  <1>2. gone \in Names \ {"manifest", "transcript"} /\ (gone = "events" <=> k = 5)
    BY <1>c, RemovalOrder
  <1>3. Holder(p) /\ Present("events") /\ files["events"].by = p
    BY <1>1, RemovalOrder DEF Holder, HolderInv
  <1>4. \A q \in Processes : Holder(q) => q = p
    BY <1>3 DEF HolderInv
  <1>5. /\ \A n \in Names : n # gone => files'[n] = files[n]
        /\ ~Present(gone)'
    BY <1>1, <1>2 DEF Present, TypeOK
  <1>6. TypeOK'
    <2>1. files' \in [Names -> [by : Processes \cup {"nobody"}, ino : Nat, stage : -1..4]]
      BY <1>1, <1>2 DEF TypeOK, Absent
    <2>2. proc' \in [Processes -> LaunchStates]
      BY <1>1 DEF TypeOK, LaunchStates
    <2>3. QED
      BY <1>1, <2>1, <2>2 DEF TypeOK
  <1>7. NextInv'
    BY <1>1 DEF NextInv, TypeOK, LaunchStates
  <1>8. "events" \in Names
    BY DEF Names
  <1>9. HolderInv'
    <2>1. SUFFICES ASSUME NEW q \in Processes, Holder(q)'
                   PROVE  Present("events")' /\ files'["events"].by = q
      BY DEF HolderInv
    <2>2. CASE q = p
      <3>1. k + 1 <= 5
        BY <1>1, <2>1, <2>2, RemovalOrder DEF Holder, TypeOK, LaunchStates
      <3>2. gone # "events"
        BY <1>1, <1>2, <3>1
      <3>3. QED
        BY <1>3, <1>5, <1>8, <2>2, <3>2 DEF Present
    <2>3. CASE q # p
      <3>1. Holder(q)
        BY <1>1, <2>1, <2>3 DEF Holder, TypeOK
      <3>2. QED
        BY <1>4, <2>3, <3>1
    <2>4. QED
      BY <2>2, <2>3
  <1>10. AuthorInv'
    <2>1. CASE k = 5
      <3>1. ~Present("manifest") /\ \A i \in 1..4 : ~Present(Removals[i])
        BY <1>1, <2>1 DEF CleanInv
      <3>2. \A n \in Names \ {"transcript", "events"} : ~Present(n)
        BY <3>1, RemovalOrder
      <3>3. QED
        BY <1>2, <1>5, <2>1, <3>2 DEF AuthorInv, Present
    <2>2. CASE k # 5
      BY <1>2, <1>5, <1>8, <2>2 DEF AuthorInv, Present
    <2>3. QED
      BY <2>1, <2>2
  <1>11. CleanInv'
    <2>1. SUFFICES ASSUME NEW q \in Processes, proc'[q].at = "cleaning"
                   PROVE  /\ proc'[q].ino # 0
                          /\ proc'[q].next <= 5 =>
                               /\ ~Present("manifest")'
                               /\ \A i \in 1..4 : i < proc'[q].next => ~Present(Removals[i])'
      BY DEF CleanInv
    <2>2. CASE q = p
      <3>1. proc'[p].ino = proc[p].ino /\ proc'[p].next = k + 1
        BY <1>1 DEF TypeOK
      <3>2. proc[p].ino # 0 /\ ~Present("manifest")
            /\ \A i \in 1..4 : i < k => ~Present(Removals[i])
        BY <1>1 DEF CleanInv
      <3>3. ~Present("manifest")'
        BY <1>2, <1>5, <3>2 DEF Present, Names
      <3>4. ASSUME NEW i \in 1..4, i < k + 1
            PROVE  ~Present(Removals[i])'
        <4>1. CASE i = k
          BY <1>5, <1>c, <4>1 DEF Present
        <4>2. CASE i < k
          <5>1. files[Removals[i]] = Absent /\ Removals[i] \in Names
            BY <3>2, <4>2, RemovalOrder DEF Present
          <5>2. files'[Removals[i]] = Absent
            BY <1>5, <5>1 DEF Present
          <5>3. QED
            BY <5>2 DEF Present
        <4>3. QED
          BY <1>1, <3>4, <4>1, <4>2
      <3>5. QED
        BY <2>2, <3>1, <3>2, <3>3, <3>4
    <2>3. CASE q # p
      <3>1. proc'[q] = proc[q]
        BY <1>1, <2>3 DEF TypeOK
      <3>2. proc[q].next > 5 /\ proc[q].ino # 0
        BY <1>4, <2>1, <2>3, <3>1, RemovalOrder DEF Holder, TypeOK, LaunchStates, CleanInv
      <3>3. proc'[q].next > 5 /\ proc'[q].next \in Nat
        BY <3>1, <3>2 DEF TypeOK, LaunchStates
      <3>4. QED
        BY <3>1, <3>2, <3>3
    <2>4. QED
      BY <2>2, <2>3
  <1>12. QED
    BY <1>6, <1>7, <1>9, <1>10, <1>11

\* The two moves that also set another field of the launch.
LEMMA RootStep ==
  ASSUME Inv, NEW p \in Processes, MakeRoot(p)
  PROVE  Inv'
  <1> USE DEF Inv
  <1>1. /\ proc[p].at = "reserving" /\ proc[p].next = 1 /\ dir \in BOOLEAN
        /\ dir' = TRUE /\ files' = files /\ issued' = issued /\ faults' = faults
        /\ proc' = [proc EXCEPT ![p].at = "checking", ![p].made = ~dir]
    BY DEF MakeRoot, NextInv, TypeOK
  <1>2. /\ \A q \in Processes : q # p => proc'[q] = proc[q]
        /\ proc'[p].at = "checking" /\ proc'[p].next = 1
    BY <1>1 DEF TypeOK, LaunchStates
  <1>3. proc' \in [Processes -> LaunchStates]
    BY <1>1 DEF TypeOK, LaunchStates
  <1>4. TypeOK'
    BY <1>1, <1>3 DEF TypeOK
  <1>5. NextInv'
    BY <1>2 DEF NextInv
  <1>6. HolderInv'
    BY <1>1, <1>2 DEF HolderInv, Holder, Present
  <1>7. AuthorInv' /\ CleanInv'
    BY <1>1, <1>2 DEF AuthorInv, CleanInv, Present
  <1>8. QED
    BY <1>4, <1>5, <1>6, <1>7

LEMMA CleanupStep ==
  ASSUME Inv, NEW p \in Processes, BeginCleanup(p)
  PROVE  Inv'
  <1> USE DEF Inv
  <1>1. /\ proc[p].at = "failing" /\ Owned(p)
        /\ dir' = dir /\ files' = files /\ issued' = issued /\ faults' = faults
        /\ proc' = [proc EXCEPT ![p].at = "cleaning", ![p].next = 1]
    BY DEF BeginCleanup
  <1>2. /\ \A q \in Processes : q # p => proc'[q] = proc[q]
        /\ proc'[p].at = "cleaning" /\ proc'[p].next = 1 /\ proc'[p].ino = proc[p].ino
    BY <1>1 DEF TypeOK, LaunchStates
  <1>3. proc' \in [Processes -> LaunchStates]
    <2>1. "cleaning" \in InsideReservation /\ 1 \in 1..10
      BY DEF InsideReservation
    <2>2. proc[p] \in LaunchStates
      BY DEF TypeOK
    <2>3. [proc[p] EXCEPT !.at = "cleaning", !.next = 1] \in LaunchStates
      BY <2>1, <2>2 DEF LaunchStates
    <2>4. proc' = [proc EXCEPT ![p] = [proc[p] EXCEPT !.at = "cleaning", !.next = 1]]
      BY <1>1
    <2>5. QED
      BY <2>3, <2>4 DEF TypeOK
  <1>4. TypeOK'
    BY <1>1, <1>3 DEF TypeOK
  <1>5. NextInv'
    BY <1>2 DEF NextInv
  <1>6. HolderInv'
    BY <1>1, <1>2 DEF HolderInv, Holder, Present
  <1>7. AuthorInv'
    BY <1>1 DEF AuthorInv, Present
  <1>8. CleanInv'
    <2>1. \A n \in Names : Present(n)' <=> Present(n)
      BY <1>1 DEF Present
    <2>2. proc[p].ino # 0 /\ ~Present("manifest")
      BY <1>1 DEF Owned
    <2>3. ASSUME NEW q \in Processes, q # p
          PROVE  /\ proc'[q].at = "cleaning" => proc'[q].ino # 0
                 /\ proc'[q].at = "cleaning" /\ proc'[q].next <= 5 =>
                      /\ ~Present("manifest")'
                      /\ \A i \in 1..4 : i < proc'[q].next => ~Present(Removals[i])'
      BY <1>1, <1>2, <2>3 DEF CleanInv, Present
    <2>4. /\ proc'[p].ino # 0 /\ ~Present("manifest")'
          /\ \A i \in 1..4 : ~(i < proc'[p].next)
      BY <1>1, <1>2, <2>2 DEF Present
    <2>5. QED
      BY <2>3, <2>4 DEF CleanInv
  <1>9. QED
    BY <1>4, <1>5, <1>6, <1>7, <1>8

-----------------------------------------------------------------------------
\* Nothing is there at first and nobody has started.
LEMMA InitInv ==
  ASSUME Init
  PROVE  Inv
  <1>1. PICK kind \in Callers : proc = [p \in Processes |-> Launch(kind[p])]
    BY DEF Init
  <1>2. kind \in [Processes -> {"study", "branch"}]
    BY <1>1, DirectoryAssumption
  <1>3. \A p \in Processes :
          /\ proc[p] \in LaunchStates /\ proc[p].next = 1
          /\ proc[p].at \in {"planned", "reserving"}
    BY <1>1, <1>2 DEF Launch, LaunchStates
  <1>4. files = [n \in Names |-> Absent] /\ dir \in BOOLEAN /\ issued = 0 /\ faults = 0
    BY DEF Init
  <1>5. TypeOK
    <2>1. proc \in [Processes -> LaunchStates]
      BY <1>1, <1>3
    <2>2. faults \in 0..MaxFaults
      BY <1>4, DirectoryAssumption
    <2>3. files \in [Names -> [by : Processes \cup {"nobody"}, ino : Nat, stage : -1..4]]
      BY <1>4 DEF Absent
    <2>4. QED
      BY <1>4, <2>1, <2>2, <2>3 DEF TypeOK
  <1>6. NextInv /\ HolderInv /\ CleanInv
    BY <1>3 DEF NextInv, HolderInv, Holder, CleanInv
  <1>7. AuthorInv
    BY <1>4 DEF AuthorInv, Present
  <1>8. QED
    BY <1>5, <1>6, <1>7 DEF Inv

\* One step, without anyone cleaning from outside.
LEMMA InvStep ==
  ASSUME ~OperatorCleans, Inv, [Next]_vars
  PROVE  Inv'
  <1>1. CASE UNCHANGED vars
    BY <1>1 DEF vars, Inv, TypeOK, NextInv, HolderInv, AuthorInv, CleanInv, Holder, Present
  <1>2. ASSUME NEW p \in Processes, Preflight(p) \/ CheckEmpty(p) \/ LoseLedger(p)
        PROVE  Inv'
    <2>1. PICK place \in {"refused", "reserving", "opening"} :
            proc' = [proc EXCEPT ![p].at = place]
      BY <1>2 DEF Preflight, CheckEmpty, LoseLedger, MoveTo
    <2>2. proc[p].next = 1 /\ UNCHANGED <<files, issued>>
          /\ dir' \in BOOLEAN /\ faults' \in 0..MaxFaults
      BY <1>2 DEF Preflight, CheckEmpty, LoseLedger, Inv, NextInv, TypeOK
    <2>3. /\ place \in {"planned", "reserving", "checking", "opening"} \cup InsideReservation
                       \cup Stopped
          /\ place \notin InsideReservation /\ place # "planned"
      BY DEF InsideReservation, Stopped
    <2>4. QED
      BY <2>1, <2>2, <2>3, QuietMove
  <1>3. ASSUME NEW p \in Processes, Raise(p) \/ Retain(p) \/ RemoveRoot(p) \/ AbortCleanup(p) \/ Kill(p)
        PROVE  Inv'
    <2>1. PICK place \in {"failing", "stopped", "retained", "released", "aborted", "killed"} :
            /\ proc' = [proc EXCEPT ![p].at = place]
            /\ place = "failing" => proc[p].at = "writing"
      BY <1>3 DEF Raise, Retain, RemoveRoot, AbortCleanup, Kill, MoveTo
    <2>2. faults' \in 0..MaxFaults
      BY <1>3, FaultsBounded DEF Raise, Retain, RemoveRoot, AbortCleanup, Kill, Inv
    <2>3. UNCHANGED <<files, issued>> /\ dir' \in BOOLEAN
      BY <1>3 DEF Raise, Retain, RemoveRoot, AbortCleanup, Kill, Inv, TypeOK
    <2>4. /\ place \in {"planned", "reserving", "checking", "opening"} \cup InsideReservation
                       \cup Stopped
          /\ place \notin InsideReservation \/ (place = "failing" /\ Holder(p))
          /\ place \notin {"planned", "reserving", "checking", "opening"}
      BY <2>1 DEF InsideReservation, Stopped, Holder
    <2>5. QED
      BY <2>1, <2>2, <2>3, <2>4, QuietMove
  <1>4. ASSUME NEW p \in Processes, Step(p) \/ Kill(p)
        PROVE  Inv'
    BY <1>2, <1>3, <1>4, OpenStep, CreateStep, WriteStep, RemoveStep, RootStep, CleanupStep
    DEF Step
  <1>5. QED
    BY <1>1, <1>4 DEF Next, CleanGenerated

THEOREM InvAlways == ASSUME ~OperatorCleans PROVE Spec => []Inv
  <1>1. Init => Inv
    BY InitInv
  <1>2. Inv /\ [Next]_vars => Inv'
    BY InvStep
  <1>3. QED
    BY <1>1, <1>2, PTL DEF Spec

\* Two launches never hold one directory: open("x") decides, however stale the
\* preflight and the emptiness check of the loser were (store.py 61-71).
THEOREM ReservationIsExclusive == ASSUME ~OperatorCleans PROVE Spec => []OneHolder
  <1>1. Inv => OneHolder
    BY DEF Inv, HolderInv, OneHolder
  <1>2. QED
    BY <1>1, InvAlways, PTL

\* A directory never mixes two launches' artifacts, the transcript aside:
\* cleanup removes the ledger last (store.py 83-93).
THEOREM DirectoryHasOneAuthor ==
  ASSUME ~OperatorCleans PROVE Spec => []RunFilesHaveOneAuthor
  <1>1. Inv => RunFilesHaveOneAuthor
    BY DEF Inv, AuthorInv, RunFilesHaveOneAuthor
  <1>2. QED
    BY <1>1, InvAlways, PTL

\* Only a cleaner's own files disappear, and never once a manifest names the
\* run (store.py 79-93): the manifest of a run protects everything it needs.
THEOREM OnlyOwnedFailuresDisappear ==
  ASSUME ~OperatorCleans PROVE Spec => ArtifactsAreRetained
  <1> DEFINE Retained == \A n \in Names : Present(n) /\ ~Present(n)' =>
                           /\ ~Present("manifest")
                           /\ proc[files[n].by].at = "cleaning" /\ proc[files[n].by].ino # 0
  <1>1. ASSUME Inv, [Next]_vars
        PROVE  [Retained]_vars
    <2>1. SUFFICES ASSUME NEW n \in Names, Present(n), ~Present(n)'
                   PROVE  /\ ~Present("manifest")
                          /\ proc[files[n].by].at = "cleaning" /\ proc[files[n].by].ino # 0
      OBVIOUS
    <2>2. \E p \in Processes : RemoveNext(p)
      <3>1. files' # files
        BY <2>1 DEF Present
      <3>2. ASSUME NEW p \in Processes, CreateDirectories(p)
            PROVE  Present(n)'
        BY <1>1, <2>1, <3>2 DEF CreateDirectories, Present, Inv, TypeOK, Absent
      <3>3. ASSUME NEW p \in Processes, NEW m \in Names, NEW stage \in 0..4, Put(p, m, stage)
            PROVE  Present(n)'
        <4>1. CASE m = n
          BY <1>1, <3>3, <4>1, PutEffect DEF Inv
        <4>2. CASE m # n
          BY <1>1, <2>1, <3>3, <4>2, PutEffect DEF Present, Inv
        <4>3. QED
          BY <4>1, <4>2
      <3>4. ASSUME NEW p \in Processes, WriteNext(p)
            PROVE  Present(n)'
        <4>1. proc[p].at = "writing" /\ proc[p].next \in 1..10 /\ proc[p].kind \in {"study", "branch"}
          BY <1>1, <3>4 DEF WriteNext, Inv, NextInv, TypeOK, LaunchStates
        <4>2. PICK m \in Names, stage \in 0..4 : Put(p, m, stage)
          BY <3>4, <4>1, WriteList DEF WriteNext
        <4>3. QED
          BY <3>3, <4>2
      <3>5. ASSUME NEW p \in Processes, OpenLedger(p)
            PROVE  Present(n)'
        BY <3>3, <3>5 DEF OpenLedger, Names
      <3>6. QED
        BY <1>1, <2>1, <3>1, <3>2, <3>4, <3>5
        DEF Next, vars, Step, CleanGenerated, Preflight, MakeRoot, CheckEmpty, LoseLedger,
            SkipTranscript, Raise, Retain, BeginCleanup, RemoveRoot, AbortCleanup, Kill
    <2>3. PICK p \in Processes : RemoveNext(p)
      BY <2>2
    <2>4. proc[p].at = "cleaning" /\ proc[p].next \in 1..5
      BY <1>1, <2>3, RemovalOrder DEF RemoveNext, Inv, TypeOK, LaunchStates
    <2>5. Holder(p) /\ files["events"].by = p
      BY <1>1, <2>4, RemovalOrder DEF Holder, Inv, HolderInv
    <2>6. n # "transcript"
      BY <1>1, <2>1, <2>3, <2>4, RemovalOrder DEF RemoveNext, Inv, TypeOK, Present
    <2>7. files[n].by = p
      BY <1>1, <2>1, <2>5, <2>6 DEF Inv, AuthorInv
    <2>8. QED
      BY <1>1, <2>4, <2>7 DEF Inv, CleanInv
  <1>2. QED
    BY <1>1, InvAlways, PTL DEF Spec, ArtifactsAreRetained

-----------------------------------------------------------------------------
\* A finished run. What a writer has behind it is on disk: nobody else can
\* touch the directory of a holder, nor that of a launch that is done.
Progress(p) ==
  LET next == proc[p].next IN
  /\ Present("checkpoints") /\ Present("metrics")
  /\ proc[p].kind = "study" =>
       /\ next > 1 => Present("scenario")
       /\ next > 7 => files["events"].stage = 4
  /\ proc[p].kind = "branch" =>
       /\ next > 5 => files["events"].stage = 4
       /\ next > 8 => Present("scenario")

ProgressInv == \A p \in Processes : proc[p].at = "writing" => Progress(p)

WholeInv == Inv /\ ProgressInv /\ FinishedRunsStayWhole

\* Put writes the stage it is given.
LEMMA PutStage ==
  ASSUME TypeOK, NEW p \in Processes, NEW n \in Names, NEW stage \in 0..4, Put(p, n, stage)
  PROVE  files'[n].stage = stage
  <1>1. CASE Present(n)
    BY <1>1 DEF Put, TypeOK
  <1>2. CASE ~Present(n)
    BY <1>2 DEF Put, TypeOK
  <1>3. QED
    BY <1>1, <1>2

\* Where a program seals its ledger and writes its scenario.
LEMMA WriteOrder ==
  /\ \A i \in 1..10 : Writes("study")[i][1] = "events" /\ i >= 7 => Writes("study")[i][2] = 4
  /\ Writes("study")[7] = <<"events", 4>> /\ Writes("study")[1][1] = "scenario"
  /\ \A i \in 1..10 : Writes("branch")[i][1] = "events" /\ i >= 5 => Writes("branch")[i][2] = 4
  /\ Writes("branch")[5] = <<"events", 4>> /\ Writes("branch")[8][1] = "scenario"
  /\ \A kind \in {"study", "branch"} : Writes(kind)[10] = <<"manifest", 3>>
  /\ Writes("study")[8][1] = "transcript" /\ Writes("branch")[6][1] = "transcript"
  /\ \A i \in 1..10 : /\ Writes("study")[i][1] = "transcript" => i = 8
                      /\ Writes("branch")[i][1] = "transcript" => i = 6
  BY DEF Writes

\* A step of one launch leaves the records of the others alone.
LEMMA OthersStayPut ==
  ASSUME TypeOK, NEW p \in Processes, NEW q \in Processes, q # p, Step(q) \/ Kill(q)
  PROVE  proc'[p] = proc[p]
  BY DEF Step, Kill, Preflight, MakeRoot, CheckEmpty, LoseLedger, OpenLedger,
         CreateDirectories, WriteNext, SkipTranscript, Raise, Retain, BeginCleanup,
         RemoveNext, RemoveRoot, AbortCleanup, MoveTo, Advance, TypeOK

\* Nobody else changes the files of the launch whose ledger is there.
LEMMA OnlyTheAuthor ==
  ASSUME Inv, NEW p \in Processes, NEW q \in Processes, q # p, Step(q) \/ Kill(q),
         Present("events"), files["events"].by = p
  PROVE  files' = files /\ proc'[p] = proc[p]
  <1>1. ~Holder(q)
    BY DEF Inv, HolderInv
  <1>2. proc[q].at \notin {"creating", "writing", "failing"}
        /\ (proc[q].at = "cleaning" => proc[q].next > 5)
    BY <1>1, RemovalOrder DEF Holder, Inv, TypeOK, LaunchStates
  <1>3. proc'[p] = proc[p]
    BY OthersStayPut DEF Inv
  <1>4. files' = files
    BY <1>2, RemovalOrder
    DEF Step, Kill, Preflight, MakeRoot, CheckEmpty, LoseLedger, OpenLedger,
        CreateDirectories, WriteNext, SkipTranscript, Raise, Retain, BeginCleanup,
        RemoveNext, RemoveRoot, AbortCleanup, Inv, TypeOK, LaunchStates
  <1>5. QED
    BY <1>3, <1>4

\* A write moves the program on by one, and the last one ends the launch.
LEMMA AdvanceEffect ==
  ASSUME Inv, NEW p \in Processes, WriteNext(p) \/ SkipTranscript(p)
  PROVE  /\ proc'[p].kind = proc[p].kind
         /\ proc'[p].at = IF proc[p].next = 10 THEN "done" ELSE "writing"
         /\ proc'[p].next = IF proc[p].next = 10 THEN 10 ELSE proc[p].next + 1
  <1>1. /\ proc[p].at = "writing" /\ proc[p].next \in 1..10
        /\ proc[p].kind \in {"study", "branch"} /\ Advance(p)
    BY DEF WriteNext, SkipTranscript, Inv, TypeOK, LaunchStates
  <1>2. Len(Writes(proc[p].kind)) = 10
    BY <1>1, WriteList
  <1>3. CASE proc[p].next = 10
    <2>1. proc' = [proc EXCEPT ![p].at = "done"]
      BY <1>1, <1>2, <1>3 DEF Advance, MoveTo
    <2>2. QED
      BY <1>3, <2>1 DEF Inv, TypeOK, LaunchStates
  <1>4. CASE proc[p].next # 10
    <2>1. proc' = [proc EXCEPT ![p].next = proc[p].next + 1]
      BY <1>1, <1>2, <1>4 DEF Advance
    <2>2. QED
      BY <1>1, <1>4, <2>1 DEF Inv, TypeOK, LaunchStates
  <1>5. QED
    BY <1>3, <1>4

\* Only a writer's own write ends a launch.
LEMMA OnlyWritersFinish ==
  ASSUME Inv, NEW p \in Processes, Step(p) \/ Kill(p), proc'[p].at = "done"
  PROVE  WriteNext(p) \/ SkipTranscript(p)
  <1> USE DEF Inv, TypeOK, LaunchStates, MoveTo
  <1>1. ~Preflight(p) /\ ~CheckEmpty(p) /\ ~LoseLedger(p)
    BY DEF Preflight, CheckEmpty, LoseLedger
  <1>2. ~MakeRoot(p)
    BY DEF MakeRoot
  <1>3. ~OpenLedger(p)
    BY DEF OpenLedger
  <1>4. ~CreateDirectories(p)
    BY DEF CreateDirectories
  <1>5. ~Raise(p) /\ ~Retain(p) /\ ~AbortCleanup(p) /\ ~RemoveRoot(p) /\ ~Kill(p)
    BY DEF Raise, Retain, AbortCleanup, RemoveRoot, Kill
  <1>6. ~BeginCleanup(p)
    BY DEF BeginCleanup
  <1>7. ASSUME RemoveNext(p) PROVE FALSE
    <2>1. proc[p].at = "cleaning" /\ proc' = [proc EXCEPT ![p].next = proc[p].next + 1]
      BY <1>7 DEF RemoveNext
    <2>2. proc'[p].at = "cleaning"
      BY <2>1
    <2>3. QED
      BY <2>2
  <1>8. QED
    BY <1>1, <1>2, <1>3, <1>4, <1>5, <1>6, <1>7 DEF Step

\* One write of a program, or the transcript left out.
LEMMA WriteProgress ==
  ASSUME Inv, NEW p \in Processes, proc[p].at = "writing", Progress(p),
         WriteNext(p) \/ SkipTranscript(p)
  PROVE  /\ proc'[p].at = "writing" => Progress(p)'
         /\ proc'[p].at = "done" =>
              /\ \A n \in {"events", "scenario", "manifest", "checkpoints", "metrics"} :
                   files'[n].by = p
              /\ files'["events"].stage = 4 /\ files'["manifest"].stage = 3
  <1>0. PICK next \in 1..10, kind \in {"study", "branch"} :
          next = proc[p].next /\ kind = proc[p].kind
    BY DEF Inv, TypeOK, LaunchStates
  <1>1. /\ Present("events") /\ files["events"].by = p
        /\ {"events", "scenario", "manifest", "checkpoints", "metrics"} \subseteq Names
    BY DEF Inv, HolderInv, Holder, Names
  <1>2. /\ proc'[p].kind = kind
        /\ proc'[p].at = "writing" => next < 10 /\ proc'[p].next = next + 1
        /\ proc'[p].at = "done" => next = 10
    BY <1>0, AdvanceEffect
  <1>p. /\ Present("checkpoints") /\ Present("metrics")
        /\ kind = "study" =>
             /\ next > 1 => Present("scenario")
             /\ next > 7 => files["events"].stage = 4
        /\ kind = "branch" =>
             /\ next > 5 => files["events"].stage = 4
             /\ next > 8 => Present("scenario")
    BY <1>0 DEF Progress
  <1>q. ASSUME proc'[p].at = "writing", \A m \in Names : Present(m) => Present(m)',
               kind = "study" =>
                 /\ next >= 1 => Present("scenario")'
                 /\ next >= 7 => files'["events"].stage = 4,
               kind = "branch" =>
                 /\ next >= 5 => files'["events"].stage = 4
                 /\ next >= 8 => Present("scenario")'
        PROVE  Progress(p)'
    <2>1. Present("checkpoints")' /\ Present("metrics")'
      BY <1>1, <1>p, <1>q
    <2>2. proc'[p].next = next + 1 /\ proc'[p].kind = kind
      BY <1>2, <1>q
    <2>3. QED
      BY <1>q, <2>1, <2>2 DEF Progress
  <1>3. CASE WriteNext(p)
    <2>1. PICK n \in Names, stage \in 0..4 :
            n = Writes(kind)[next][1] /\ stage = Writes(kind)[next][2]
      BY WriteList
    <2>2. Put(p, n, stage)
      BY <1>0, <1>3, <2>1 DEF WriteNext
    <2>3. /\ \A m \in Names : m # n => files'[m] = files[m]
          /\ Present(n)' /\ files'[n].by = IF Present(n) THEN files[n].by ELSE p
      BY <2>2, PutEffect DEF Inv
    <2>4. files'[n].stage = stage
      BY <2>2, PutStage DEF Inv
    <2>5. \A m \in Names : Present(m) => Present(m)'
      BY <2>3 DEF Present
    <2>6. kind = "study" =>
            /\ next = 1 => n = "scenario"
            /\ next = 7 => n = "events" /\ stage = 4
            /\ next >= 7 /\ n = "events" => stage = 4
      BY <2>1, WriteOrder
    <2>7. kind = "branch" =>
            /\ next = 8 => n = "scenario"
            /\ next = 5 => n = "events" /\ stage = 4
            /\ next >= 5 /\ n = "events" => stage = 4
      BY <2>1, WriteOrder
    <2>8. next = 10 => n = "manifest" /\ stage = 3
      BY <2>1, WriteOrder
    <2>9. kind = "study" =>
            /\ next >= 1 => Present("scenario")'
            /\ next >= 7 => files'["events"].stage = 4
      <3>1. ASSUME kind = "study" PROVE Present("scenario")'
        <4>1. CASE next = 1
          BY <2>3, <2>6, <3>1, <4>1
        <4>2. CASE next > 1
          BY <1>1, <1>p, <2>5, <3>1, <4>2
        <4>3. QED
          BY <4>1, <4>2
      <3>2. ASSUME kind = "study", next >= 7 PROVE files'["events"].stage = 4
        <4>1. CASE n = "events"
          BY <2>4, <2>6, <3>2, <4>1
        <4>2. CASE n # "events"
          <5>1. next > 7
            BY <2>6, <3>2, <4>2
          <5>2. QED
            BY <1>1, <1>p, <2>3, <3>2, <4>2, <5>1
        <4>3. QED
          BY <4>1, <4>2
      <3>3. QED
        BY <3>1, <3>2
    <2>10. kind = "branch" =>
             /\ next >= 5 => files'["events"].stage = 4
             /\ next >= 8 => Present("scenario")'
      <3>1. ASSUME kind = "branch", next >= 8 PROVE Present("scenario")'
        <4>1. CASE next = 8
          BY <2>3, <2>7, <3>1, <4>1
        <4>2. CASE next > 8
          BY <1>1, <1>p, <2>5, <3>1, <4>2
        <4>3. QED
          BY <3>1, <4>1, <4>2
      <3>2. ASSUME kind = "branch", next >= 5 PROVE files'["events"].stage = 4
        <4>1. CASE n = "events"
          BY <2>4, <2>7, <3>2, <4>1
        <4>2. CASE n # "events"
          <5>1. next > 5
            BY <2>7, <3>2, <4>2
          <5>2. QED
            BY <1>1, <1>p, <2>3, <3>2, <4>2, <5>1
        <4>3. QED
          BY <4>1, <4>2
      <3>3. QED
        BY <3>1, <3>2
    <2>11. proc'[p].at = "writing" => Progress(p)'
      BY <1>q, <2>5, <2>9, <2>10
    <2>12. ASSUME proc'[p].at = "done"
           PROVE  /\ \A m \in {"events", "scenario", "manifest", "checkpoints", "metrics"} :
                       files'[m].by = p
                  /\ files'["events"].stage = 4 /\ files'["manifest"].stage = 3
      <3>1. next = 10 /\ n = "manifest" /\ stage = 3
        BY <1>2, <2>8, <2>12
      <3>2. /\ Present("events") /\ Present("scenario")
            /\ Present("checkpoints") /\ Present("metrics")
            /\ files["events"].stage = 4
        BY <1>1, <1>p, <3>1
      <3>3. \A m \in {"events", "scenario", "manifest", "checkpoints", "metrics"} :
              Present(m) => files[m].by = p
        BY <1>1 DEF Inv, AuthorInv, Names
      <3>4. files'["manifest"].by = p
        BY <2>3, <3>1, <3>3
      <3>5. \A m \in {"events", "scenario", "checkpoints", "metrics"} : files'[m] = files[m]
        BY <1>1, <2>3, <3>1
      <3>6. QED
        BY <2>4, <3>1, <3>2, <3>3, <3>4, <3>5
    <2>13. QED
      BY <2>11, <2>12
  <1>4. CASE SkipTranscript(p)
    <2>1. /\ files' = files
          /\ Writes(kind)[next][1] = "transcript"
      BY <1>0, <1>4 DEF SkipTranscript
    <2>2. (kind = "study" => next = 8) /\ (kind = "branch" => next = 6)
      BY <2>1, WriteOrder
    <2>3. \A m \in Names : Present(m) => Present(m)'
      BY <2>1 DEF Present
    <2>4. proc'[p].at # "done"
      BY <1>2, <2>2
    <2>5. proc'[p].at = "writing" => Progress(p)'
      BY <1>1, <1>p, <1>q, <2>1, <2>2, <2>3
    <2>6. QED
      BY <2>4, <2>5
  <1>5. QED
    BY <1>3, <1>4

LEMMA WholeStep ==
  ASSUME ~OperatorCleans, WholeInv, [Next]_vars
  PROVE  WholeInv'
  <1>1. Inv /\ Inv'
    BY InvStep DEF WholeInv
  <1>2. CASE UNCHANGED vars
    BY <1>1, <1>2 DEF vars, WholeInv, ProgressInv, Progress, Present, FinishedRunsStayWhole
  <1>3. ASSUME NEW q \in Processes, Step(q) \/ Kill(q)
        PROVE  WholeInv'
    <2>1. ASSUME NEW p \in Processes, proc'[p].at = "writing"
          PROVE  Progress(p)'
      <3>1. CASE q = p
        <4>1. WriteNext(p) \/ SkipTranscript(p) \/ CreateDirectories(p)
          BY <1>1, <1>3, <2>1, <3>1
          DEF Step, Kill, Preflight, MakeRoot, CheckEmpty, LoseLedger, OpenLedger, Raise,
              Retain, BeginCleanup, RemoveNext, RemoveRoot, AbortCleanup, MoveTo, Inv, TypeOK,
              LaunchStates
        <4>2. CASE WriteNext(p) \/ SkipTranscript(p)
          BY <1>1, <2>1, <4>2, WriteProgress
          DEF WholeInv, ProgressInv, WriteNext, SkipTranscript
        <4>3. CASE CreateDirectories(p)
          <5>1. /\ proc[p].next = 1 /\ proc'[p].next = 1
                /\ {"checkpoints", "metrics"} \subseteq Names
            BY <1>1, <4>3 DEF CreateDirectories, Inv, NextInv, MoveTo, TypeOK, LaunchStates, Names
          <5>2. files' = [n \in Names |-> IF n \in {"checkpoints", "metrics"} /\ ~Present(n)
                                          THEN [by |-> p, ino |-> 0, stage |-> 1] ELSE files[n]]
            BY <1>1, <2>1, <4>3 DEF CreateDirectories, MoveTo, Inv, TypeOK, LaunchStates
          <5>3. Present("checkpoints")' /\ Present("metrics")'
            BY <5>1, <5>2 DEF Present, Absent
          <5>4. QED
            BY <5>1, <5>3 DEF Progress
        <4>4. QED
          BY <4>1, <4>2, <4>3
      <3>2. CASE q # p
        <4>1. proc'[p] = proc[p]
          BY <1>1, <1>3, <3>2, OthersStayPut DEF Inv
        <4>2. Present("events") /\ files["events"].by = p
          BY <1>1, <2>1, <4>1 DEF Inv, HolderInv, Holder
        <4>3. files' = files
          BY <1>1, <1>3, <3>2, <4>2, OnlyTheAuthor
        <4>4. QED
          BY <2>1, <4>1, <4>3 DEF WholeInv, ProgressInv, Progress, Present
      <3>3. QED
        BY <3>1, <3>2
    <2>2. ASSUME NEW p \in Processes, proc'[p].at = "done"
          PROVE  /\ \A n \in {"events", "scenario", "manifest", "checkpoints", "metrics"} :
                      files'[n].by = p
                 /\ files'["events"].stage = 4 /\ files'["manifest"].stage = 3
      <3>1. CASE proc[p].at = "done"
        <4>1. q # p
          BY <1>3, <3>1
          DEF Step, Kill, Preflight, MakeRoot, CheckEmpty, LoseLedger, OpenLedger,
              CreateDirectories, WriteNext, SkipTranscript, Raise, Retain, BeginCleanup,
              RemoveNext, RemoveRoot, AbortCleanup, Stopped
        <4>2. files["events"].by = p /\ Present("events")
          BY <3>1 DEF WholeInv, FinishedRunsStayWhole, Present, Absent
        <4>3. files' = files
          BY <1>1, <1>3, <4>1, <4>2, OnlyTheAuthor
        <4>4. QED
          BY <3>1, <4>3 DEF WholeInv, FinishedRunsStayWhole
      <3>2. CASE proc[p].at # "done"
        <4>1. q = p
          BY <1>1, <1>3, <2>2, <3>2, OthersStayPut DEF Inv
        <4>2. WriteNext(p) \/ SkipTranscript(p)
          BY <1>1, <1>3, <2>2, <4>1, OnlyWritersFinish
        <4>3. QED
          BY <1>1, <2>2, <4>2, WriteProgress
          DEF WholeInv, ProgressInv, WriteNext, SkipTranscript
      <3>3. QED
        BY <3>1, <3>2
    <2>3. QED
      BY <1>1, <2>1, <2>2 DEF WholeInv, ProgressInv, FinishedRunsStayWhole
  <1>4. QED
    BY <1>2, <1>3 DEF Next, CleanGenerated

\* A launch that ends well leaves its whole run, and no competitor's failure,
\* kill or cleanup takes any of it away (study.py 480-555, branching.py 149-209),
\* for any number of launches and faults, inode numbers reused or not.
THEOREM FinishedRunsAlwaysWhole == ASSUME ~OperatorCleans PROVE Spec => []FinishedRunsStayWhole
  <1>1. Init => WholeInv
    <2>1. ASSUME Init PROVE \A p \in Processes : proc[p].at \in {"planned", "reserving"}
      BY <2>1 DEF Init, Launch
    <2>2. QED
      BY <2>1, InitInv DEF WholeInv, ProgressInv, FinishedRunsStayWhole
  <1>2. WholeInv /\ [Next]_vars => WholeInv'
    BY WholeStep
  <1>3. WholeInv => FinishedRunsStayWhole
    BY DEF WholeInv
  <1>4. QED
    BY <1>1, <1>2, <1>3, PTL DEF Spec

-----------------------------------------------------------------------------
\* What holds even while an operator cleans the directory away: types, and who
\* may think the ledger is his. Without reuse, an inode number names one ledger.
Typed == TypeOK /\ NextInv

LedgerInv ==
  /\ Present("events") => files["events"].ino \in 1..issued
  /\ \A p \in Processes :
       /\ proc[p].ino <= issued
       /\ proc[p].ino # 0 /\ Present("events") /\ files["events"].ino = proc[p].ino
            => files["events"].by = p

CleanersInv ==
  \A p \in Processes :
    proc[p].at = "cleaning" /\ proc[p].next <= 5 =>
      /\ Present("events") /\ files["events"].ino = proc[p].ino
      /\ proc[p].ino # 0

FileRecords == [by : Processes \cup {"nobody"}, ino : Nat, stage : -1..4]

\* A launch moves to another legal record.
LEMMA MoveTyped ==
  ASSUME Typed, NEW p \in Processes, NEW r \in LaunchStates, proc' = [proc EXCEPT ![p] = r],
         r.at \in {"planned", "reserving", "checking", "opening", "creating"} => r.next = 1,
         r.at = "cleaning" => r.next <= 6
  PROVE  proc' \in [Processes -> LaunchStates] /\ NextInv'
  <1>1. proc' \in [Processes -> LaunchStates]
    BY DEF Typed, TypeOK
  <1>2. \A q \in Processes : proc'[q] = IF q = p THEN r ELSE proc[q]
    BY DEF Typed, TypeOK
  <1>3. NextInv'
    BY <1>2 DEF Typed, NextInv
  <1>4. QED
    BY <1>1, <1>3

\* Every step of a launch keeps the types, whoever cleans meanwhile.
LEMMA LaunchTyped ==
  ASSUME Typed, NEW p \in Processes, Step(p) \/ Kill(p)
  PROVE  Typed'
  <1> USE DEF Typed, FileRecords
  <1>a. proc[p] \in LaunchStates /\ TypeOK /\ dir \in BOOLEAN
    BY DEF TypeOK
  <1>1. ASSUME NEW place \in {"reserving", "checking", "opening", "failing"} \cup Stopped,
               proc' = [proc EXCEPT ![p].at = place],
               place \in {"reserving", "checking", "opening"} => proc[p].next = 1
        PROVE  proc' \in [Processes -> LaunchStates] /\ NextInv'
    <2> DEFINE r == [proc[p] EXCEPT !.at = place]
    <2>1. r \in LaunchStates /\ r.at = place /\ r.next = proc[p].next
      BY <1>a DEF LaunchStates, InsideReservation
    <2>2. proc' = [proc EXCEPT ![p] = r]
      BY <1>1
    <2>3. place \notin {"planned", "creating", "cleaning"}
      BY DEF Stopped
    <2>4. /\ r.at \in {"planned", "reserving", "checking", "opening", "creating"} => r.next = 1
          /\ r.at # "cleaning"
      BY <1>1, <2>1, <2>3
    <2> HIDE DEF r
    <2>5. QED
      BY <2>1, <2>2, <2>4, MoveTyped
  <1>2. CASE Preflight(p) \/ CheckEmpty(p) \/ LoseLedger(p)
    <2>1. PICK place \in {"refused", "reserving", "opening"} :
            proc' = [proc EXCEPT ![p].at = place]
      BY <1>2 DEF Preflight, CheckEmpty, LoseLedger, MoveTo
    <2>2. proc[p].next = 1 /\ UNCHANGED <<dir, files, issued, faults>>
      BY <1>2 DEF Preflight, CheckEmpty, LoseLedger, NextInv
    <2>3. place \in {"reserving", "checking", "opening", "failing"} \cup Stopped
      BY DEF Stopped
    <2>4. QED
      BY <1>1, <2>1, <2>2, <2>3 DEF TypeOK
  <1>3. CASE Raise(p) \/ Retain(p) \/ RemoveRoot(p) \/ AbortCleanup(p) \/ Kill(p)
    <2>1. PICK place \in {"failing", "stopped", "retained", "released", "aborted", "killed"} :
            proc' = [proc EXCEPT ![p].at = place]
      BY <1>3 DEF Raise, Retain, RemoveRoot, AbortCleanup, Kill, MoveTo
    <2>2. UNCHANGED <<files, issued>> /\ dir' \in BOOLEAN
      BY <1>3 DEF Raise, Retain, RemoveRoot, AbortCleanup, Kill, TypeOK
    <2>3. faults' \in 0..MaxFaults
      BY <1>3, FaultsBounded DEF Raise, Retain, RemoveRoot, AbortCleanup, Kill
    <2>4. place \in {"reserving", "checking", "opening", "failing"} \cup Stopped
      BY DEF Stopped
    <2>5. QED
      BY <1>1, <2>1, <2>2, <2>3, <2>4 DEF TypeOK
  <1>4. CASE MakeRoot(p)
    <2> DEFINE r == [proc[p] EXCEPT !.at = "checking", !.made = ~dir]
    <2>1. r \in LaunchStates /\ r.at = "checking" /\ r.next = 1
      BY <1>a, <1>4 DEF LaunchStates, MakeRoot, NextInv
    <2>2. proc' = [proc EXCEPT ![p] = r] /\ dir' = TRUE /\ UNCHANGED <<files, issued, faults>>
      BY <1>4 DEF MakeRoot
    <2> HIDE DEF r
    <2>3. QED
      BY <2>1, <2>2, MoveTyped DEF TypeOK
  <1>5. CASE OpenLedger(p)
    <2>1. /\ proc[p].next = 1 /\ Put(p, "events", 0) /\ dir' = dir /\ "events" \in Names
          /\ Fault \/ UNCHANGED faults
      BY <1>5 DEF OpenLedger, NextInv, Names
    <2>2. PICK i \in {files'["events"].ino, 0}, place \in {"creating", "failing"} :
            proc' = [proc EXCEPT ![p].at = place, ![p].ino = i]
      BY <1>5 DEF OpenLedger
    <2>3. files' \in [Names -> FileRecords] /\ issued' \in Nat
      BY <2>1, PutEffect
    <2>4. faults' \in 0..MaxFaults
      BY <2>1, FaultsBounded
    <2>5. i \in Nat
      BY <2>1, <2>2, <2>3
    <2> DEFINE r == [proc[p] EXCEPT !.at = place, !.ino = i]
    <2>6. r \in LaunchStates /\ r.at = place /\ r.next = 1
      BY <1>a, <2>1, <2>5 DEF LaunchStates, InsideReservation
    <2>7. proc' = [proc EXCEPT ![p] = r]
      BY <2>2
    <2> HIDE DEF r
    <2>8. proc' \in [Processes -> LaunchStates] /\ NextInv'
      BY <2>6, <2>7, MoveTyped
    <2>9. QED
      BY <2>1, <2>3, <2>4, <2>8 DEF TypeOK
  <1>6. CASE CreateDirectories(p)
    <2>1. PICK created \in {{}, {"checkpoints"}, {"checkpoints", "metrics"}},
               place \in {"writing", "failing"} :
            /\ files' = [n \in Names |-> IF n \in created /\ ~Present(n)
                                         THEN [by |-> p, ino |-> 0, stage |-> 1] ELSE files[n]]
            /\ proc' = [proc EXCEPT ![p].at = place]
            /\ Fault \/ UNCHANGED faults
      BY <1>6 DEF CreateDirectories, MoveTo
    <2>2. files' \in [Names -> FileRecords]
      BY <2>1 DEF TypeOK
    <2>3. faults' \in 0..MaxFaults
      BY <2>1, FaultsBounded
    <2> DEFINE r == [proc[p] EXCEPT !.at = place]
    <2>4. r \in LaunchStates /\ r.at = place
      BY <1>a DEF LaunchStates, InsideReservation
    <2>5. proc' = [proc EXCEPT ![p] = r]
      BY <2>1
    <2> HIDE DEF r
    <2>6. proc' \in [Processes -> LaunchStates] /\ NextInv'
      BY <2>4, <2>5, MoveTyped
    <2>7. QED
      BY <1>6, <2>2, <2>3, <2>6 DEF TypeOK, CreateDirectories
  <1>7. CASE WriteNext(p) \/ SkipTranscript(p)
    <2>1. /\ proc[p].at = "writing" /\ proc[p].next \in 1..10 /\ dir' = dir
          /\ proc[p].kind \in {"study", "branch"} /\ Advance(p) /\ faults' = faults
      BY <1>7 DEF WriteNext, SkipTranscript, TypeOK, LaunchStates
    <2>2. files' \in [Names -> FileRecords] /\ issued' \in Nat
      <3>1. CASE WriteNext(p)
        <4>1. PICK n \in Names, stage \in 0..4 : Put(p, n, stage)
          BY <2>1, <3>1, WriteList DEF WriteNext
        <4>2. QED
          BY <4>1, PutEffect
      <3>2. CASE SkipTranscript(p)
        BY <3>2 DEF SkipTranscript, TypeOK
      <3>3. QED
        BY <1>7, <3>1, <3>2
    <2>3. CASE proc[p].next = 10
      <3>1. proc' = [proc EXCEPT ![p].at = "done"]
        BY <2>1, <2>3, WriteList DEF Advance, MoveTo
      <3>2. proc' \in [Processes -> LaunchStates] /\ NextInv'
        BY <1>1, <3>1 DEF Stopped
      <3>3. QED
        BY <2>1, <2>2, <3>2 DEF TypeOK
    <2>4. CASE proc[p].next # 10
      <3> DEFINE r == [proc[p] EXCEPT !.next = proc[p].next + 1]
      <3>1. proc' = [proc EXCEPT ![p] = r]
        BY <2>1, <2>4, WriteList DEF Advance
      <3>2. r \in LaunchStates /\ r.at = "writing"
        BY <1>a, <2>1, <2>4 DEF LaunchStates
      <3> HIDE DEF r
      <3>3. proc' \in [Processes -> LaunchStates] /\ NextInv'
        BY <3>1, <3>2, MoveTyped
      <3>4. QED
        BY <2>1, <2>2, <3>3 DEF TypeOK
    <2>5. QED
      BY <2>3, <2>4
  <1>8. CASE BeginCleanup(p)
    <2> DEFINE r == [proc[p] EXCEPT !.at = "cleaning", !.next = 1]
    <2>1. "cleaning" \in InsideReservation /\ 1 \in 1..10
      BY DEF InsideReservation
    <2>2. r \in LaunchStates /\ r.at = "cleaning" /\ r.next <= 6
      <3>1. r \in LaunchStates
        BY <1>a, <2>1 DEF LaunchStates
      <3>2. r.at = "cleaning" /\ r.next = 1
        BY <1>a DEF LaunchStates
      <3>3. QED
        BY <3>1, <3>2
    <2>3. proc' = [proc EXCEPT ![p] = r] /\ UNCHANGED <<dir, files, issued, faults>>
      BY <1>8 DEF BeginCleanup
    <2> HIDE DEF r
    <2>4. proc' \in [Processes -> LaunchStates] /\ NextInv'
      BY <2>2, <2>3, MoveTyped
    <2>5. QED
      BY <2>3, <2>4 DEF TypeOK
  <1>9. CASE RemoveNext(p)
    <2> DEFINE r == [proc[p] EXCEPT !.next = proc[p].next + 1]
    <2>0. proc[p].at = "cleaning" /\ proc[p].next \in 1..5
      BY <1>a, <1>9, RemovalOrder DEF RemoveNext, LaunchStates
    <2>1. r \in LaunchStates /\ r.at = "cleaning" /\ r.next <= 6
      BY <1>a, <2>0 DEF LaunchStates
    <2>2. proc' = [proc EXCEPT ![p] = r] /\ UNCHANGED <<dir, issued, faults>>
      BY <1>9 DEF RemoveNext
    <2>3. files' \in [Names -> FileRecords]
      BY <1>9, <2>0, RemovalOrder DEF RemoveNext, TypeOK, Absent
    <2> HIDE DEF r
    <2>4. proc' \in [Processes -> LaunchStates] /\ NextInv'
      BY <2>1, <2>2, MoveTyped
    <2>5. QED
      BY <2>2, <2>3, <2>4 DEF TypeOK
  <1>10. QED
    BY <1>2, <1>3, <1>4, <1>5, <1>6, <1>7, <1>8, <1>9 DEF Step

LEMMA TypedStep ==
  ASSUME Typed, [Next]_vars
  PROVE  Typed'
  <1>1. CASE UNCHANGED vars
    BY <1>1 DEF vars, Typed, TypeOK, NextInv
  <1>2. CASE CleanGenerated
    <2>1. /\ dir' = FALSE /\ files' = [n \in Names |-> Absent]
          /\ issued' = issued /\ proc' = proc /\ faults' = faults
      BY <1>2 DEF CleanGenerated
    <2>2. files' \in [Names -> [by : Processes \cup {"nobody"}, ino : Nat, stage : -1..4]]
      BY <2>1 DEF Absent
    <2>3. QED
      BY <2>1, <2>2 DEF Typed, TypeOK, NextInv
  <1>3. QED
    BY <1>1, <1>2, LaunchTyped DEF Next

\* The variables stay typed, for any number of launches and faults, whether inode
\* numbers come back or not, and whoever cleans generated artifacts meanwhile.
THEOREM DirectoryTyped == Spec => []TypeOK
  <1>1. Init => Typed
    BY InitInv DEF Inv, Typed
  <1>2. Typed /\ [Next]_vars => Typed'
    BY TypedStep
  <1>3. Typed => TypeOK
    BY DEF Typed
  <1>4. QED
    BY <1>1, <1>2, <1>3, PTL DEF Spec

\* Only a file that is missing is made anew; a new ledger gets the next number.
LEMMA PutLedger ==
  ASSUME ~InodesReused, TypeOK, NEW p \in Processes, NEW n \in Names, NEW stage \in 0..4,
         Put(p, n, stage)
  PROVE  \/ /\ issued' = issued /\ (Present("events")' => Present("events"))
            /\ files'["events"].ino = files["events"].ino
            /\ files'["events"].by = files["events"].by
            /\ Present("events") => Present("events")'
         \/ /\ n = "events" /\ ~Present("events") /\ issued' = issued + 1
            /\ files'["events"].ino = issued' /\ files'["events"].by = p
  <1>1. "events" \in Names
    BY DEF Names
  <1>2. CASE Present(n)
    BY <1>1, <1>2 DEF Put, TypeOK, Present, Absent
  <1>3. CASE ~Present(n) /\ n = "events"
    <2>1. PICK i \in FreshInodes :
            /\ files' = [files EXCEPT ![n] = [by |-> p, ino |-> i, stage |-> stage]]
            /\ issued' = IF i > issued THEN i ELSE issued
      BY <1>3 DEF Put
    <2>2. i = issued + 1
      BY DEF FreshInodes
    <2>3. QED
      BY <1>1, <1>3, <2>1, <2>2 DEF TypeOK
  <1>4. CASE ~Present(n) /\ n # "events"
    BY <1>1, <1>4 DEF Put, TypeOK, Present
  <1>5. QED
    BY <1>2, <1>3, <1>4

\* How a ledger and the launches' memory of it may change in a step.
LEMMA LedgerKept ==
  ASSUME Typed, Typed', LedgerInv, NEW p \in Processes,
         \/ /\ issued' = issued /\ (Present("events")' => Present("events"))
            /\ files'["events"].ino = files["events"].ino
            /\ files'["events"].by = files["events"].by
         \/ issued' = issued /\ ~Present("events")'
         \/ /\ ~Present("events") /\ issued' = issued + 1
            /\ files'["events"].ino = issued' /\ files'["events"].by = p,
         \A q \in Processes : q # p => proc'[q] = proc[q],
         \/ proc'[p].ino \in {0, proc[p].ino}
         \/ /\ proc'[p].ino = files'["events"].ino /\ proc'[p].ino = issued'
            /\ files'["events"].by = p
  PROVE  LedgerInv'
  <1>1. /\ issued \in Nat /\ \A q \in Processes : proc[q].ino \in Nat
        /\ files["events"].ino \in Nat /\ files'["events"].ino \in Nat
        /\ issued' \in Nat /\ proc'[p].ino \in Nat
    BY DEF Typed, TypeOK, LaunchStates, Names
  <1>2. Present("events")' => files'["events"].ino \in 1..issued'
    BY <1>1 DEF LedgerInv
  <1>3. ASSUME NEW q \in Processes
        PROVE  proc'[q].ino <= issued'
    BY <1>1 DEF LedgerInv
  <1>4. ASSUME NEW q \in Processes, proc'[q].ino # 0, Present("events")',
               files'["events"].ino = proc'[q].ino
        PROVE  files'["events"].by = q
    BY <1>1, <1>4 DEF LedgerInv
  <1>5. QED
    BY <1>2, <1>3, <1>4 DEF LedgerInv

\* Only a launch that starts or goes on cleaning needs a look at its ledger.
LEMMA CleanersKept ==
  ASSUME CleanersInv, NEW p \in Processes, \A q \in Processes : q # p => proc'[q] = proc[q],
         Present("events") => Present("events")' /\ files'["events"].ino = files["events"].ino,
         proc'[p].at # "cleaning"
  PROVE  CleanersInv'
  BY DEF CleanersInv

LEMMA LedgerStep ==
  ASSUME ~InodesReused, Typed, LedgerInv, CleanersInv, [Next]_vars
  PROVE  LedgerInv' /\ CleanersInv'
  <1>0. Typed' /\ TypeOK
    BY TypedStep DEF Typed
  <1>1. CASE UNCHANGED vars
    BY <1>1 DEF vars, LedgerInv, CleanersInv, Present
  <1>2. CASE CleanGenerated
    <2>1. files' = [n \in Names |-> Absent] /\ issued' = issued /\ proc' = proc
      BY <1>2 DEF CleanGenerated
    <2>2. \A q \in Processes : proc'[q].at # "cleaning"
      BY <1>2, <2>1 DEF CleanGenerated
    <2>3. ~Present("events")'
      BY <2>1 DEF Present, Names
    <2>4. LedgerInv'
      BY <2>1, <2>3 DEF LedgerInv
    <2>5. QED
      BY <2>2, <2>4 DEF CleanersInv
  <1>3. ASSUME NEW p \in Processes, Step(p) \/ Kill(p)
        PROVE  LedgerInv' /\ CleanersInv'
    <2>1. \A q \in Processes : q # p => proc'[q] = proc[q]
      BY <1>0, <1>3, OthersStayPut
    <2>2. CASE OpenLedger(p)
      <3>1. Put(p, "events", 0) /\ ~Present("events") /\ "events" \in Names
        BY <2>2 DEF OpenLedger, Names
      <3>2. PICK i \in {files'["events"].ino, 0}, place \in {"creating", "failing"} :
              proc' = [proc EXCEPT ![p].at = place, ![p].ino = i]
        BY <2>2 DEF OpenLedger
      <3>3. proc'[p].ino \in {files'["events"].ino, 0} /\ proc'[p].at # "cleaning"
        BY <1>0, <3>2 DEF TypeOK, LaunchStates
      <3>4. /\ issued' = issued + 1
            /\ files'["events"].ino = issued' /\ files'["events"].by = p
        BY <1>0, <3>1, PutEffect, PutLedger
      <3>5. LedgerInv'
        BY <1>0, <2>1, <3>1, <3>3, <3>4, LedgerKept
      <3>6. QED
        BY <2>1, <3>1, <3>3, <3>5, CleanersKept
    <2>3. CASE WriteNext(p)
      <3>1. proc[p].at = "writing" /\ proc[p].next \in 1..10 /\ proc[p].kind \in {"study", "branch"}
        BY <1>0, <2>3 DEF WriteNext, TypeOK, LaunchStates
      <3>2. PICK n \in Names, stage \in 0..4 : Put(p, n, stage)
        BY <2>3, <3>1, WriteList DEF WriteNext
      <3>3. \/ proc' = [proc EXCEPT ![p].at = "done"]
            \/ proc' = [proc EXCEPT ![p].next = proc[p].next + 1]
        BY <2>3 DEF WriteNext, Advance, MoveTo
      <3>4. proc'[p].ino = proc[p].ino /\ proc'[p].at # "cleaning"
        BY <1>0, <3>1, <3>3 DEF TypeOK, LaunchStates
      <3>5. LedgerInv'
        BY <1>0, <2>1, <3>2, <3>4, PutLedger, LedgerKept
      <3>6. Present("events") => Present("events")' /\ files'["events"].ino = files["events"].ino
        BY <1>0, <3>2, PutLedger
      <3>7. QED
        BY <2>1, <3>4, <3>5, <3>6, CleanersKept
    <2>4. CASE CreateDirectories(p)
      <3>1. files'["events"] = files["events"] /\ issued' = issued
        BY <2>4 DEF CreateDirectories, Names
      <3>2. proc'[p].ino = proc[p].ino /\ proc'[p].at # "cleaning"
        BY <1>0, <2>4 DEF CreateDirectories, MoveTo, TypeOK, LaunchStates
      <3>3. LedgerInv'
        BY <1>0, <2>1, <3>1, <3>2, LedgerKept DEF Present
      <3>4. QED
        BY <2>1, <3>1, <3>2, <3>3, CleanersKept DEF Present
    <2>5. CASE BeginCleanup(p)
      <3>1. /\ proc' = [proc EXCEPT ![p].at = "cleaning", ![p].next = 1]
            /\ files' = files /\ issued' = issued /\ Owned(p)
        BY <2>5 DEF BeginCleanup
      <3>2. proc'[p].ino = proc[p].ino
        BY <1>0, <3>1 DEF TypeOK, LaunchStates
      <3>3. LedgerInv'
        BY <1>0, <2>1, <3>1, <3>2, LedgerKept DEF Present
      <3>4. QED
        BY <2>1, <3>1, <3>2, <3>3 DEF CleanersInv, Owned, Present
    <2>6. CASE RemoveNext(p)
      <3>0. proc[p].next \in 1..5
        BY <1>0, <2>6, RemovalOrder DEF RemoveNext, TypeOK, LaunchStates
      <3>1. PICK k \in 1..5 :
              /\ k = proc[p].next /\ proc[p].at = "cleaning"
              /\ files' = [files EXCEPT ![Removals[k]] = Absent]
              /\ proc' = [proc EXCEPT ![p].next = k + 1] /\ issued' = issued
        BY <2>6, <3>0 DEF RemoveNext
      <3>2. proc'[p].ino = proc[p].ino /\ proc'[p].next = k + 1
        BY <1>0, <3>1 DEF TypeOK, LaunchStates
      <3>3. /\ "events" \in Names /\ Removals[k] \in Names
            /\ k < 5 => files'["events"] = files["events"]
            /\ k = 5 => ~Present("events")'
        BY <1>0, <3>1, RemovalOrder DEF TypeOK, Present, Names
      <3>4. LedgerInv'
        BY <1>0, <2>1, <3>1, <3>2, <3>3, LedgerKept DEF Present
      <3>5. Present("events") /\ files["events"].ino = proc[p].ino /\ proc[p].ino # 0
        BY <3>1 DEF CleanersInv
      <3>6. \A q \in Processes : proc[q].at = "cleaning" /\ proc[q].next <= 5 => q = p
        BY <3>5 DEF CleanersInv, LedgerInv
      <3>7. CASE k = 5
        <4>1. SUFFICES ASSUME NEW q \in Processes, proc'[q].at = "cleaning", proc'[q].next <= 5
                       PROVE  FALSE
          BY <3>4 DEF CleanersInv
        <4>2. CASE q = p
          BY <3>2, <3>7, <4>1, <4>2
        <4>3. CASE q # p
          BY <2>1, <3>6, <4>1, <4>3
        <4>4. QED
          BY <4>2, <4>3
      <3>8. CASE k < 5
        BY <2>1, <3>2, <3>3, <3>4, <3>5, <3>8 DEF CleanersInv, Present
      <3>9. QED
        BY <3>7, <3>8
    <2>7. CASE ~(OpenLedger(p) \/ WriteNext(p) \/ CreateDirectories(p) \/ BeginCleanup(p)
                 \/ RemoveNext(p))
      <3>1. files' = files /\ issued' = issued
        BY <1>3, <2>7 DEF Step, Kill, Preflight, MakeRoot, CheckEmpty, LoseLedger,
          SkipTranscript, Raise, Retain, RemoveRoot, AbortCleanup
      <3>2. CASE SkipTranscript(p)
        <4>1. \/ proc' = [proc EXCEPT ![p].at = "done"]
              \/ proc' = [proc EXCEPT ![p].next = proc[p].next + 1]
          BY <3>2 DEF SkipTranscript, Advance, MoveTo
        <4>2. proc'[p].ino = proc[p].ino /\ proc'[p].at # "cleaning"
          BY <1>0, <3>2, <4>1 DEF TypeOK, LaunchStates, SkipTranscript
        <4>3. LedgerInv'
          BY <1>0, <2>1, <3>1, <4>2, LedgerKept DEF Present
        <4>4. QED
          BY <2>1, <3>1, <4>2, <4>3, CleanersKept DEF Present
      <3>3. CASE ~SkipTranscript(p)
        <4>1. \/ MakeRoot(p)
              \/ \E place \in {"reserving", "checking", "opening", "failing"} \cup Stopped :
                   proc' = [proc EXCEPT ![p].at = place]
          BY <1>3, <2>7, <3>3 DEF Step, Kill, Preflight, CheckEmpty, LoseLedger,
            Raise, Retain, RemoveRoot, AbortCleanup, MoveTo, Stopped
        <4>2. proc'[p].ino = proc[p].ino /\ proc'[p].at # "cleaning"
          BY <1>0, <4>1 DEF TypeOK, LaunchStates, MakeRoot, Stopped
        <4>3. LedgerInv'
          BY <1>0, <2>1, <3>1, <4>2, LedgerKept DEF Present
        <4>4. QED
          BY <2>1, <3>1, <4>2, <4>3, CleanersKept DEF Present
      <3>4. QED
        BY <3>2, <3>3
    <2>8. QED
      BY <2>2, <2>3, <2>4, <2>5, <2>6, <2>7
  <1>4. QED
    BY <1>1, <1>2, <1>3 DEF Next

\* A cleanup only works in a directory whose ledger its launch made, even when the
\* directory was cleaned away and claimed again since: the inode recorded at open
\* tells (store.py 79-82). It takes a filesystem that does not reuse numbers.
THEOREM CleanersOwnLedger == ASSUME ~InodesReused PROVE Spec => []CleanersOwnTheLedger
  <1>1. Init => Typed /\ LedgerInv /\ CleanersInv
    <2>1. ASSUME Init
          PROVE  /\ ~Present("events") /\ issued = 0
                 /\ \A p \in Processes : proc[p].ino = 0 /\ proc[p].at # "cleaning"
      BY <2>1 DEF Init, Launch, Present, Names
    <2>2. QED
      BY <2>1, InitInv DEF Inv, Typed, LedgerInv, CleanersInv
  <1>2. Typed /\ LedgerInv /\ CleanersInv /\ [Next]_vars => (Typed /\ LedgerInv /\ CleanersInv)'
    BY TypedStep, LedgerStep
  <1>3. Typed /\ LedgerInv /\ CleanersInv => CleanersOwnTheLedger
    BY RemovalOrder DEF LedgerInv, CleanersInv, CleanersOwnTheLedger, Holder
  <1>4. QED
    BY <1>1, <1>2, <1>3, PTL DEF Spec

-----------------------------------------------------------------------------
\* Snapshots. A snapshot reads the files at several moments, so what matters is
\* how a file may differ between two of them. As long as one launch has it, ledger
\* and manifest only grow; and a launch that lost its ledger never has one again.
Spent(p) == proc[p].at \in Stopped \cup {"failing", "cleaning"}

Grew(old, new) ==
  new # Absent /\ new.by = old.by /\ new.ino = old.ino /\ new.stage >= old.stage

Outlived(old) ==
  /\ old.by \in Processes /\ Spent(old.by)
  /\ ~(Present("events") /\ files["events"].by = old.by)

LedgerSince(old) == old # Absent => Grew(old, files["events"]) \/ Outlived(old)
ManifestSince(old) == old # Absent => Grew(old, files["manifest"])

\* A writer has not yet written a later stage than those ahead of it.
BehindInv ==
  \A p \in Processes : proc[p].at \in {"creating", "writing"} =>
    \A i \in 1..10, n \in {"events", "manifest"} :
      i >= proc[p].next /\ Writes(proc[p].kind)[i][1] = n
        => files[n].stage <= Writes(proc[p].kind)[i][2]

\* A final manifest is the last thing its launch wrote.
FinalInv ==
  files["manifest"].stage = 3 => \E p \in Processes : files["manifest"].by = p /\ proc[p].at = "done"

\* A manifest is in one of its four stages.
StageInv == Present("manifest") => files["manifest"].stage \in 0..3

DirectoryInv == WholeInv /\ BehindInv /\ FinalInv /\ StageInv

\* Both programs write a file's stages in order.
LEMMA WriteStages ==
  ASSUME NEW kind \in {"study", "branch"}, NEW i \in 1..10, NEW j \in 1..10, i < j,
         Writes(kind)[i][1] \in {"events", "manifest"}, Writes(kind)[i][1] = Writes(kind)[j][1]
  PROVE  Writes(kind)[i][2] <= Writes(kind)[j][2]
  <1>1. CASE kind = "study"
    BY <1>1 DEF Writes
  <1>2. CASE kind = "branch"
    BY <1>2 DEF Writes
  <1>3. QED
    BY <1>1, <1>2

\* A final manifest comes with the last write only.
LEMMA FinalWrite ==
  ASSUME NEW kind \in {"study", "branch"}, NEW i \in 1..10, Writes(kind)[i][1] = "manifest"
  PROVE  Writes(kind)[i][2] \in 0..3 /\ (Writes(kind)[i][2] = 3 => i = 10)
  BY DEF Writes

\* The only steps that make, change or remove a file.
LEMMA OnlyTheseWrite ==
  ASSUME NEW p \in Processes, Step(p) \/ Kill(p)
  PROVE  \/ files' = files
         \/ OpenLedger(p) \/ CreateDirectories(p) \/ WriteNext(p) \/ RemoveNext(p)
  BY DEF Step, Kill, Preflight, MakeRoot, CheckEmpty, LoseLedger, SkipTranscript, Raise, Retain,
         BeginCleanup, RemoveRoot, AbortCleanup

\* The only steps that end in creating or writing.
LEMMA OnlyTheseGoOn ==
  ASSUME TypeOK, NEW p \in Processes, Step(p) \/ Kill(p), proc'[p].at \in {"creating", "writing"}
  PROVE  OpenLedger(p) \/ CreateDirectories(p) \/ WriteNext(p) \/ SkipTranscript(p)
  <1> USE DEF TypeOK, LaunchStates, MoveTo
  <1>1. ~Preflight(p) /\ ~CheckEmpty(p) /\ ~LoseLedger(p)
    BY DEF Preflight, CheckEmpty, LoseLedger
  <1>2. ~MakeRoot(p)
    BY DEF MakeRoot
  <1>3. ~Raise(p) /\ ~Retain(p) /\ ~AbortCleanup(p) /\ ~RemoveRoot(p) /\ ~Kill(p)
    BY DEF Raise, Retain, AbortCleanup, RemoveRoot, Kill
  <1>4. ~BeginCleanup(p)
    BY DEF BeginCleanup
  <1>5. ASSUME RemoveNext(p) PROVE FALSE
    <2>1. proc[p].at = "cleaning" /\ proc' = [proc EXCEPT ![p].next = proc[p].next + 1]
      BY <1>5 DEF RemoveNext
    <2>2. proc'[p].at = "cleaning"
      BY <2>1
    <2>3. QED
      BY <2>2
  <1>6. QED
    BY <1>1, <1>2, <1>3, <1>4, <1>5 DEF Step

\* What is spent stays spent.
LEMMA SpentStays ==
  ASSUME TypeOK, [Next]_vars, NEW p \in Processes, Spent(p)
  PROVE  Spent(p)'
  <1>1. CASE proc' = proc
    BY <1>1 DEF Spent
  <1>2. ASSUME NEW q \in Processes, q # p, Step(q) \/ Kill(q)
        PROVE  Spent(p)'
    BY <1>2, OthersStayPut DEF Spent
  <1>3. CASE Step(p) \/ Kill(p)
    <2>1. proc[p].at \in Stopped \cup {"failing", "cleaning"}
      BY DEF Spent
    <2>2. CASE Retain(p) \/ RemoveRoot(p) \/ AbortCleanup(p) \/ Kill(p)
      BY <2>2 DEF Retain, RemoveRoot, AbortCleanup, Kill, MoveTo, TypeOK, LaunchStates, Spent,
        Stopped
    <2>3. CASE BeginCleanup(p)
      BY <2>3 DEF BeginCleanup, TypeOK, LaunchStates, Spent
    <2>4. CASE RemoveNext(p)
      <3>1. proc[p].at = "cleaning" /\ proc' = [proc EXCEPT ![p].next = proc[p].next + 1]
        BY <2>4 DEF RemoveNext
      <3>2. proc'[p].at = "cleaning"
        BY <3>1 DEF TypeOK, LaunchStates
      <3>3. QED
        BY <3>2 DEF Spent
    <2>5. QED
      BY <1>3, <2>1, <2>2, <2>3, <2>4
      DEF Step, Preflight, MakeRoot, CheckEmpty, LoseLedger, OpenLedger, CreateDirectories,
          WriteNext, SkipTranscript, Raise, Stopped
  <1>4. QED
    BY <1>1, <1>2, <1>3 DEF Next, vars, CleanGenerated

\* The write a launch makes, by name.
LEMMA TheWrite ==
  ASSUME Inv, NEW p \in Processes, WriteNext(p)
  PROVE  \E i \in 1..10, kind \in {"study", "branch"}, n \in Names, stage \in 0..4 :
           /\ i = proc[p].next /\ kind = proc[p].kind
           /\ n = Writes(kind)[i][1] /\ stage = Writes(kind)[i][2]
           /\ Put(p, n, stage)
           /\ \A m \in Names : m # n => files'[m] = files[m]
           /\ files'[n].stage = stage
           /\ Present(n) => files'[n].by = files[n].by /\ files'[n].ino = files[n].ino
           /\ Present(n)' /\ Present("events") /\ proc[p].at = "writing"
  <1>1. PICK i \in 1..10, kind \in {"study", "branch"} :
          /\ i = proc[p].next /\ kind = proc[p].kind /\ proc[p].at = "writing"
    BY DEF Inv, TypeOK, LaunchStates, WriteNext
  <1>2. PICK n \in Names, stage \in 0..4 : n = Writes(kind)[i][1] /\ stage = Writes(kind)[i][2]
    BY WriteList
  <1>3. Put(p, n, stage)
    BY <1>1, <1>2 DEF WriteNext
  <1>4. /\ \A m \in Names : m # n => files'[m] = files[m]
        /\ files'[n].stage = stage /\ Present(n)'
    BY <1>3, PutEffect, PutStage DEF Inv
  <1>5. Present(n) => files'[n].by = files[n].by /\ files'[n].ino = files[n].ino
    BY <1>3 DEF Put, Inv, TypeOK
  <1>6. Present("events")
    BY <1>1 DEF Inv, HolderInv, Holder
  <1>7. QED
    BY <1>1, <1>2, <1>3, <1>4, <1>5, <1>6

LEMMA BehindStep ==
  ASSUME Inv, Inv', BehindInv, NEW q \in Processes, Step(q) \/ Kill(q)
  PROVE  BehindInv'
  <1>1. SUFFICES ASSUME NEW p \in Processes, proc'[p].at \in {"creating", "writing"},
                        NEW i \in 1..10, NEW n \in {"events", "manifest"},
                        i >= proc'[p].next, Writes(proc'[p].kind)[i][1] = n
                 PROVE  files'[n].stage <= Writes(proc'[p].kind)[i][2]
    BY DEF BehindInv
  <1>2. n \in Names /\ "events" \in Names
    BY DEF Names
  <1>3. CASE q # p
    <2>1. proc'[p] = proc[p]
      BY <1>3, OthersStayPut DEF Inv
    <2>2. Present("events") /\ files["events"].by = p
      BY <1>1, <2>1 DEF Inv, HolderInv, Holder
    <2>3. files' = files
      BY <1>3, <2>2, OnlyTheAuthor
    <2>4. QED
      BY <1>1, <2>1, <2>3 DEF BehindInv
  <1>4. CASE q = p
    <2>1. OpenLedger(p) \/ CreateDirectories(p) \/ WriteNext(p) \/ SkipTranscript(p)
      BY <1>1, <1>4, OnlyTheseGoOn DEF Inv
    <2>2. CASE OpenLedger(p)
      <3>1. Put(p, "events", 0) /\ ~Present("events")
        BY <2>2 DEF OpenLedger
      <3>2. files'["events"].stage = 0 /\ (n # "events" => files'[n] = files[n])
        BY <1>2, <3>1, PutStage, PutEffect DEF Inv
      <3>3. ~Present("manifest") /\ "manifest" \in Names \ {"transcript"}
        BY <3>1 DEF Inv, AuthorInv, Names
      <3>4. files'[n].stage <= 0
        BY <3>2, <3>3 DEF Present, Absent
      <3>5. proc'[p].kind \in {"study", "branch"}
        BY DEF Inv, TypeOK, LaunchStates
      <3>6. Writes(proc'[p].kind)[i][2] \in 0..4
        BY <3>5, WriteList
      <3>7. files'[n].stage \in Int
        BY <1>2 DEF Inv, TypeOK
      <3>8. QED
        BY <3>4, <3>6, <3>7
    <2>3. CASE CreateDirectories(p)
      <3>1. files'[n] = files[n]
        BY <1>2, <2>3 DEF CreateDirectories
      <3>2. proc'[p].kind = proc[p].kind /\ proc'[p].next = proc[p].next
            /\ proc[p].at = "creating"
        BY <2>3 DEF CreateDirectories, MoveTo, Inv, TypeOK, LaunchStates
      <3>3. QED
        BY <1>1, <3>1, <3>2 DEF BehindInv
    <2>4. CASE WriteNext(p) \/ SkipTranscript(p)
      <3>1. /\ proc[p].at = "writing" /\ proc[p].next \in 1..10
            /\ proc[p].kind \in {"study", "branch"} /\ proc'[p].kind = proc[p].kind
            /\ proc'[p].next = proc[p].next + 1
        BY <1>1, <2>4, AdvanceEffect DEF WriteNext, SkipTranscript, Inv, TypeOK, LaunchStates
      <3>2. i > proc[p].next
        BY <1>1, <3>1
      <3>3. CASE files'[n] = files[n]
        BY <1>1, <3>1, <3>2, <3>3 DEF BehindInv
      <3>4. CASE files'[n] # files[n]
        <4>1. WriteNext(p)
          BY <2>4, <3>4 DEF SkipTranscript
        <4>2. PICK j \in 1..10, kind \in {"study", "branch"}, m \in Names, stage \in 0..4 :
                /\ j = proc[p].next /\ kind = proc[p].kind
                /\ m = Writes(kind)[j][1] /\ stage = Writes(kind)[j][2]
                /\ \A l \in Names : l # m => files'[l] = files[l]
                /\ files'[m].stage = stage
          BY <4>1, TheWrite
        <4>3. m = n
          BY <1>2, <3>4, <4>2
        <4>4. stage <= Writes(kind)[i][2]
          BY <1>1, <3>1, <3>2, <4>2, <4>3, WriteStages
        <4>5. QED
          BY <3>1, <4>2, <4>3, <4>4
      <3>5. QED
        BY <3>3, <3>4
    <2>5. QED
      BY <2>1, <2>2, <2>3, <2>4
  <1>5. QED
    BY <1>3, <1>4

\* Once the manifest is final, nobody holds the directory and nothing changes.
LEMMA FinalFiles ==
  ASSUME ~OperatorCleans, DirectoryInv, [Next]_vars, files["manifest"].stage = 3
  PROVE  files' = files
  <1>1. PICK p \in Processes : files["manifest"].by = p /\ proc[p].at = "done"
    BY DEF DirectoryInv, FinalInv
  <1>2. Inv /\ files["events"].by = p /\ files["events"].stage = 4
    BY <1>1 DEF DirectoryInv, WholeInv, FinishedRunsStayWhole
  <1>3. Present("events")
    BY <1>2 DEF Present, Absent
  <1>4. ASSUME NEW q \in Processes, Step(q) \/ Kill(q)
        PROVE  files' = files
    <2>1. q # p
      BY <1>1, <1>4
      DEF Step, Kill, Preflight, MakeRoot, CheckEmpty, LoseLedger, OpenLedger,
          CreateDirectories, WriteNext, SkipTranscript, Raise, Retain, BeginCleanup,
          RemoveNext, RemoveRoot, AbortCleanup, Stopped
    <2>2. QED
      BY <1>2, <1>3, <1>4, <2>1, OnlyTheAuthor
  <1>5. QED
    BY <1>4 DEF Next, vars, CleanGenerated

\* Only a write changes the manifest.
LEMMA ManifestChange ==
  ASSUME ~OperatorCleans, Inv, [Next]_vars, files'["manifest"] # files["manifest"]
  PROVE  \E p \in Processes, i \in 1..10, kind \in {"study", "branch"} :
           /\ WriteNext(p)
           /\ i = proc[p].next /\ kind = proc[p].kind /\ Writes(kind)[i][1] = "manifest"
           /\ files'["manifest"].stage = Writes(kind)[i][2]
  <1>1. PICK p \in Processes : Step(p) \/ Kill(p)
    BY DEF Next, vars, CleanGenerated
  <1>2. ~OpenLedger(p)
    <2>1. ASSUME OpenLedger(p) PROVE files'["manifest"] = files["manifest"]
      BY <2>1, PutEffect DEF OpenLedger, Names, Inv
    <2>2. QED
      BY <2>1
  <1>3. ~CreateDirectories(p)
    BY DEF CreateDirectories, Names
  <1>4. ~RemoveNext(p)
    <2>1. SUFFICES ASSUME RemoveNext(p) PROVE FALSE
      OBVIOUS
    <2>2. proc[p].next \in 1..5
      BY <2>1, RemovalOrder DEF RemoveNext, Inv, TypeOK, LaunchStates
    <2>3. Removals[proc[p].next] \in Names \ {"manifest"}
      BY <2>2, RemovalOrder
    <2>4. files'["manifest"] = files["manifest"]
      BY <2>1, <2>3 DEF RemoveNext, Inv, TypeOK, Names
    <2>5. QED
      BY <2>4
  <1>5. WriteNext(p)
    BY <1>1, <1>2, <1>3, <1>4, OnlyTheseWrite
  <1>6. PICK i \in 1..10, kind \in {"study", "branch"}, n \in Names, stage \in 0..4 :
          /\ i = proc[p].next /\ kind = proc[p].kind
          /\ n = Writes(kind)[i][1] /\ stage = Writes(kind)[i][2]
          /\ \A m \in Names : m # n => files'[m] = files[m]
          /\ files'[n].stage = stage
    BY <1>5, TheWrite
  <1>7. n = "manifest"
    BY <1>6 DEF Names
  <1>8. QED
    BY <1>5, <1>6, <1>7

LEMMA FinalStep ==
  ASSUME ~OperatorCleans, DirectoryInv, [Next]_vars
  PROVE  FinalInv'
  <1>0. Inv
    BY DEF DirectoryInv, WholeInv
  <1>1. ASSUME NEW p \in Processes, proc[p].at = "done"
        PROVE  proc'[p].at = "done"
    <2>1. ASSUME NEW q \in Processes, q # p, Step(q) \/ Kill(q)
          PROVE  proc'[p] = proc[p]
      BY <1>0, <2>1, OthersStayPut DEF Inv
    <2>2. ~Step(p) /\ ~Kill(p)
      BY <1>1
      DEF Step, Kill, Preflight, MakeRoot, CheckEmpty, LoseLedger, OpenLedger,
          CreateDirectories, WriteNext, SkipTranscript, Raise, Retain, BeginCleanup,
          RemoveNext, RemoveRoot, AbortCleanup, Stopped
    <2>3. QED
      BY <1>1, <2>1, <2>2 DEF Next, vars, CleanGenerated
  <1>2. CASE files["manifest"].stage = 3
    BY <1>1, <1>2, FinalFiles DEF DirectoryInv, FinalInv
  <1>3. CASE files["manifest"].stage # 3
    <2>1. SUFFICES ASSUME files'["manifest"].stage = 3
                   PROVE  \E p \in Processes : files'["manifest"].by = p /\ proc'[p].at = "done"
      BY DEF FinalInv
    <2>2. PICK p \in Processes, i \in 1..10, kind \in {"study", "branch"} :
            /\ WriteNext(p)
            /\ i = proc[p].next /\ kind = proc[p].kind /\ Writes(kind)[i][1] = "manifest"
            /\ files'["manifest"].stage = Writes(kind)[i][2]
      BY <1>0, <1>3, <2>1, ManifestChange
    <2>3. i = 10
      BY <2>1, <2>2, FinalWrite
    <2>4. proc'[p].at = "done"
      BY <1>0, <2>2, <2>3, AdvanceEffect
    <2>5. files'["manifest"].by = p
      BY <2>4, WholeStep DEF DirectoryInv, WholeInv, FinishedRunsStayWhole
    <2>6. QED
      BY <2>4, <2>5
  <1>4. QED
    BY <1>2, <1>3

LEMMA DirectoryStep ==
  ASSUME ~OperatorCleans, DirectoryInv, [Next]_vars
  PROVE  DirectoryInv'
  <1>1. WholeInv' /\ Inv /\ Inv'
    BY WholeStep DEF DirectoryInv, WholeInv
  <1>2. FinalInv'
    BY FinalStep
  <1>3. BehindInv'
    <2>1. CASE UNCHANGED vars
      BY <2>1 DEF vars, DirectoryInv, BehindInv
    <2>2. QED
      BY <1>1, <2>1, BehindStep DEF DirectoryInv, Next, CleanGenerated
  <1>4. StageInv'
    <2>1. CASE files'["manifest"] = files["manifest"]
      BY <2>1 DEF DirectoryInv, StageInv, Present
    <2>2. CASE files'["manifest"] # files["manifest"]
      BY <1>1, <2>2, ManifestChange, FinalWrite DEF StageInv
    <2>3. QED
      BY <2>1, <2>2
  <1>5. QED
    BY <1>1, <1>2, <1>3, <1>4 DEF DirectoryInv

LEMMA DirectoryInit ==
  ASSUME Init
  PROVE  DirectoryInv
  <1>1. \A p \in Processes : proc[p].at \in {"planned", "reserving"}
    BY DEF Init, Launch
  <1>2. files["manifest"].stage # 3 /\ ~Present("manifest")
    BY DEF Init, Absent, Names, Present
  <1>3. QED
    BY <1>1, <1>2, InitInv
    DEF DirectoryInv, WholeInv, ProgressInv, FinishedRunsStayWhole, BehindInv, FinalInv, StageInv

\* A ledger grows, or goes with its launch, or is made by one that had none.
LEMMA LedgerMoves ==
  ASSUME ~OperatorCleans, DirectoryInv, [Next]_vars
  PROVE  \/ files'["events"] = files["events"]
         \/ files["events"] # Absent /\ Grew(files["events"], files'["events"])
         \/ files["events"] = Absent /\ \E p \in Processes : ~Spent(p) /\ files'["events"].by = p
         \/ /\ files["events"] # Absent /\ files'["events"] = Absent
            /\ \E p \in Processes : files["events"].by = p /\ Spent(p)
  <1>0. Inv /\ BehindInv /\ "events" \in Names
    BY DEF DirectoryInv, WholeInv, Names
  <1>1. SUFFICES ASSUME files' # files, NEW p \in Processes, Step(p) \/ Kill(p)
                 PROVE  \/ files'["events"] = files["events"]
                        \/ files["events"] # Absent /\ Grew(files["events"], files'["events"])
                        \/ files["events"] = Absent /\ ~Spent(p) /\ files'["events"].by = p
                        \/ /\ files["events"] # Absent /\ files'["events"] = Absent
                           /\ files["events"].by = p /\ Spent(p)
    BY DEF Next, vars, CleanGenerated
  <1>2. CASE OpenLedger(p)
    <2>1. Put(p, "events", 0) /\ ~Present("events") /\ ~Spent(p)
      BY <1>2 DEF OpenLedger, Spent, Stopped
    <2>2. files'["events"].by = p
      BY <1>0, <2>1, PutEffect DEF Inv
    <2>3. QED
      BY <2>1, <2>2 DEF Present
  <1>3. CASE CreateDirectories(p)
    BY <1>0, <1>3 DEF CreateDirectories
  <1>4. CASE WriteNext(p)
    <2>1. PICK i \in 1..10, kind \in {"study", "branch"}, n \in Names, stage \in 0..4 :
            /\ i = proc[p].next /\ kind = proc[p].kind
            /\ n = Writes(kind)[i][1] /\ stage = Writes(kind)[i][2]
            /\ \A m \in Names : m # n => files'[m] = files[m]
            /\ files'[n].stage = stage
            /\ Present(n) => files'[n].by = files[n].by /\ files'[n].ino = files[n].ino
            /\ Present(n)' /\ Present("events") /\ proc[p].at = "writing"
      BY <1>0, <1>4, TheWrite
    <2>2. CASE n # "events"
      BY <1>0, <2>1, <2>2
    <2>3. CASE n = "events"
      <3>1. files["events"].stage <= Writes(kind)[i][2]
        <4>1. proc[p].at \in {"creating", "writing"} /\ i >= proc[p].next
          BY <2>1
        <4>2. Writes(proc[p].kind)[i][1] = "events"
          BY <2>1, <2>3
        <4>3. files["events"].stage <= Writes(proc[p].kind)[i][2]
          BY <1>0, <4>1, <4>2 DEF BehindInv
        <4>4. QED
          BY <2>1, <4>3
      <3>2. files'["events"].stage >= files["events"].stage
        BY <1>0, <2>1, <2>3, <3>1 DEF Inv, TypeOK
      <3>3. QED
        BY <2>1, <2>3, <3>2 DEF Grew, Present
    <2>4. QED
      BY <2>2, <2>3
  <1>5. CASE RemoveNext(p)
    <2>1. proc[p].at = "cleaning" /\ proc[p].next \in 1..5
      BY <1>0, <1>5, RemovalOrder DEF RemoveNext, Inv, TypeOK, LaunchStates
    <2>2. PICK k \in 1..5 : k = proc[p].next /\ files' = [files EXCEPT ![Removals[k]] = Absent]
      BY <1>5, <2>1 DEF RemoveNext
    <2>3. Present("events") /\ files["events"].by = p /\ Spent(p)
      BY <1>0, <2>1, RemovalOrder DEF Inv, HolderInv, Holder, Spent
    <2>4. files'["events"] \in {files["events"], Absent}
      BY <1>0, <2>2, RemovalOrder DEF Inv, TypeOK
    <2>5. QED
      BY <2>3, <2>4 DEF Present
  <1>6. QED
    BY <1>1, <1>2, <1>3, <1>4, <1>5, OnlyTheseWrite

\* A manifest only grows, and never goes away.
LEMMA ManifestMoves ==
  ASSUME ~OperatorCleans, DirectoryInv, [Next]_vars, files["manifest"] # Absent
  PROVE  Grew(files["manifest"], files'["manifest"])
  <1>0. Inv /\ BehindInv /\ "manifest" \in Names /\ "events" \in Names
    BY DEF DirectoryInv, WholeInv, Names
  <1>1. CASE files'["manifest"] = files["manifest"]
    BY <1>0, <1>1 DEF Grew, Inv, TypeOK
  <1>2. CASE files'["manifest"] # files["manifest"]
    <2>1. PICK p \in Processes : Step(p) \/ Kill(p)
      BY <1>2 DEF Next, vars, CleanGenerated
    <2>2. Present("manifest") /\ Present("events")
      BY <1>0 DEF Present, Inv, AuthorInv
    <2>3. ~OpenLedger(p) /\ ~CreateDirectories(p)
      BY <1>0, <1>2, <2>2 DEF OpenLedger, CreateDirectories
    <2>4. ~RemoveNext(p)
      <3>1. SUFFICES ASSUME RemoveNext(p) PROVE FALSE
        OBVIOUS
      <3>2. proc[p].at = "cleaning" /\ proc[p].next \in 1..5
        BY <1>0, <3>1, RemovalOrder DEF RemoveNext, Inv, TypeOK, LaunchStates
      <3>3. QED
        BY <1>0, <2>2, <3>2 DEF Inv, CleanInv
    <2>5. PICK i \in 1..10, kind \in {"study", "branch"}, n \in Names, stage \in 0..4 :
            /\ i = proc[p].next /\ kind = proc[p].kind
            /\ n = Writes(kind)[i][1] /\ stage = Writes(kind)[i][2]
            /\ \A m \in Names : m # n => files'[m] = files[m]
            /\ files'[n].stage = stage
            /\ Present(n) => files'[n].by = files[n].by /\ files'[n].ino = files[n].ino
            /\ Present(n)' /\ Present("events") /\ proc[p].at = "writing"
      BY <1>0, <1>2, <2>1, <2>3, <2>4, OnlyTheseWrite, TheWrite
    <2>6. n = "manifest"
      BY <1>0, <1>2, <2>5
    <2>7. files["manifest"].stage <= Writes(kind)[i][2]
      <3>1. proc[p].at \in {"creating", "writing"} /\ i >= proc[p].next
        BY <2>5
      <3>2. Writes(proc[p].kind)[i][1] = "manifest"
        BY <2>5, <2>6
      <3>3. files["manifest"].stage <= Writes(proc[p].kind)[i][2]
        BY <1>0, <3>1, <3>2 DEF BehindInv
      <3>4. QED
        BY <2>5, <3>3
    <2>8. files'["manifest"].stage >= files["manifest"].stage
      BY <1>0, <2>5, <2>6, <2>7 DEF Inv, TypeOK
    <2>9. QED
      BY <2>2, <2>5, <2>6, <2>8 DEF Grew, Present
  <1>3. QED
    BY <1>1, <1>2

\* What was read at some moment stays in the past of what is there.
LEMMA SinceStays ==
  ASSUME ~OperatorCleans, DirectoryInv, [Next]_vars, NEW old \in FileRecords
  PROVE  /\ LedgerSince(old) => LedgerSince(old)'
         /\ ManifestSince(old) => ManifestSince(old)'
         /\ old # Absent /\ Outlived(old) => Outlived(old)'
  <1>0. /\ TypeOK /\ TypeOK' /\ "events" \in Names /\ "manifest" \in Names
        /\ files["events"] \in FileRecords /\ files'["events"] \in FileRecords
        /\ files["manifest"] \in FileRecords /\ files'["manifest"] \in FileRecords
    <2>1. TypeOK /\ TypeOK'
      BY DirectoryStep DEF DirectoryInv, WholeInv, Inv
    <2>2. QED
      BY <2>1 DEF TypeOK, Names, FileRecords
  <1>1. ASSUME old # Absent, Outlived(old)
        PROVE  Outlived(old)'
    <2>1. Spent(old.by)'
      BY <1>0, <1>1, SpentStays DEF Outlived
    <2>2. ASSUME Present("events")', files'["events"].by = old.by
          PROVE  FALSE
      <3>1. ~(Present("events") /\ files["events"].by = old.by) /\ Spent(old.by)
        BY <1>1 DEF Outlived
      <3>2. QED
        BY <2>2, <3>1, LedgerMoves DEF Present, Grew
    <2>3. QED
      BY <1>1, <2>1, <2>2 DEF Outlived
  <1>2. ASSUME old # Absent, LedgerSince(old)
        PROVE  LedgerSince(old)'
    <2>1. CASE Outlived(old)
      BY <1>1, <1>2, <2>1 DEF LedgerSince
    <2>2. CASE Grew(old, files["events"])
      <3>1. CASE files'["events"] = files["events"]
        BY <2>2, <3>1 DEF LedgerSince, Grew
      <3>2. CASE Grew(files["events"], files'["events"])
        BY <1>0, <2>2, <3>2 DEF LedgerSince, Grew, FileRecords
      <3>3. ASSUME files'["events"] = Absent, NEW p \in Processes, files["events"].by = p, Spent(p)
            PROVE  LedgerSince(old)'
        <4>1. old.by = p /\ Spent(p)'
          BY <1>0, <2>2, <3>3, SpentStays DEF Grew
        <4>2. Outlived(old)'
          BY <3>3, <4>1 DEF Outlived, Present
        <4>3. QED
          BY <4>2 DEF LedgerSince
      <3>4. QED
        BY <2>2, <3>1, <3>2, <3>3, LedgerMoves DEF Grew
    <2>3. QED
      BY <1>2, <2>1, <2>2 DEF LedgerSince
  <1>3. ASSUME old # Absent, ManifestSince(old)
        PROVE  ManifestSince(old)'
    <2>1. Grew(old, files["manifest"])
      BY <1>3 DEF ManifestSince
    <2>2. Grew(files["manifest"], files'["manifest"])
      BY <2>1, ManifestMoves DEF Grew
    <2>3. QED
      BY <1>0, <2>1, <2>2 DEF ManifestSince, Grew, FileRecords
  <1>4. QED
    BY <1>1, <1>2, <1>3 DEF LedgerSince, ManifestSince

-----------------------------------------------------------------------------
(* The snapshot being taken, step by step. *)

Snapshots ==
  [at : {"idle", "signing", "manifest", "prefix", "run", "checking"},
   before : Seq(FileRecords), seen : Seq(FileRecords), after : Seq(FileRecords),
   manifest : {"none", "running", "final"}, status : {"unsealed", "sealed", "broken"},
   integrity : {"not_checked", "prefix_hashes_only", "sealed_validated", "broken"}, count : Nat]

SnapTyped ==
  /\ snap \in Snapshots
  /\ snap.at = "idle" => Len(snap.before) = 0
  /\ snap.at = "signing" => Len(snap.before) < 4
  /\ snap.at \in {"manifest", "prefix", "run", "checking"} => Len(snap.before) = 4
  /\ snap.at = "checking" => Len(snap.seen) = 4 /\ Len(snap.after) <= 4
  /\ snap.at # "checking" => Len(snap.after) = 0 /\ snap.status = "unsealed"

\* What was signed first lies in the past of what is there.
SignedInv ==
  /\ Len(snap.before) >= 1 => LedgerSince(snap.before[1])
  /\ Len(snap.before) >= 2 => ManifestSince(snap.before[2])

\* So does what was read, and what was signed first lies in its past.
SeenInv ==
  snap.at = "checking" =>
    /\ LedgerSince(snap.seen[1]) /\ ManifestSince(snap.seen[2])
    /\ snap.before[1] # Absent => Grew(snap.before[1], snap.seen[1]) \/ Outlived(snap.before[1])
    /\ snap.before[2] # Absent => Grew(snap.before[2], snap.seen[2])

\* A second signature equal to the first fixes what was read in between.
SignedAgainInv ==
  /\ Len(snap.after) >= 1 /\ snap.after[1] = snap.before[1] /\ snap.before[1] # Absent
       => snap.seen[1] = snap.before[1]
  /\ Len(snap.after) >= 2 /\ snap.after[2] = snap.before[2] => snap.seen[2] = snap.before[2]

\* A sealed run does not change any more.
SealedInv ==
  snap.status = "sealed" =>
    /\ files["manifest"].stage = 3
    /\ \A k \in 1..4 : snap.seen[k] = files[SnapshotFiles[k]]
    /\ \A k \in 1..Len(snap.after) : snap.after[k] = snap.seen[k]

\* What the snapshot knows of the manifest's text.
TextInv ==
  /\ snap.manifest = "running" =>
       /\ files["manifest"] # Absent /\ files["manifest"].stage >= 1
       /\ snap.before[2] # Absent => snap.before[2].stage <= 1
  /\ snap.manifest = "running" /\ snap.at = "checking" =>
       snap.seen[2] # Absent /\ snap.seen[2].stage >= 1
  /\ snap.manifest = "final" => files["manifest"].stage = 3
  /\ snap.manifest = "final" /\ snap.at = "checking" => snap.status = "sealed"
  /\ snap.manifest # "none" => Len(snap.before) = 4
  /\ snap.at = "run" => snap.manifest = "final"
  /\ snap.at = "prefix" => snap.manifest # "final"
  /\ snap.at = "checking" /\ snap.status = "broken" => Torn(snap.seen[2])

SnapInv ==
  SnapTyped /\ SignedInv /\ SeenInv /\ SignedAgainInv /\ SealedInv /\ TextInv

\* While the directory changes, the snapshot's past stays its past.
LEMMA SnapStays ==
  ASSUME ~OperatorCleans, DirectoryInv, [Next]_vars, SnapInv, snap' = snap
  PROVE  SnapInv'
  <1>0. TypeOK /\ TypeOK' /\ "manifest" \in Names
    BY DirectoryStep DEF DirectoryInv, WholeInv, Inv, Names
  <1>1. SnapTyped /\ SnapTyped'
    BY DEF SnapInv, SnapTyped
  <1>2. /\ \A k \in 1..Len(snap.before) : snap.before[k] \in FileRecords
        /\ \A k \in 1..Len(snap.seen) : snap.seen[k] \in FileRecords
        /\ Len(snap.before) \in Nat /\ Len(snap.seen) \in Nat
    BY <1>1 DEF SnapTyped, Snapshots
  <1>3. ASSUME Len(snap.before) >= 1
        PROVE  /\ LedgerSince(snap.before[1]) => LedgerSince(snap.before[1])'
               /\ snap.before[1] # Absent /\ Outlived(snap.before[1]) => Outlived(snap.before[1])'
    <2>1. PICK old \in FileRecords : old = snap.before[1]
      BY <1>2, <1>3
    <2>2. /\ LedgerSince(old) => LedgerSince(old)'
          /\ old # Absent /\ Outlived(old) => Outlived(old)'
      BY SinceStays
    <2>3. QED
      BY <2>1, <2>2 DEF LedgerSince, Outlived, Spent, Present
  <1>4. ASSUME Len(snap.before) >= 2
        PROVE  ManifestSince(snap.before[2]) => ManifestSince(snap.before[2])'
    <2>1. PICK old \in FileRecords : old = snap.before[2]
      BY <1>2, <1>4
    <2>2. ManifestSince(old) => ManifestSince(old)'
      BY SinceStays
    <2>3. QED
      BY <2>1, <2>2 DEF ManifestSince
  <1>5. SignedInv'
    BY <1>3, <1>4 DEF SnapInv, SignedInv, LedgerSince, ManifestSince, Outlived, Spent, Present
  <1>6. SeenInv'
    <2>1. SUFFICES ASSUME snap.at = "checking" PROVE SeenInv'
      BY DEF SeenInv
    <2>2. Len(snap.seen) = 4 /\ Len(snap.before) = 4
      BY <1>1, <2>1 DEF SnapTyped
    <2>3. PICK old \in FileRecords : old = snap.seen[1]
      BY <1>2, <2>2
    <2>4. PICK text \in FileRecords : text = snap.seen[2]
      BY <1>2, <2>2
    <2>5. (LedgerSince(old) => LedgerSince(old)') /\ (ManifestSince(text) => ManifestSince(text)')
      BY SinceStays
    <2>6. LedgerSince(old) /\ ManifestSince(text)
      BY <2>1, <2>3, <2>4 DEF SnapInv, SeenInv
    <2>7. snap.before[1] # Absent => Grew(snap.before[1], snap.seen[1]) \/ Outlived(snap.before[1])
      BY <2>1 DEF SnapInv, SeenInv
    <2>8. snap.before[1] # Absent =>
            Grew(snap'.before[1], snap'.seen[1]) \/ Outlived(snap.before[1])'
      BY <1>3, <2>2, <2>7
    <2>9. snap.before[2] # Absent => Grew(snap.before[2], snap.seen[2])
      BY <2>1 DEF SnapInv, SeenInv
    <2>10. QED
      BY <2>3, <2>4, <2>5, <2>6, <2>8, <2>9
      DEF SeenInv, LedgerSince, ManifestSince, Outlived, Spent, Present
  <1>7. SignedAgainInv'
    BY DEF SnapInv, SignedAgainInv
  <1>8. SealedInv'
    BY FinalFiles DEF SnapInv, SealedInv
  <1>9. TextInv'
    <2>1. files["manifest"].stage = 3 => files'["manifest"].stage = 3
      BY FinalFiles
    <2>2. files["manifest"].stage \in Int /\ files'["manifest"].stage \in Int
      BY <1>0 DEF TypeOK
    <2>3. files["manifest"] # Absent /\ files["manifest"].stage >= 1
            => files'["manifest"] # Absent /\ files'["manifest"].stage >= 1
      BY <2>2, ManifestMoves DEF Grew
    <2>4. QED
      BY <2>1, <2>3 DEF SnapInv, TextInv
  <1>10. QED
    BY <1>1, <1>5, <1>6, <1>7, <1>8, <1>9 DEF SnapInv

LEMMA StartStep ==
  ASSUME SnapInv, StartSnapshot
  PROVE  SnapInv'
  <1>1. /\ snap' = [Idle EXCEPT !.at = "signing"]
        /\ Len(<<>>) = 0
    BY DEF StartSnapshot
  <1>2. /\ snap'.at = "signing" /\ snap'.before = <<>> /\ snap'.after = <<>>
        /\ snap'.status = "unsealed" /\ snap'.manifest = "none"
    BY <1>1 DEF Idle
  <1>3. SnapTyped'
    <2>1. snap' \in Snapshots
      <3>1. <<>> \in Seq(FileRecords)
        OBVIOUS
      <3>2. QED
        BY <1>1, <3>1 DEF Idle, Snapshots
    <2>2. QED
      BY <1>1, <1>2, <2>1 DEF SnapTyped
  <1>4. SignedInv' /\ SeenInv' /\ SignedAgainInv' /\ SealedInv' /\ TextInv'
    BY <1>1, <1>2 DEF SignedInv, SeenInv, SignedAgainInv, SealedInv, TextInv
  <1>5. QED
    BY <1>3, <1>4 DEF SnapInv

\* A file just read is in its own past.
LEMMA SinceNow ==
  ASSUME TypeOK
  PROVE  LedgerSince(files["events"]) /\ ManifestSince(files["manifest"])
  <1>1. files["events"] \in FileRecords /\ files["manifest"] \in FileRecords
    BY DEF TypeOK, FileRecords, Names
  <1>2. QED
    BY <1>1 DEF LedgerSince, ManifestSince, Grew, FileRecords

LEMMA TheFour ==
  ASSUME TypeOK
  PROVE  /\ SnapshotFiles[1] = "events" /\ SnapshotFiles[2] = "manifest"
         /\ \A k \in 1..4 : SnapshotFiles[k] \in Names /\ files[SnapshotFiles[k]] \in FileRecords
         /\ AllFour \in Seq(FileRecords) /\ Len(AllFour) = 4
         /\ \A k \in 1..4 : AllFour[k] = files[SnapshotFiles[k]]
         /\ AllFour[1] = files["events"] /\ AllFour[2] = files["manifest"]
  <1>1. /\ SnapshotFiles[1] = "events" /\ SnapshotFiles[2] = "manifest"
        /\ \A k \in 1..4 : SnapshotFiles[k] \in Names
    BY DEF SnapshotFiles, Names
  <1>2. \A k \in 1..4 : files[SnapshotFiles[k]] \in FileRecords
    BY <1>1 DEF TypeOK, FileRecords
  <1>3. AllFour \in [1..4 -> FileRecords]
    BY <1>2 DEF AllFour
  <1>4. AllFour \in Seq(FileRecords) /\ Len(AllFour) = 4
    <2> DEFINE four == AllFour
    <2>1. four \in [1..4 -> FileRecords] /\ 4 \in Nat
      BY <1>3
    <2> HIDE DEF four
    <2>2. four \in Seq(FileRecords)
      BY <2>1, SeqDef
    <2>3. Len(four) = 4
      BY <2>1, <2>2, LenProperties
    <2>4. QED
      BY <2>2, <2>3 DEF four
  <1>5. \A k \in 1..4 : AllFour[k] = files[SnapshotFiles[k]]
    BY DEF AllFour
  <1>6. QED
    BY <1>1, <1>2, <1>4, <1>5

LEMMA SignBeforeStep ==
  ASSUME TypeOK, SnapInv, SignBefore
  PROVE  SnapInv'
  <1>a. snap.at = "signing" /\ SnapTyped
    BY DEF SignBefore, SnapInv
  <1>b. snap \in Snapshots /\ snap.before \in Seq(FileRecords)
    BY <1>a DEF SnapTyped, Snapshots
  <1>c. Len(snap.before) \in Nat /\ Len(snap.before) < 4
    BY <1>a, <1>b DEF SnapTyped
  <1>t. snap.manifest # "none" => Len(snap.before) = 4
    BY DEF SnapInv, TextInv
  <1>d. snap.manifest = "none"
    BY <1>c, <1>t
  <1>1. /\ snap.at = "signing" /\ snap \in Snapshots
        /\ snap.before \in Seq(FileRecords) /\ Len(snap.after) = 0 /\ snap.status = "unsealed"
        /\ snap.manifest = "none"
    BY <1>a, <1>b, <1>d DEF SnapTyped
  <1> DEFINE k == Len(snap.before) + 1
  <1>2. k \in 1..4 /\ k - 1 = Len(snap.before)
    BY <1>c
  <1> HIDE DEF k
  <1>3. PICK file \in FileRecords : file = files[SnapshotFiles[k]]
    BY <1>2, TheFour
  <1> DEFINE before == Append(snap.before, file)
  <1>4. before \in Seq(FileRecords)
    BY <1>1, <1>3
  <1>5. /\ Len(before) = k
        /\ \A i \in 1..k : before[i] = IF i = k THEN file ELSE snap.before[i]
    BY <1>1, <1>2, <1>3, AppendProperties
  <1> DEFINE place == IF Len(snap.before) = 3 THEN "manifest" ELSE snap.at
  <1>6. snap' = [snap EXCEPT !.before = before, !.at = place]
    BY <1>1, <1>3 DEF SignBefore, k, Snapshots
  <1>f. (k = 4) <=> (Len(snap.before) = 3)
    <2> DEFINE n == Len(snap.before)
    <2>1. n \in Nat /\ k = n + 1
      BY <1>c DEF k
    <2> HIDE DEF n
    <2>2. (k = 4) <=> (n = 3)
      BY <2>1
    <2>3. QED
      BY <2>2 DEF n
  <1>e. place = IF k = 4 THEN "manifest" ELSE "signing"
    BY <1>a, <1>f
  <1> HIDE DEF before, place
  <1>7. /\ snap'.before = before /\ snap'.at = place /\ snap'.after = snap.after
        /\ snap'.status = snap.status /\ snap'.manifest = snap.manifest
    BY <1>1, <1>6 DEF Snapshots
  <1>8. SnapTyped'
    <2>1. snap' \in Snapshots
      BY <1>1, <1>4, <1>6, <1>e DEF Snapshots
    <2>2. QED
      BY <1>1, <1>2, <1>5, <1>7, <1>e, <2>1 DEF SnapTyped
  <1>9. files' = files /\ proc' = proc
    BY DEF SignBefore, vars
  <1>10. SignedInv'
    <2>1. Len(before) >= 1 => LedgerSince(before[1])
      <3>1. CASE k = 1
        BY <1>3, <1>5, <3>1, SinceNow, TheFour
      <3>2. CASE k > 1
        <4>1. 1 \in 1..k /\ before[1] = snap.before[1] /\ Len(snap.before) >= 1
          BY <1>2, <1>5, <3>2
        <4>2. QED
          BY <4>1 DEF SnapInv, SignedInv
      <3>3. QED
        BY <1>2, <3>1, <3>2
    <2>2. Len(before) >= 2 => ManifestSince(before[2])
      <3>1. CASE k = 2
        BY <1>3, <1>5, <3>1, SinceNow, TheFour
      <3>2. CASE k > 2
        <4>1. 2 \in 1..k /\ before[2] = snap.before[2] /\ Len(snap.before) >= 2
          BY <1>2, <1>5, <3>2
        <4>2. QED
          BY <4>1 DEF SnapInv, SignedInv
      <3>3. QED
        BY <1>2, <1>5, <3>1, <3>2
    <2>3. QED
      BY <1>7, <1>9, <2>1, <2>2
      DEF SignedInv, LedgerSince, ManifestSince, Outlived, Spent, Present
  <1>11. SeenInv' /\ SignedAgainInv' /\ SealedInv' /\ TextInv'
    BY <1>1, <1>7, <1>e DEF SeenInv, SignedAgainInv, SealedInv, TextInv
  <1>12. QED
    BY <1>8, <1>10, <1>11 DEF SnapInv

\* The moment of a reading: all four files as they are.
LEMMA ReadingStep ==
  ASSUME TypeOK, SnapInv, snap.at \in {"manifest", "prefix", "run"}, UNCHANGED vars,
         snap' \in Snapshots, snap'.at = "checking", snap'.seen = AllFour,
         snap'.before = snap.before, snap'.after = snap.after, snap'.manifest = snap.manifest,
         snap'.status = "broken" => Torn(files["manifest"]),
         snap'.status = "sealed" => files["manifest"].stage = 3,
         snap.manifest = "final" => snap'.status = "sealed"
  PROVE  SnapInv'
  <1>1. /\ Len(snap.before) = 4 /\ Len(snap.after) = 0
    BY DEF SnapInv, SnapTyped
  <1>2. files' = files /\ proc' = proc
    BY DEF vars
  <1>3. SnapTyped'
    BY <1>1, TheFour DEF SnapTyped
  <1>4. SignedInv'
    BY <1>1, <1>2
    DEF SnapInv, SignedInv, LedgerSince, ManifestSince, Outlived, Spent, Present
  <1>5. SeenInv'
    <2>1. LedgerSince(files["events"]) /\ ManifestSince(files["manifest"])
      BY SinceNow
    <2>2. LedgerSince(snap.before[1]) /\ ManifestSince(snap.before[2])
      BY <1>1 DEF SnapInv, SignedInv
    <2>3. QED
      BY <1>2, <2>1, <2>2, TheFour
      DEF SeenInv, LedgerSince, ManifestSince, Outlived, Spent, Present
  <1>6. SignedAgainInv'
    BY <1>1 DEF SignedAgainInv
  <1>7. SealedInv'
    BY <1>1, <1>2, TheFour DEF SealedInv
  <1>8. TextInv'
    BY <1>1, <1>2, TheFour DEF SnapInv, TextInv
  <1>9. QED
    BY <1>3, <1>4, <1>5, <1>6, <1>7, <1>8 DEF SnapInv

\* A final manifest finds everything load_run needs, of one author.
LEMMA FinalRunsLoad ==
  ASSUME DirectoryInv, files["manifest"].stage = 3
  PROVE  /\ files["events"].stage = 4 /\ Present("scenario")
         /\ \A n \in {"scenario", "branch"} : Present(n) => files[n].by = files["manifest"].by
  <1>1. PICK p \in Processes : files["manifest"].by = p /\ proc[p].at = "done"
    BY DEF DirectoryInv, FinalInv
  <1>2. /\ \A n \in {"events", "scenario", "manifest", "checkpoints", "metrics"} : files[n].by = p
        /\ files["events"].stage = 4
    BY <1>1 DEF DirectoryInv, WholeInv, FinishedRunsStayWhole
  <1>n. p # "nobody"
    BY DirectoryAssumption
  <1>3. Inv /\ ProgressInv /\ {"scenario", "branch"} \subseteq Names \ {"transcript"}
    BY DEF DirectoryInv, WholeInv, Names
  <1>4. \A n \in {"scenario", "branch"} : Present(n) => files[n].by = p
    BY <1>2, <1>3 DEF Inv, AuthorInv
  <1>5. Present("scenario")
    BY <1>2, <1>n DEF Present, Absent
  <1>6. QED
    BY <1>1, <1>2, <1>4, <1>5

\* Between two equal records nothing grew.
LEMMA GrewBack ==
  ASSUME NEW old \in FileRecords, NEW mid \in FileRecords, Grew(old, mid), Grew(mid, old)
  PROVE  mid = old
  BY DEF Grew, FileRecords

LEMMA SignAfterStep ==
  ASSUME TypeOK, SnapInv, SignAfter
  PROVE  SnapInv'
  <1>a. /\ snap.at = "checking" /\ SnapTyped /\ snap \in Snapshots /\ Len(snap.before) = 4
        /\ Len(snap.seen) = 4
    BY DEF SignAfter, SnapInv, SnapTyped
  <1>b. /\ snap.after \in Seq(FileRecords) /\ snap.before \in Seq(FileRecords)
        /\ snap.seen \in Seq(FileRecords)
    BY <1>a DEF Snapshots
  <1>c. Len(snap.after) \in Nat /\ Len(snap.after) < 4
    BY <1>b DEF SignAfter
  <1> DEFINE k == Len(snap.after) + 1
  <1>1. k \in 1..4 /\ k - 1 = Len(snap.after)
    BY <1>c
  <1>2. PICK file \in FileRecords : file = files[SnapshotFiles[k]]
    BY <1>1, TheFour
  <1> DEFINE after == Append(snap.after, file)
  <1>3. after \in Seq(FileRecords)
    BY <1>b, <1>2
  <1>4. /\ Len(after) = k
        /\ \A i \in 1..k : after[i] = IF i = k THEN file ELSE snap.after[i]
    BY <1>1, <1>2, <1>b, AppendProperties
  <1>5. snap' = [snap EXCEPT !.after = after]
    BY <1>a, <1>2 DEF SignAfter, Snapshots
  <1> HIDE DEF k, after
  <1>6. /\ snap'.after = after /\ snap'.at = "checking" /\ snap'.before = snap.before
        /\ snap'.seen = snap.seen /\ snap'.status = snap.status /\ snap'.manifest = snap.manifest
    BY <1>a, <1>5 DEF Snapshots
  <1>7. files' = files /\ proc' = proc
    BY DEF SignAfter, vars
  <1>8. /\ snap.before[1] \in FileRecords /\ snap.before[2] \in FileRecords
        /\ snap.seen[1] \in FileRecords /\ snap.seen[2] \in FileRecords
    BY <1>a, <1>b
  <1>9. SnapTyped'
    <2>1. snap' \in Snapshots
      BY <1>a, <1>3, <1>5 DEF Snapshots
    <2>2. QED
      BY <1>a, <1>1, <1>4, <1>6, <2>1 DEF SnapTyped
  <1>10. SignedInv' /\ SeenInv' /\ TextInv'
    BY <1>a, <1>6, <1>7
    DEF SnapInv, SignedInv, SeenInv, TextInv, LedgerSince, ManifestSince, Outlived, Spent, Present
  <1>s. /\ LedgerSince(snap.seen[1]) /\ ManifestSince(snap.seen[2])
        /\ snap.before[1] # Absent => Grew(snap.before[1], snap.seen[1]) \/ Outlived(snap.before[1])
        /\ snap.before[2] # Absent => Grew(snap.before[2], snap.seen[2])
    BY <1>a DEF SnapInv, SeenInv
  <1>11. after[1] = snap.before[1] /\ snap.before[1] # Absent => snap.seen[1] = snap.before[1]
    <2>1. CASE k = 1
      <3>1. SUFFICES ASSUME after[1] = snap.before[1], snap.before[1] # Absent
                     PROVE  snap.seen[1] = snap.before[1]
        OBVIOUS
      <3>2. files["events"] = snap.before[1]
        BY <1>2, <1>4, <2>1, <3>1, TheFour
      <3>3. Grew(snap.before[1], snap.seen[1])
        BY <1>s, <3>1, <3>2 DEF Outlived, Present
      <3>4. Grew(snap.seen[1], files["events"])
        BY <1>s, <3>1, <3>2, <3>3 DEF LedgerSince, Outlived, Present, Grew
      <3>5. QED
        BY <1>8, <3>2, <3>3, <3>4, GrewBack
    <2>2. CASE k > 1
      <3>1. 1 \in 1..k /\ after[1] = snap.after[1] /\ Len(snap.after) >= 1
        BY <1>1, <1>4, <2>2
      <3>2. QED
        BY <3>1 DEF SnapInv, SignedAgainInv
    <2>3. QED
      BY <1>1, <2>1, <2>2
  <1>12. k >= 2 /\ after[2] = snap.before[2] => snap.seen[2] = snap.before[2]
    <2>1. CASE k = 2
      <3>1. SUFFICES ASSUME after[2] = snap.before[2]
                     PROVE  snap.seen[2] = snap.before[2]
        OBVIOUS
      <3>2. files["manifest"] = snap.before[2]
        BY <1>2, <1>4, <2>1, <3>1, TheFour
      <3>3. CASE snap.before[2] = Absent
        BY <1>s, <3>2, <3>3 DEF ManifestSince, Grew
      <3>4. CASE snap.before[2] # Absent
        <4>1. Grew(snap.before[2], snap.seen[2])
          BY <1>s, <3>4
        <4>2. Grew(snap.seen[2], files["manifest"])
          BY <1>s, <4>1 DEF ManifestSince, Grew
        <4>3. QED
          BY <1>8, <3>2, <4>1, <4>2, GrewBack
      <3>5. QED
        BY <3>3, <3>4
    <2>2. CASE k > 2
      <3>1. 2 \in 1..k /\ after[2] = snap.after[2] /\ Len(snap.after) >= 2
        BY <1>1, <1>4, <2>2
      <3>2. QED
        BY <3>1 DEF SnapInv, SignedAgainInv
    <2>3. QED
      BY <1>1, <2>1, <2>2
  <1>13. SignedAgainInv'
    BY <1>4, <1>6, <1>11, <1>12 DEF SignedAgainInv
  <1>14. SealedInv'
    <2>1. SUFFICES ASSUME snap.status = "sealed" PROVE SealedInv'
      BY <1>6 DEF SealedInv
    <2>2. /\ files["manifest"].stage = 3
          /\ \A i \in 1..4 : snap.seen[i] = files[SnapshotFiles[i]]
          /\ \A i \in 1..Len(snap.after) : snap.after[i] = snap.seen[i]
      BY <2>1 DEF SnapInv, SealedInv
    <2>3. ASSUME NEW i \in 1..k PROVE after[i] = snap.seen[i]
      <3>1. CASE i = k
        BY <1>1, <1>2, <1>4, <2>2, <3>1
      <3>2. CASE i # k
        <4>1. i \in 1..Len(snap.after)
          BY <1>1, <2>3, <3>2
        <4>2. QED
          BY <1>4, <2>2, <3>2, <4>1
      <3>3. QED
        BY <3>1, <3>2
    <2>4. QED
      BY <1>4, <1>6, <1>7, <2>2, <2>3 DEF SealedInv
  <1>15. QED
    BY <1>9, <1>10, <1>13, <1>14 DEF SnapInv

LEMMA MonitorStepKeeps ==
  ASSUME DirectoryInv, SnapInv, MonitorStep
  PROVE  SnapInv'
  <1>0. TypeOK /\ SnapTyped /\ snap \in Snapshots /\ AllFour \in Seq(FileRecords)
    BY TheFour DEF DirectoryInv, WholeInv, Inv, SnapInv, SnapTyped
  <1>1. CASE StartSnapshot
    BY <1>1, StartStep
  <1>2. CASE SignBefore
    BY <1>0, <1>2, SignBeforeStep
  <1>3. CASE SignAfter
    BY <1>0, <1>3, SignAfterStep
  <1>4. CASE ReturnRow
    <2>1. snap' = Idle /\ files' = files /\ proc' = proc
      BY <1>4 DEF ReturnRow, vars
    <2>2. /\ snap'.at = "idle" /\ snap'.before = <<>> /\ snap'.after = <<>> /\ Len(<<>>) = 0
          /\ snap'.status = "unsealed" /\ snap'.manifest = "none"
      BY <2>1 DEF Idle
    <2>3. <<>> \in Seq(FileRecords)
      OBVIOUS
    <2>4. SnapTyped'
      <3>1. snap' \in Snapshots
        BY <2>1, <2>3 DEF Idle, Snapshots
      <3>2. QED
        BY <2>2, <3>1 DEF SnapTyped
    <2>5. SignedInv' /\ SeenInv' /\ SignedAgainInv' /\ SealedInv' /\ TextInv'
      BY <2>2 DEF SignedInv, SeenInv, SignedAgainInv, SealedInv, TextInv
    <2>6. QED
      BY <2>4, <2>5 DEF SnapInv
  <1>5. CASE ReadManifest
    <2>1. snap.at = "manifest" /\ UNCHANGED vars /\ files' = files /\ proc' = proc
      BY <1>5 DEF ReadManifest, vars
    <2>2. CASE ~Present("manifest")
      <3>1. snap' = [snap EXCEPT !.at = "prefix"]
        BY <1>5, <2>2 DEF ReadManifest
      <3>2. /\ snap' \in Snapshots /\ snap'.at = "prefix" /\ snap'.manifest = snap.manifest
            /\ snap'.before = snap.before /\ snap'.after = snap.after /\ snap'.status = snap.status
        BY <1>0, <3>1 DEF Snapshots
      <3>3. SnapTyped'
        BY <1>0, <2>1, <3>2 DEF SnapTyped
      <3>4. files["manifest"].stage = -1
        BY <2>2 DEF Present, Absent
      <3>5. snap.manifest # "final" /\ snap.manifest # "running"
        BY <2>2, <3>4 DEF SnapInv, TextInv, Present
      <3>6. snap.manifest \in {"none", "running", "final"}
        BY <1>0 DEF Snapshots
      <3>7. TextInv'
        BY <2>1, <3>2, <3>5, <3>6 DEF TextInv
      <3>8. SignedInv' /\ SeenInv' /\ SignedAgainInv' /\ SealedInv'
        BY <1>0, <2>1, <3>2
        DEF SnapInv, SnapTyped, SignedInv, SeenInv, SignedAgainInv, SealedInv,
            LedgerSince, ManifestSince, Outlived, Spent, Present
      <3>9. QED
        BY <3>3, <3>7, <3>8 DEF SnapInv
    <2>3. CASE Present("manifest") /\ Torn(files["manifest"])
      <3>1. snap' = Broken
        BY <1>5, <2>3 DEF ReadManifest
      <3>2. /\ snap' \in Snapshots /\ snap'.at = "checking" /\ snap'.seen = AllFour
            /\ snap'.before = snap.before /\ snap'.after = snap.after
            /\ snap'.manifest = snap.manifest /\ snap'.status = "broken"
        BY <1>0, <3>1 DEF Broken, Snapshots
      <3>3. snap.manifest # "final"
        BY <2>3 DEF SnapInv, TextInv, Torn
      <3>4. QED
        BY <1>0, <2>1, <2>3, <3>2, <3>3, ReadingStep
    <2>4. CASE Present("manifest") /\ ~Torn(files["manifest"])
      <3>1. PICK text \in {"running", "final"}, place \in {"prefix", "run"} :
              /\ snap' = [snap EXCEPT !.manifest = text, !.at = place]
              /\ text = "running" <=> files["manifest"].stage = 1
              /\ text = "running" <=> place = "prefix"
        BY <1>5, <2>4 DEF ReadManifest
      <3>2. /\ snap' \in Snapshots /\ snap'.at = place /\ snap'.manifest = text
            /\ snap'.before = snap.before /\ snap'.after = snap.after /\ snap'.status = snap.status
        BY <1>0, <3>1 DEF Snapshots
      <3>3. files["manifest"].stage \in 1..3 /\ (files["manifest"].stage # 1 => files["manifest"].stage = 3)
        <4>1. files["manifest"].stage \in 0..3
          BY <2>4 DEF DirectoryInv, StageInv
        <4>2. files["manifest"].stage \notin {0, 2}
          BY <2>4 DEF Torn
        <4>3. QED
          BY <4>1, <4>2
      <3>4. SnapTyped'
        BY <1>0, <2>1, <3>2 DEF SnapTyped
      <3>5. Len(snap.before) = 4
        BY <1>0, <2>1 DEF SnapTyped
      <3>6. ManifestSince(snap.before[2])
        BY <3>5 DEF SnapInv, SignedInv
      <3>7. TextInv'
        <4>1. text = "running" /\ snap.before[2] # Absent => snap.before[2].stage <= 1
          BY <3>1, <3>6 DEF ManifestSince, Grew
        <4>2. QED
          BY <2>1, <2>4, <3>1, <3>2, <3>3, <3>5, <4>1 DEF TextInv, Present
      <3>8. SignedInv' /\ SeenInv' /\ SignedAgainInv' /\ SealedInv'
        BY <2>1, <3>1, <3>2
        DEF SnapInv, SnapTyped, SignedInv, SeenInv, SignedAgainInv, SealedInv,
            LedgerSince, ManifestSince, Outlived, Spent, Present
      <3>9. QED
        BY <3>4, <3>7, <3>8 DEF SnapInv
    <2>5. QED
      BY <2>2, <2>3, <2>4
  <1>6. CASE LoadRun
    <2>1. snap.at = "run" /\ UNCHANGED vars /\ files["manifest"].stage = 3 /\ snap.manifest = "final"
      BY <1>6 DEF LoadRun, SnapInv, TextInv
    <2>2. snap' = [snap EXCEPT !.seen = AllFour, !.status = "sealed", !.count = 2,
                               !.integrity = "sealed_validated", !.at = "checking"]
      BY <1>6, <2>1, FinalRunsLoad DEF LoadRun
    <2>3. /\ snap' \in Snapshots /\ snap'.at = "checking" /\ snap'.seen = AllFour
          /\ snap'.before = snap.before /\ snap'.after = snap.after
          /\ snap'.manifest = snap.manifest /\ snap'.status = "sealed"
      BY <1>0, <2>2 DEF Snapshots
    <2>4. QED
      BY <1>0, <2>1, <2>3, ReadingStep
  <1>7. CASE ReadPrefix
    <2>1. snap.at = "prefix" /\ UNCHANGED vars
      BY <1>7 DEF ReadPrefix
    <2>2. PICK records \in Nat, integrity \in {"prefix_hashes_only", snap.integrity} :
            snap' = [snap EXCEPT !.seen = AllFour, !.count = records, !.integrity = integrity,
                                 !.at = "checking"]
      BY <1>0, <1>7 DEF ReadPrefix, Records, Snapshots
    <2>3. /\ snap' \in Snapshots /\ snap'.at = "checking" /\ snap'.seen = AllFour
          /\ snap'.before = snap.before /\ snap'.after = snap.after
          /\ snap'.manifest = snap.manifest /\ snap'.status = snap.status
      BY <1>0, <2>2 DEF Snapshots
    <2>4. snap.status = "unsealed" /\ snap.manifest # "final"
      BY <1>0, <2>1 DEF SnapTyped, SnapInv, TextInv
    <2>5. QED
      BY <1>0, <2>1, <2>3, <2>4, ReadingStep
  <1>8. QED
    BY <1>1, <1>2, <1>3, <1>4, <1>5, <1>6, <1>7 DEF MonitorStep

\* A snapshot that certifies or condemns describes one instant, however many
\* launches write, fail and claim anew between its reads, and however inode numbers
\* come back (monitor.py 86-128): SnapshotsAreConsistent.
THEOREM SnapshotsAlwaysConsistent ==
  ASSUME ~OperatorCleans PROVE MonitorSpec => []SnapshotsAreConsistent
  <1>1. MonitorInit => DirectoryInv /\ SnapInv
    <2>1. SUFFICES ASSUME MonitorInit PROVE DirectoryInv /\ SnapInv
      OBVIOUS
    <2>2. snap = Idle /\ Init
      BY <2>1 DEF MonitorInit
    <2>3. <<>> \in Seq(FileRecords) /\ Len(<<>>) = 0
      OBVIOUS
    <2>4. SnapTyped
      BY <2>2, <2>3 DEF SnapTyped, Snapshots, Idle
    <2>5. SignedInv /\ SeenInv /\ SignedAgainInv /\ SealedInv /\ TextInv
      BY <2>2, <2>3 DEF Idle, SignedInv, SeenInv, SignedAgainInv, SealedInv, TextInv
    <2>6. QED
      BY <2>2, <2>4, <2>5, DirectoryInit DEF SnapInv
  <1>2. DirectoryInv /\ SnapInv /\ [MonitorNext]_monitorVars => (DirectoryInv /\ SnapInv)'
    <2>1. SUFFICES ASSUME DirectoryInv, SnapInv, [MonitorNext]_monitorVars
                   PROVE  DirectoryInv' /\ SnapInv'
      OBVIOUS
    <2>2. [Next]_vars
      BY <2>1 DEF MonitorNext, MonitorStep, monitorVars, StartSnapshot, SignBefore, ReadManifest,
        LoadRun, ReadPrefix, SignAfter, ReturnRow
    <2>3. DirectoryInv'
      BY <2>1, <2>2, DirectoryStep
    <2>4. SnapInv'
      BY <2>1, <2>2, SnapStays, MonitorStepKeeps DEF MonitorNext, monitorVars
    <2>5. QED
      BY <2>3, <2>4
  <1>3. DirectoryInv /\ SnapInv => SnapshotsAreConsistent
    <2>1. SUFFICES ASSUME DirectoryInv, SnapInv, Collected
                   PROVE  SnapshotsAreConsistent
      BY DEF SnapshotsAreConsistent
    <2>2. /\ snap.at = "checking" /\ Len(snap.after) = 4 /\ SnapTyped /\ snap \in Snapshots
          /\ Len(snap.before) = 4 /\ Len(snap.seen) = 4
          /\ Row.status = "broken" => snap.status = "broken"
          /\ Row.status = "sealed" => snap.status = "sealed"
          /\ Row.integrity # "not_checked" => snap.before = snap.after
      BY <2>1 DEF Collected, SnapInv, SnapTyped, Row
    <2>3. Row.status = "broken" => Torn(snap.seen[2])
      BY <2>1, <2>2 DEF SnapInv, TextInv
    <2>4. ASSUME snap.before = snap.after
          PROVE  /\ snap.before[1] # Absent => snap.seen[1] = snap.before[1]
                 /\ snap.seen[2] = snap.before[2]
                 /\ snap.status = "sealed" => \A i \in 1..4 : snap.seen[i] = snap.before[i]
      BY <2>1, <2>2, <2>4 DEF SnapInv, SignedAgainInv, SealedInv
    <2>5. ASSUME snap.before = snap.after
          PROVE  \A i \in RestsOn : snap.seen[i] = snap.before[i]
      BY <2>2, <2>4, <2>5 DEF RestsOn
    <2>6. ASSUME snap.before = snap.after, snap.manifest = "running"
          PROVE  snap.seen[2].stage = 1
      <3>1. snap.seen[2] # Absent /\ snap.seen[2].stage >= 1 /\ snap.seen[2] = snap.before[2]
        BY <2>1, <2>2, <2>4, <2>6 DEF SnapInv, TextInv
      <3>2. snap.seen[2].stage <= 1
        BY <2>1, <2>6, <3>1 DEF SnapInv, TextInv
      <3>3. snap.seen[2].stage \in Int
        <4>1. snap.seen \in Seq(FileRecords)
          BY <2>2 DEF Snapshots
        <4>2. snap.seen[2] \in FileRecords
          BY <2>2, <4>1
        <4>3. QED
          BY <4>2 DEF FileRecords
      <3>4. QED
        BY <3>1, <3>2, <3>3
    <2>7. ASSUME snap.manifest = "final"
          PROVE  snap.seen[2].stage = 3
      BY <2>1, <2>2, <2>7, TheFour
      DEF SnapInv, TextInv, SealedInv, DirectoryInv, WholeInv, Inv
    <2>8. QED
      BY <2>2, <2>3, <2>5, <2>6, <2>7 DEF SnapshotsAreConsistent
  <1>4. QED
    BY <1>1, <1>2, <1>3, PTL DEF MonitorSpec
=============================================================================
