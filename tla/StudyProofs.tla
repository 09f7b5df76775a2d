----------------------------- MODULE StudyProofs -----------------------------
(***************************************************************************)
(* What a study fixes: its lock, and who shares a stream of randomness.    *)
(*                                                                         *)
(* Freezing is a write-once register for any number of freezes, runs and   *)
(* versions, whoever is killed and whatever is edited in between.          *)
(*                                                                         *)
(* The invariant adds what a step carries over from an earlier one: a      *)
(* freeze about to publish has flushed its text (FlushInv) and remembers a *)
(* version, as does a run that has loaded the study (LoadedInv).           *)
(***************************************************************************)
EXTENDS StudyFreeze, SeedPaths, SequenceTheorems, TLAPS

FlushInv == \A f \in Freezers : freezer[f].at = "linking" => freezer[f].flushed

LoadedInv ==
  /\ \A f \in Freezers :
       freezer[f].at \in {"making", "writing", "linking", "comparing"} =>
         freezer[f].hash \in Versions
  /\ \A r \in Runners : runner[r].at = "checking" => runner[r].hash \in Versions

\* Whoever compares has found a lock, and a lock stays.
ComparingInv == \A f \in Freezers : freezer[f].at = "comparing" => lock # None

TemporaryInv ==
  \A f \in Freezers :
    freezer[f].at \in {"start", "making"} => ~freezer[f].temporary

Inv ==
  /\ TypeOK /\ FlushInv /\ LoadedInv /\ ComparingInv /\ TemporaryInv
  /\ LockIsWhole /\ FreezesAgree /\ FrozenRunsAreOfTheLock /\ NoTemporaryIsLeft

LEMMA InitInv == Init => Inv
  <1> SUFFICES ASSUME Init PROVE Inv
    OBVIOUS
  <1>1. TypeOK
    BY DEF Init, TypeOK, FreezeStates, RunnerStates
  <1>2. FlushInv /\ LoadedInv /\ ComparingInv /\ TemporaryInv /\ NoTemporaryIsLeft
    BY DEF Init, FlushInv, LoadedInv, ComparingInv, TemporaryInv, NoTemporaryIsLeft
  <1>3. LockIsWhole /\ FreezesAgree /\ FrozenRunsAreOfTheLock
    BY VersionAssumption
    DEF Init, LockIsWhole, FreezesAgree, FrozenRunsAreOfTheLock
  <1>4. QED
    BY <1>1, <1>2, <1>3 DEF Inv

\* A freeze that only moves on, and reports no success.
LEMMA FreezeMoves ==
  ASSUME Inv, NEW f \in Freezers, UNCHANGED <<study, lock, runner, runs>>,
         freezer' \in [Freezers -> FreezeStates],
         \A g \in Freezers : g # f => freezer'[g] = freezer[g],
         freezer'[f].outcome \in Versions =>
           freezer'[f].outcome = freezer[f].outcome \/
           (lock # None /\ lock.of = freezer'[f].outcome),
         freezer'[f].at = "linking" => freezer'[f].flushed,
         freezer'[f].at \in {"making", "writing", "linking", "comparing"} =>
           freezer'[f].hash \in Versions,
         freezer'[f].at = "comparing" => lock # None,
         freezer'[f].at \in {"start", "making", "stopped"} => ~freezer'[f].temporary
  PROVE  Inv'
  <1> USE DEF Inv
  <1>1. TypeOK' /\ LockIsWhole' /\ FrozenRunsAreOfTheLock'
    BY DEF TypeOK, LockIsWhole, FrozenRunsAreOfTheLock
  <1>2. FlushInv' /\ LoadedInv' /\ ComparingInv' /\ TemporaryInv' /\ NoTemporaryIsLeft'
    BY DEF FlushInv, LoadedInv, ComparingInv, TemporaryInv, NoTemporaryIsLeft
  <1>3. FreezesAgree'
    BY DEF FreezesAgree
  <1>4. QED
    BY <1>1, <1>2, <1>3

LEMMA FreezeStep ==
  ASSUME Inv, NEW f \in Freezers, Freeze(f)
  PROVE  Inv' /\ (lock # None => lock' = lock)
  <1> USE DEF Inv
  <1>1. freezer[f] \in FreezeStates /\ study \in Versions
    BY DEF TypeOK
  <1>2. CASE Publish(f)
    <2>1. /\ lock = None /\ lock' = [of |-> freezer[f].hash, whole |-> TRUE]
          /\ freezer[f].hash \in Versions
          /\ UNCHANGED <<study, runner, runs>>
          /\ freezer' = [freezer EXCEPT ![f].at = "unlinking", ![f].outcome = freezer[f].hash]
      BY <1>1, <1>2 DEF Publish, FlushInv, LoadedInv, FreezeStates
    <2>2. lock' \in Locks /\ lock' # None
      <3>1. lock' \in Locks
        BY <2>1 DEF Locks
      <3>2. QED
        BY <3>1, VersionAssumption
    <2>3. TypeOK'
      BY <1>1, <2>1, <2>2 DEF TypeOK, FreezeStates
    <2>4. LockIsWhole' /\ FlushInv' /\ LoadedInv' /\ TemporaryInv' /\ NoTemporaryIsLeft'
          /\ ComparingInv'
      BY <2>1, <2>2 DEF LockIsWhole, FlushInv, LoadedInv, ComparingInv, TemporaryInv, NoTemporaryIsLeft, TypeOK,
                  FreezeStates
    <2>5. FreezesAgree'
      BY <2>1, <2>2 DEF FreezesAgree, TypeOK, FreezeStates
    <2>6. FrozenRunsAreOfTheLock'
      BY <2>1, <2>2 DEF FrozenRunsAreOfTheLock
    <2>7. QED
      BY <2>1, <2>3, <2>4, <2>5, <2>6
  <1>3. CASE Compare(f)
    <2>1. PICK outcome \in {freezer[f].hash, "raised"} :
            /\ freezer' = [freezer EXCEPT ![f].at = "unlinking", ![f].outcome = outcome]
            /\ outcome # "raised" => lock.of = outcome
            /\ freezer[f].at = "comparing" /\ UNCHANGED <<study, lock, runner, runs>>
      BY <1>3 DEF Compare
    <2>2. freezer[f].hash \in Versions
      BY <2>1 DEF LoadedInv
    <2>3. outcome \in Versions => lock # None /\ lock.of = outcome
      BY <2>1, VersionAssumption DEF ComparingInv
    <2>4. [freezer[f] EXCEPT !.at = "unlinking", !.outcome = outcome] \in FreezeStates
      BY <1>1, <2>1, <2>2 DEF FreezeStates
    <2>5. /\ freezer' \in [Freezers -> FreezeStates]
          /\ freezer'[f] = [freezer[f] EXCEPT !.at = "unlinking", !.outcome = outcome]
          /\ \A g \in Freezers : g # f => freezer'[g] = freezer[g]
      BY <2>1, <2>4 DEF TypeOK
    <2>6. QED
      BY <1>1, <2>1, <2>3, <2>5, <2>4, FreezeMoves DEF FreezeStates
  <1>4. CASE LoadAndHash(f)
    <2>1. PICK next : next = [freezer[f] EXCEPT !.at = "making", !.hash = study]
      OBVIOUS
    <2>2. /\ next \in FreezeStates
          /\ next.outcome \in Versions => next.outcome = freezer[f].outcome
          /\ next.at = "linking" => next.flushed
          /\ next.at \in {"making", "writing", "linking", "comparing"} => next.hash \in Versions
          /\ next.at = "comparing" => lock # None
          /\ next.at \in {"start", "making", "stopped"} => ~next.temporary
      BY <1>1, <1>4, <2>1, VersionAssumption
      DEF LoadAndHash, FreezeStates, FreezesAgree, FlushInv, LoadedInv, ComparingInv, TemporaryInv
    <2>3. /\ freezer' \in [Freezers -> FreezeStates] /\ freezer'[f] = next
          /\ \A g \in Freezers : g # f => freezer'[g] = freezer[g]
          /\ UNCHANGED <<study, lock, runner, runs>>
      BY <1>4, <2>1, <2>2 DEF LoadAndHash, TypeOK
    <2>4. Inv'
      BY <1>1, <2>2, <2>3, FreezeMoves DEF FreezesAgree
    <2>5. QED
      BY <2>3, <2>4
  <1>5. CASE MakeTemporary(f)
    <2>1. PICK next : next = [freezer[f] EXCEPT !.at = "writing", !.temporary = TRUE]
      OBVIOUS
    <2>2. /\ next \in FreezeStates
          /\ next.outcome \in Versions => next.outcome = freezer[f].outcome
          /\ next.at = "linking" => next.flushed
          /\ next.at \in {"making", "writing", "linking", "comparing"} => next.hash \in Versions
          /\ next.at = "comparing" => lock # None
          /\ next.at \in {"start", "making", "stopped"} => ~next.temporary
      BY <1>1, <1>5, <2>1, VersionAssumption
      DEF MakeTemporary, FreezeStates, FreezesAgree, FlushInv, LoadedInv, ComparingInv, TemporaryInv
    <2>3. /\ freezer' \in [Freezers -> FreezeStates] /\ freezer'[f] = next
          /\ \A g \in Freezers : g # f => freezer'[g] = freezer[g]
          /\ UNCHANGED <<study, lock, runner, runs>>
      BY <1>5, <2>1, <2>2 DEF MakeTemporary, TypeOK
    <2>4. Inv'
      BY <1>1, <2>2, <2>3, FreezeMoves DEF FreezesAgree
    <2>5. QED
      BY <2>3, <2>4
  <1>6. CASE WriteAndFlush(f)
    <2>1. PICK next : next = [freezer[f] EXCEPT !.at = "linking", !.flushed = TRUE]
      OBVIOUS
    <2>2. /\ next \in FreezeStates
          /\ next.outcome \in Versions => next.outcome = freezer[f].outcome
          /\ next.at = "linking" => next.flushed
          /\ next.at \in {"making", "writing", "linking", "comparing"} => next.hash \in Versions
          /\ next.at = "comparing" => lock # None
          /\ next.at \in {"start", "making", "stopped"} => ~next.temporary
      BY <1>1, <1>6, <2>1, VersionAssumption
      DEF WriteAndFlush, FreezeStates, FreezesAgree, FlushInv, LoadedInv, ComparingInv, TemporaryInv
    <2>3. /\ freezer' \in [Freezers -> FreezeStates] /\ freezer'[f] = next
          /\ \A g \in Freezers : g # f => freezer'[g] = freezer[g]
          /\ UNCHANGED <<study, lock, runner, runs>>
      BY <1>6, <2>1, <2>2 DEF WriteAndFlush, TypeOK
    <2>4. Inv'
      BY <1>1, <2>2, <2>3, FreezeMoves DEF FreezesAgree
    <2>5. QED
      BY <2>3, <2>4
  <1>7. CASE FindLock(f)
    <2>1. PICK next : next = [freezer[f] EXCEPT !.at = "comparing"]
      OBVIOUS
    <2>2. /\ next \in FreezeStates
          /\ next.outcome \in Versions => next.outcome = freezer[f].outcome
          /\ next.at = "linking" => next.flushed
          /\ next.at \in {"making", "writing", "linking", "comparing"} => next.hash \in Versions
          /\ next.at = "comparing" => lock # None
          /\ next.at \in {"start", "making", "stopped"} => ~next.temporary
      BY <1>1, <1>7, <2>1, VersionAssumption
      DEF FindLock, FreezeStates, FreezesAgree, FlushInv, LoadedInv, ComparingInv, TemporaryInv
    <2>3. /\ freezer' \in [Freezers -> FreezeStates] /\ freezer'[f] = next
          /\ \A g \in Freezers : g # f => freezer'[g] = freezer[g]
          /\ UNCHANGED <<study, lock, runner, runs>>
      BY <1>7, <2>1, <2>2 DEF FindLock, TypeOK
    <2>4. Inv'
      BY <1>1, <2>2, <2>3, FreezeMoves DEF FreezesAgree
    <2>5. QED
      BY <2>3, <2>4
  <1>8. CASE Raise(f)
    <2>1. PICK next : next = [freezer[f] EXCEPT !.outcome = "raised", !.at = IF freezer[f].temporary THEN "unlinking" ELSE "stopped"]
      OBVIOUS
    <2>2. /\ next \in FreezeStates
          /\ next.outcome \in Versions => next.outcome = freezer[f].outcome
          /\ next.at = "linking" => next.flushed
          /\ next.at \in {"making", "writing", "linking", "comparing"} => next.hash \in Versions
          /\ next.at = "comparing" => lock # None
          /\ next.at \in {"start", "making", "stopped"} => ~next.temporary
      BY <1>1, <1>8, <2>1, VersionAssumption
      DEF Raise, FreezeStates, FreezesAgree, FlushInv, LoadedInv, ComparingInv, TemporaryInv
    <2>3. /\ freezer' \in [Freezers -> FreezeStates] /\ freezer'[f] = next
          /\ \A g \in Freezers : g # f => freezer'[g] = freezer[g]
          /\ UNCHANGED <<study, lock, runner, runs>>
      BY <1>8, <2>1, <2>2 DEF Raise, TypeOK
    <2>4. Inv'
      BY <1>1, <2>2, <2>3, FreezeMoves DEF FreezesAgree
    <2>5. QED
      BY <2>3, <2>4
  <1>9. CASE Unlink(f)
    <2>1. PICK next : next = [freezer[f] EXCEPT !.at = "stopped", !.temporary = FALSE]
      OBVIOUS
    <2>2. /\ next \in FreezeStates
          /\ next.outcome \in Versions => next.outcome = freezer[f].outcome
          /\ next.at = "linking" => next.flushed
          /\ next.at \in {"making", "writing", "linking", "comparing"} => next.hash \in Versions
          /\ next.at = "comparing" => lock # None
          /\ next.at \in {"start", "making", "stopped"} => ~next.temporary
      BY <1>1, <1>9, <2>1, VersionAssumption
      DEF Unlink, FreezeStates, FreezesAgree, FlushInv, LoadedInv, ComparingInv, TemporaryInv
    <2>3. /\ freezer' \in [Freezers -> FreezeStates] /\ freezer'[f] = next
          /\ \A g \in Freezers : g # f => freezer'[g] = freezer[g]
          /\ UNCHANGED <<study, lock, runner, runs>>
      BY <1>9, <2>1, <2>2 DEF Unlink, TypeOK
    <2>4. Inv'
      BY <1>1, <2>2, <2>3, FreezeMoves DEF FreezesAgree
    <2>5. QED
      BY <2>3, <2>4
  <1>10. CASE Kill(f)
    <2>1. PICK next : next = [freezer[f] EXCEPT !.at = "killed"]
      OBVIOUS
    <2>2. /\ next \in FreezeStates
          /\ next.outcome \in Versions => next.outcome = freezer[f].outcome
          /\ next.at = "linking" => next.flushed
          /\ next.at \in {"making", "writing", "linking", "comparing"} => next.hash \in Versions
          /\ next.at = "comparing" => lock # None
          /\ next.at \in {"start", "making", "stopped"} => ~next.temporary
      BY <1>1, <1>10, <2>1, VersionAssumption
      DEF Kill, FreezeStates, FreezesAgree, FlushInv, LoadedInv, ComparingInv, TemporaryInv
    <2>3. /\ freezer' \in [Freezers -> FreezeStates] /\ freezer'[f] = next
          /\ \A g \in Freezers : g # f => freezer'[g] = freezer[g]
          /\ UNCHANGED <<study, lock, runner, runs>>
      BY <1>10, <2>1, <2>2 DEF Kill, TypeOK
    <2>4. Inv'
      BY <1>1, <2>2, <2>3, FreezeMoves DEF FreezesAgree
    <2>5. QED
      BY <2>3, <2>4
  <1>11. QED
    BY <1>2, <1>3, <1>4, <1>5, <1>6, <1>7, <1>8, <1>9, <1>10 DEF Freeze

\* A run takes the frozen label only from a lock of the version it loaded.
LEMMA RunnerStep ==
  ASSUME Inv, NEW r \in Runners, LoadStudy(r) \/ CheckLock(r)
  PROVE  Inv' /\ lock' = lock
  <1> USE DEF Inv
  <1>1. UNCHANGED <<study, lock, freezer>>
    BY DEF LoadStudy, CheckLock
  <1>2. runner' \in [Runners -> RunnerStates]
    BY DEF LoadStudy, CheckLock, TypeOK, RunnerStates
  <1>3. \A s \in Runners : runner'[s].at = "checking" => runner'[s].hash \in Versions
    BY DEF LoadStudy, CheckLock, TypeOK, RunnerStates, LoadedInv
  <1>4. PICK run \in [hash : Versions \cup {None}, frozen : BOOLEAN] :
          /\ runs' = runs \/ (runs' = runs \cup {run} /\ run.hash \in Versions)
          /\ runs' # runs /\ run.frozen => lock # None /\ lock.of = run.hash
    <2>1. CASE LoadStudy(r)
      <3>1. [hash |-> None, frozen |-> FALSE] \in [hash : Versions \cup {None}, frozen : BOOLEAN]
        OBVIOUS
      <3>2. QED
        BY <2>1, <3>1 DEF LoadStudy
    <2>2. CASE CheckLock(r)
      <3> DEFINE label == [hash |-> runner[r].hash, frozen |-> lock # None]
      <3>1. runner[r].hash \in Versions
        BY <2>2 DEF CheckLock, LoadedInv
      <3>2. label \in [hash : Versions \cup {None}, frozen : BOOLEAN]
            /\ label.hash = runner[r].hash /\ (label.frozen <=> lock # None)
        BY <3>1
      <3>3. \/ runs' = runs
            \/ runs' = runs \cup {label} /\ (lock # None => lock.of = runner[r].hash)
        BY <2>2 DEF CheckLock
      <3> HIDE DEF label
      <3>4. QED
        BY <3>1, <3>2, <3>3
    <2>3. QED
      BY <2>1, <2>2
  <1>5. runs' \subseteq [hash : Versions, frozen : BOOLEAN]
    <2>1. run.hash \in Versions => run \in [hash : Versions, frozen : BOOLEAN]
      OBVIOUS
    <2>2. QED
      BY <1>4, <2>1 DEF TypeOK
  <1>6. FrozenRunsAreOfTheLock'
    BY <1>1, <1>4 DEF FrozenRunsAreOfTheLock
  <1>7. TypeOK'
    BY <1>1, <1>2, <1>5 DEF TypeOK
  <1>8. LoadedInv'
    BY <1>1, <1>3 DEF LoadedInv
  <1>9. /\ FlushInv' /\ ComparingInv' /\ TemporaryInv'
        /\ LockIsWhole' /\ FreezesAgree' /\ NoTemporaryIsLeft'
    BY <1>1 DEF FlushInv, ComparingInv, TemporaryInv, LockIsWhole, FreezesAgree, NoTemporaryIsLeft
  <1>10. QED
    BY <1>1, <1>6, <1>7, <1>8, <1>9

LEMMA NextStep == Inv /\ [Next]_vars => Inv' /\ (lock # None => lock' = lock)
  <1> SUFFICES ASSUME Inv, [Next]_vars PROVE Inv' /\ (lock # None => lock' = lock)
    OBVIOUS
  <1>1. CASE \E f \in Freezers : Freeze(f)
    BY <1>1, FreezeStep
  <1>2. CASE \E r \in Runners : LoadStudy(r) \/ CheckLock(r)
    BY <1>2, RunnerStep
  <1>3. CASE (\E v \in Versions : Edit(v)) \/ UNCHANGED vars
    <2>1. study' \in Versions /\ UNCHANGED <<lock, freezer, runner, runs>>
      BY <1>3 DEF Edit, vars, Inv, TypeOK
    <2>2. QED
      BY <2>1 DEF Inv, TypeOK, FlushInv, LoadedInv, ComparingInv, TemporaryInv, LockIsWhole,
                  FreezesAgree, FrozenRunsAreOfTheLock, NoTemporaryIsLeft
  <1>4. QED
    BY <1>1, <1>2, <1>3 DEF Next

THEOREM InvAlways == Spec => []Inv
  <1>1. QED
    BY InitInv, NextStep, PTL DEF Spec

\* Once published the lock is never replaced or withdrawn (study.py 219-228).
THEOREM LockNeverChanges == Spec => LockIsImmutable
  <1>1. Inv /\ [Next]_vars => [lock # None => lock' = lock]_vars
    BY NextStep
  <1>2. QED
    BY <1>1, InvAlways, PTL DEF Spec, LockIsImmutable

\* No reader ever sees a partly written lock, although freezes are killed while
\* they write (study.py 214-220).
THEOREM LockIsAlwaysWhole == Spec => []LockIsWhole
  BY InvAlways, PTL DEF Inv

\* All successful freezes name one version (study.py 205-236).
THEOREM FreezesAlwaysAgree == Spec => []FreezesAgree
  BY InvAlways, PTL DEF Inv

\* A manifest that says frozen names the hash in the lock, for any number of
\* runs and edits (study.py 441-449, 506).
THEOREM FrozenLabelIsTrue == Spec => []FrozenRunsAreOfTheLock
  BY InvAlways, PTL DEF Inv

-----------------------------------------------------------------------------
(* Seed paths *)

(* Paths with roots of one length agree exactly where their roots and      *)
(* their suffixes do: the runner never builds one path out of two          *)
(* different pairs.                                                        *)
LEMMA RootsAndSuffixes ==
  ASSUME NEW S, NEW s \in Seq(S), NEW t \in Seq(S), NEW u \in Seq(S), NEW v \in Seq(S),
         Len(s) = Len(u), s \o t = u \o v
  PROVE  s = u /\ t = v
<1> DEFINE x == s \o t
           y == u \o v
<1>1. /\ Len(x) = Len(s) + Len(t)
      /\ \A i \in 1 .. Len(s) + Len(t) : x[i] = IF i <= Len(s) THEN s[i] ELSE t[i - Len(s)]
  BY ConcatProperties
<1>2. /\ Len(y) = Len(u) + Len(v)
      /\ \A i \in 1 .. Len(u) + Len(v) : y[i] = IF i <= Len(u) THEN u[i] ELSE v[i - Len(u)]
  BY ConcatProperties
<1>3. x = y
  OBVIOUS
<1>4. Len(s) \in Nat /\ Len(t) \in Nat /\ Len(u) \in Nat /\ Len(v) \in Nat
  OBVIOUS
<1> HIDE DEF x, y
<1>5. Len(t) = Len(v)
  BY <1>1, <1>2, <1>3, <1>4
<1>6. ASSUME NEW i \in 1 .. Len(s) PROVE s[i] = u[i]
  BY <1>1, <1>2, <1>3, <1>4, <1>5
<1>7. ASSUME NEW i \in 1 .. Len(t) PROVE t[i] = v[i]
  <2>1. Len(s) + i \in 1 .. Len(s) + Len(t) /\ ~(Len(s) + i <= Len(s))
        /\ (Len(s) + i) - Len(s) = i
    BY <1>4
  <2> QED BY <2>1, <1>1, <1>2, <1>3, <1>5
<1>8. s = u
  BY <1>6, SeqEqual
<1>9. t = v
  BY <1>5, <1>7, SeqEqual
<1> QED BY <1>8, <1>9

(* Two policies draw from one stream exactly when they are the same agent  *)
(* in the same round and replicate, of the same condition, or, under the   *)
(* paired protocol, of conditions in the same block: that is the pairing   *)
(* of ADR-0008, and there is no other sharing (seeds.py:108-133,           *)
(* runner.py:222-223).                                                     *)
THEOREM PoliciesShareByBlockOnly ==
  ASSUME NEW p \in Protocols, NEW c, NEW d, NEW r, NEW q, NEW a, NEW b, NEW t, NEW u
  PROVE  PolicyPath(p, c, r, a, t) = PolicyPath(p, d, q, b, u)
           <=> /\ r = q /\ a = b /\ t = u
               /\ IF p = Legacy THEN c = d ELSE BlockOf[c] = BlockOf[d]
<1> DEFINE S == {StudySeed, p, c, d, r, q, a, b, t, u, BlockOf[c], BlockOf[d],
                 "agent", "round", "block", "replicate"}
           R == PolicyRoot(p, c, r)
           Q == PolicyRoot(p, d, q)
           v == <<"agent", a, "round", t>>
           w == <<"agent", b, "round", u>>
<1>1. v \in Seq(S) /\ w \in Seq(S)
  OBVIOUS
<1>2. R \in Seq(S) /\ Q \in Seq(S) /\ Len(R) = Len(Q)
  <2>1. CASE p = Legacy
    BY <2>1 DEF PolicyRoot, MechanismRoot
  <2>2. CASE p # Legacy
    BY <2>2 DEF PolicyRoot, MechanismRoot
  <2> QED BY <2>1, <2>2
<1>3. R = Q <=> r = q /\ (IF p = Legacy THEN c = d ELSE BlockOf[c] = BlockOf[d])
  <2>1. CASE p = Legacy
    BY <2>1 DEF PolicyRoot, MechanismRoot
  <2>2. CASE p # Legacy
    BY <2>2 DEF PolicyRoot, MechanismRoot
  <2> QED BY <2>1, <2>2
<1>4. v = w <=> a = b /\ t = u
  OBVIOUS
<1>5. PolicyPath(p, c, r, a, t) = R \o v /\ PolicyPath(p, d, q, b, u) = Q \o w
  BY DEF PolicyPath
<1> HIDE DEF S, R, Q, v, w
<1>6. R \o v = Q \o w <=> R = Q /\ v = w
  BY <1>1, <1>2, RootsAndSuffixes
<1> QED BY <1>3, <1>4, <1>5, <1>6

(* A mechanism never draws from the stream of a policy, whatever their     *)
(* conditions, replicates and rounds, and the draws of a round's opening   *)
(* never come from the stream that resolves a round: with the same root,   *)
(* the suffixes keep them apart (runner.py:200, 223, 275).                 *)
THEOREM MechanismsDrawApart ==
  ASSUME NEW p \in Protocols, NEW c, NEW d, NEW r, NEW q, NEW a, NEW t, NEW u,
         NEW K, NEW key \in Seq(K)
  PROVE  /\ ResolvePath(p, c, r, t) # PolicyPath(p, d, q, a, u)
         /\ OpeningPath(p, c, r, key) # PolicyPath(p, d, q, a, u)
         /\ OpeningPath(p, c, r, key) # ResolvePath(p, d, q, u)
<1> DEFINE S == {StudySeed, p, c, d, r, q, a, t, u, BlockOf[d], "agent", "round", "block",
                 "replicate", "condition", "mechanism", "round-opening"} \cup K
           M == MechanismRoot(p, c, r)
           N == MechanismRoot(p, d, q)
           P == PolicyRoot(p, d, q)
           resolve == <<"mechanism", "round", t>>
           resolveOther == <<"mechanism", "round", u>>
           opens == <<"mechanism", "round-opening">>
           opening == opens \o key
           ask == <<"agent", a, "round", u>>
<1>1. /\ M \in Seq(S) /\ N \in Seq(S) /\ P \in Seq(S)
      /\ Len(M) = Len(P) /\ Len(M) = Len(N)
  <2>1. CASE p = Legacy
    BY <2>1 DEF MechanismRoot, PolicyRoot
  <2>2. CASE p # Legacy
    BY <2>2 DEF MechanismRoot, PolicyRoot
  <2> QED BY <2>1, <2>2
<1>2. /\ resolve \in Seq(S) /\ resolveOther \in Seq(S) /\ ask \in Seq(S)
      /\ opens \in Seq(S) /\ key \in Seq(S)
  OBVIOUS
<1>3. resolve # ask /\ opens[1] = "mechanism" /\ opens[2] = "round-opening" /\ Len(opens) = 2
      /\ resolveOther[2] = "round" /\ ask[1] = "agent"
  OBVIOUS
<1>4. /\ ResolvePath(p, c, r, t) = M \o resolve /\ PolicyPath(p, d, q, a, u) = P \o ask
      /\ OpeningPath(p, c, r, key) = M \o opening /\ ResolvePath(p, d, q, u) = N \o resolveOther
  BY DEF ResolvePath, PolicyPath, OpeningPath
<1> HIDE DEF S, M, N, P, resolve, resolveOther, opens, ask
<1>5. opening \in Seq(S) /\ opening[1] = opens[1] /\ opening[2] = opens[2]
  <2>1. opening \in Seq(S)
    BY <1>2, ConcatProperties
  <2>2. \A i \in 1 .. Len(opens) + Len(key) :
          opening[i] = IF i <= Len(opens) THEN opens[i] ELSE key[i - Len(opens)]
    BY <1>2, ConcatProperties
  <2>3. Len(key) \in Nat
    OBVIOUS
  <2> HIDE DEF opening
  <2> QED BY <1>3, <2>1, <2>2, <2>3
<1>6. opening # ask /\ opening # resolveOther
  BY <1>3, <1>5
<1> HIDE DEF opening
<1>7. M \o resolve # P \o ask
  BY <1>1, <1>2, <1>3, RootsAndSuffixes
<1>8. M \o opening # P \o ask
  BY <1>1, <1>2, <1>5, <1>6, RootsAndSuffixes
<1>9. M \o opening # N \o resolveOther
  BY <1>1, <1>2, <1>5, <1>6, RootsAndSuffixes
<1> QED BY <1>4, <1>7, <1>8, <1>9

(* Two mechanisms share a stream only where they are one run's in one      *)
(* round, or at one key of an opening: pairing the policies of a block     *)
(* leaves the mechanisms' draws independent in both protocols              *)
(* (seeds.py:108-133, runner.py:200, 275).                                 *)
THEOREM MechanismsShareNothing ==
  ASSUME NEW p \in Protocols, NEW c, NEW d, NEW r, NEW q, NEW t, NEW u,
         NEW K, NEW key \in Seq(K), NEW other \in Seq(K)
  PROVE  /\ ResolvePath(p, c, r, t) = ResolvePath(p, d, q, u) <=> c = d /\ r = q /\ t = u
         /\ OpeningPath(p, c, r, key) = OpeningPath(p, d, q, other)
              <=> c = d /\ r = q /\ key = other
<1> DEFINE S == {StudySeed, p, c, d, r, q, t, u, "round", "replicate", "condition",
                 "mechanism", "round-opening"} \cup K
           M == MechanismRoot(p, c, r)
           N == MechanismRoot(p, d, q)
           v == <<"mechanism", "round", t>>
           w == <<"mechanism", "round", u>>
           opens == <<"mechanism", "round-opening">>
<1>1. /\ v \in Seq(S) /\ w \in Seq(S) /\ opens \in Seq(S)
      /\ key \in Seq(S) /\ other \in Seq(S)
  OBVIOUS
<1>2. M \in Seq(S) /\ N \in Seq(S) /\ Len(M) = Len(N)
  <2>1. CASE p = Legacy
    BY <2>1 DEF MechanismRoot
  <2>2. CASE p # Legacy
    BY <2>2 DEF MechanismRoot
  <2> QED BY <2>1, <2>2
<1>3. M = N <=> c = d /\ r = q
  <2>1. CASE p = Legacy
    BY <2>1 DEF MechanismRoot
  <2>2. CASE p # Legacy
    BY <2>2 DEF MechanismRoot
  <2> QED BY <2>1, <2>2
<1>4. v = w <=> t = u
  OBVIOUS
<1>5. /\ ResolvePath(p, c, r, t) = M \o v /\ ResolvePath(p, d, q, u) = N \o w
      /\ OpeningPath(p, c, r, key) = M \o (opens \o key)
      /\ OpeningPath(p, d, q, other) = N \o (opens \o other)
  BY DEF ResolvePath, OpeningPath
<1> HIDE DEF S, M, N, v, w, opens
<1>6. M \o v = N \o w <=> M = N /\ v = w
  BY <1>1, <1>2, RootsAndSuffixes
<1>7. opens \o key = opens \o other <=> key = other
  BY <1>1, RootsAndSuffixes
<1>8. opens \o key \in Seq(S) /\ opens \o other \in Seq(S)
  BY <1>1, ConcatProperties
<1>9. M \o (opens \o key) = N \o (opens \o other) <=> M = N /\ opens \o key = opens \o other
  BY <1>2, <1>8, RootsAndSuffixes
<1> QED BY <1>3, <1>4, <1>5, <1>6, <1>7, <1>9
=============================================================================
