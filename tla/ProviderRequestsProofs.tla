------------------------ MODULE ProviderRequestsProofs ------------------------
(***************************************************************************)
(* The limits and the stops of a RequestBudget, for every roster, retry    *)
(* configuration, limit and number of episodes.                            *)
(*                                                                         *)
(* The wire counts are not inductive by themselves: a request that was     *)
(* admitted is still to be sent.  The argument goes through the budget's   *)
(* own counters, which admit raises only while Refusal(0) is None and      *)
(* which run ahead of the wire by exactly the request at pc = "send"       *)
(* (BudgetInv).  That a stop is told truly and at the run limit for good   *)
(* needs the stop reason while an episode is still being sealed (StopInv); *)
(* that a manifest counts truly needs the records and the wire at every    *)
(* moment before it is written (CountInv).  That an episode comes to its   *)
(* seal is shown by a count of the steps it has left (Remaining).          *)
(***************************************************************************)
EXTENDS ProviderRequests, FiniteSetTheorems, SequenceTheorems, TLAPS

(* The part of TypeOK that the counting argument needs *)
CountersOK ==
  /\ limits \in [episode : Nat \cup {None}, run : Nat \cup {None},
                 deadline : Nat \cup {None}]
  /\ budget \in [episode : Nat, run : Nat, scope : {"episode", "continuation"},
                 stop : Codes \cup {None}, before : Counters]
  /\ sent \in [total : Nat, episode : Nat, here : Nat, measured : Nat]

(* The counters never pass a limit *)
ChargesWithinLimits ==
  WithinLimit(budget.episode, limits.episode) /\ WithinLimit(budget.run, limits.run)

BudgetInv == CountersOK /\ EveryRequestIsCharged /\ ChargesWithinLimits

LEMMA InitialBudget == Init => BudgetInv
  BY LimitAssumption
  DEF Init, BudgetInv, CountersOK, EveryRequestIsCharged, ChargesWithinLimits,
      WithinLimit, NothingSent, Counters, Codes

LEMMA BegunTyped ==
  ASSUME CountersOK, NEW scope \in {"episode", "continuation"}
  PROVE  /\ Begun(scope) \in [episode : Nat, run : Nat,
                              scope : {"episode", "continuation"},
                              stop : Codes \cup {None}, before : Counters]
         /\ Begun(scope).run = budget.run
         /\ Begun(scope).episode = IF scope = "episode" THEN 0 ELSE budget.episode
<1>1. Admitted \in Counters
  BY DEF Admitted, CountersOK, Counters
<1>2. [Admitted EXCEPT !.episode = IF scope = "episode" THEN 0 ELSE @] \in Counters
  BY <1>1 DEF Counters
<1> QED
  BY <1>2 DEF Begun, CountersOK

(* The step admits a request only below both limits. *)
LEMMA BelowLimits ==
  ASSUME CountersOK, Refusal(0) = None
  PROVE  /\ limits.run # None => budget.run < limits.run
         /\ limits.episode # None => budget.episode < limits.episode
<1>1. ~ Reached(limits.run, budget.run) /\ ~ Reached(limits.episode, budget.episode)
  BY LimitAssumption DEF Refusal, Codes
<1>2. budget.run \in Nat /\ budget.episode \in Nat
  BY DEF CountersOK
<1>3. limits.run \in Nat \cup {None} /\ limits.episode \in Nat \cup {None}
  BY DEF CountersOK
<1> QED
  BY <1>1, <1>2, <1>3 DEF Reached

(* Sending: the request charged in advance is now on the wire, and its     *)
(* outcome never leads straight to another send.                           *)
LEMMA WireStep ==
  ASSUME BudgetInv, NEW measured, Wire(measured), pc = "send", pc' # "send",
         UNCHANGED <<limits, budget>>
  PROVE  BudgetInv'
<1>0. /\ sent \in [total : Nat, episode : Nat, here : Nat, measured : Nat]
      /\ sent.total + 1 \in Nat /\ sent.episode + 1 \in Nat /\ sent.here + 1 \in Nat
      /\ (IF measured = "measured" THEN sent.measured + 1 ELSE sent.measured) \in Nat
  BY DEF BudgetInv, CountersOK
<1>1. sent' \in [total : Nat, episode : Nat, here : Nat, measured : Nat]
  BY <1>0 DEF Wire
<1>2. sent'.episode = sent.episode + 1 /\ sent'.total = sent.total + 1
  BY DEF BudgetInv, CountersOK, Wire
<1>3. budget.episode = sent.episode + 1 /\ budget.run = sent.total + 1
  BY DEF BudgetInv, EveryRequestIsCharged
<1>4. CountersOK'
  BY <1>1 DEF BudgetInv, CountersOK
<1>5. EveryRequestIsCharged'
  BY <1>1, <1>2, <1>3 DEF EveryRequestIsCharged
<1>6. ChargesWithinLimits'
  BY DEF BudgetInv, ChargesWithinLimits, WithinLimit
<1> QED
  BY <1>4, <1>5, <1>6 DEF BudgetInv

(* Neither charging nor sending: the counts stand still. *)
LEMMA QuietStep ==
  ASSUME BudgetInv, UNCHANGED <<limits, sent>>, pc # "send", pc' # "send",
         budget' \in [episode : Nat, run : Nat, scope : {"episode", "continuation"},
                      stop : Codes \cup {None}, before : Counters],
         budget'.episode = budget.episode, budget'.run = budget.run
  PROVE  BudgetInv'
<1>1. CountersOK'
  BY DEF BudgetInv, CountersOK
<1>2. EveryRequestIsCharged'
  BY DEF BudgetInv, EveryRequestIsCharged
<1>3. ChargesWithinLimits'
  BY DEF BudgetInv, ChargesWithinLimits, WithinLimit
<1> QED
  BY <1>1, <1>2, <1>3 DEF BudgetInv

(* A refusal writes the stop reason only. *)
LEMMA StopStep ==
  ASSUME BudgetInv, UNCHANGED <<limits, sent>>, pc # "send",
         NEW code \in Codes \cup {None}, Stop(code)
  PROVE  BudgetInv'
<1>1. /\ budget' \in [episode : Nat, run : Nat, scope : {"episode", "continuation"},
                      stop : Codes \cup {None}, before : Counters]
      /\ budget'.episode = budget.episode /\ budget'.run = budget.run
  BY DEF Stop, BudgetInv, CountersOK
<1>2. pc' # "send"
  BY DEF Stop, EndEpisode
<1> QED
  BY <1>1, <1>2, QuietStep

LEMMA RefusalTyped == \A after : Refusal(after) \in Codes \cup {None}
  BY DEF Refusal, Codes

LEMMA AdmitStep ==
  ASSUME BudgetInv, Admit
  PROVE  BudgetInv'
<1>1. pc = "admit" /\ pc' = "send" /\ UNCHANGED <<limits, sent>>
  BY DEF Admit
<1>2. /\ budget' \in [episode : Nat, run : Nat, scope : {"episode", "continuation"},
                      stop : Codes \cup {None}, before : Counters]
      /\ budget'.episode = budget.episode + 1 /\ budget'.run = budget.run + 1
  <2>1. /\ budget \in [episode : Nat, run : Nat, scope : {"episode", "continuation"},
                       stop : Codes \cup {None}, before : Counters]
        /\ budget.episode + 1 \in Nat /\ budget.run + 1 \in Nat
    BY DEF BudgetInv, CountersOK
  <2> QED
    BY <2>1 DEF Admit
<1>3. CountersOK'
  BY <1>1, <1>2 DEF BudgetInv, CountersOK
<1>4. EveryRequestIsCharged'
  <2>1. budget.episode = sent.episode /\ budget.run = sent.total
    BY <1>1 DEF BudgetInv, EveryRequestIsCharged, CountersOK
  <2> QED
    BY <1>1, <1>2, <2>1 DEF EveryRequestIsCharged
<1>5. ChargesWithinLimits'
  <2>1. /\ limits.run # None => budget.run < limits.run
        /\ limits.episode # None => budget.episode < limits.episode
    BY BelowLimits DEF Admit, BudgetInv
  <2>2. budget.run \in Nat /\ budget.episode \in Nat
    BY DEF BudgetInv, CountersOK
  <2>3. limits.run \in Nat \cup {None} /\ limits.episode \in Nat \cup {None}
    BY DEF BudgetInv, CountersOK
  <2> QED
    BY <1>1, <1>2, <2>1, <2>2, <2>3 DEF ChargesWithinLimits, WithinLimit
<1> QED
  BY <1>3, <1>4, <1>5 DEF BudgetInv

LEMMA BeginStep ==
  ASSUME BudgetInv, Begin
  PROVE  BudgetInv'
<1>1. PICK scope \in {"episode", "continuation"}, fresh \in SUBSET Agents :
        BeginWith(scope, fresh)
  BY DEF Begin
<1>2. pc = "idle" /\ pc' = "admit" /\ UNCHANGED limits /\ budget' = Begun(scope)
  BY <1>1 DEF BeginWith
<1>3. /\ sent' \in [total : Nat, episode : Nat, here : Nat, measured : Nat]
      /\ sent'.total = sent.total
      /\ sent'.episode = IF scope = "episode" THEN 0 ELSE sent.episode
  BY <1>1 DEF BeginWith, BudgetInv, CountersOK
<1>4. CountersOK'
  BY <1>2, <1>3, BegunTyped DEF BudgetInv, CountersOK
<1>5. /\ budget'.run = budget.run
      /\ budget'.episode = IF scope = "episode" THEN 0 ELSE budget.episode
  BY <1>2, BegunTyped DEF BudgetInv
<1>6. EveryRequestIsCharged'
  <2>1. budget.episode = sent.episode /\ budget.run = sent.total
    BY <1>2 DEF BudgetInv, EveryRequestIsCharged, CountersOK
  <2> QED
    BY <1>2, <1>3, <1>5, <2>1 DEF EveryRequestIsCharged
<1>7. ChargesWithinLimits'
  <2>1. limits.episode \in Nat \cup {None}
    BY DEF BudgetInv, CountersOK
  <2> QED
    BY <1>2, <1>5, <2>1 DEF BudgetInv, ChargesWithinLimits, WithinLimit
<1> QED
  BY <1>4, <1>6, <1>7 DEF BudgetInv

LEMMA BudgetStep == BudgetInv /\ [Next]_vars => BudgetInv'
<1> SUFFICES ASSUME BudgetInv, [Next]_vars PROVE BudgetInv'
  OBVIOUS
<1>0. budget \in [episode : Nat, run : Nat, scope : {"episode", "continuation"},
                  stop : Codes \cup {None}, before : Counters]
  BY DEF BudgetInv, CountersOK
<1>1. CASE Begin
  BY <1>1, BeginStep
<1>2. CASE ConfigurationChanged
  BY <1>0, <1>2, QuietStep DEF ConfigurationChanged, EndEpisode
<1>3. CASE PromptRefused
  BY <1>0, <1>3, QuietStep DEF PromptRefused, EndEpisode
<1>4. CASE Recheck
  <2>1. CASE UNCHANGED budget /\ pc' = "sleep"
    BY <1>0, <1>4, <2>1, QuietStep DEF Recheck
  <2>2. CASE Stop(Refusal(RetryDelay))
    BY <1>4, <2>2, StopStep, RefusalTyped DEF Recheck
  <2> QED
    BY <1>4, <2>1, <2>2 DEF Recheck
<1>5. CASE Sleep
  BY <1>0, <1>5, QuietStep DEF Sleep
<1>6. CASE Refused
  BY <1>6, StopStep, RefusalTyped DEF Refused
<1>7. CASE Admit
  BY <1>7, AdmitStep
<1>8. CASE Respond
  <2>1. CASE RateLimited
    BY <2>1, WireStep DEF RateLimited
  <2>2. ASSUME NEW measured \in Usages, RequestFails(measured) PROVE BudgetInv'
    BY <2>2, WireStep DEF RequestFails, EndEpisode
  <2>3. NextTurn => pc' # "send"
    BY DEF NextTurn, EndEpisode
  <2>4. ASSUME NEW measured \in Usages, Completes(measured) PROVE BudgetInv'
    BY <2>3, <2>4, WireStep DEF Completes
  <2>5. ASSUME NEW measured \in Usages, NeedsRepair(measured) PROVE BudgetInv'
    BY <2>3, <2>5, WireStep DEF NeedsRepair
  <2> QED
    BY <1>8, <2>1, <2>2, <2>4, <2>5 DEF Respond
<1>9. CASE SealEpisode
  BY <1>0, <1>9, QuietStep DEF SealEpisode
<1>10. CASE Tick \/ Cancel \/ UNCHANGED vars
  <2>1. UNCHANGED <<limits, budget, pc, sent>>
    BY <1>10 DEF Tick, Cancel, vars
  <2> QED
    BY <2>1 DEF BudgetInv, CountersOK, EveryRequestIsCharged, ChargesWithinLimits, WithinLimit
<1> QED
  BY <1>1, <1>2, <1>3, <1>4, <1>5, <1>6, <1>7, <1>8, <1>9, <1>10 DEF Next, ProcessStep

LEMMA BudgetAlways == Spec => []BudgetInv
BY InitialBudget, BudgetStep, PTL DEF Spec

(* Every request on the wire was charged exactly once, in both counters,   *)
(* for every roster, retry configuration and sequence of scopes.           *)
THEOREM RequestsAreCharged == Spec => []EveryRequestIsCharged
<1>1. BudgetInv => EveryRequestIsCharged
  BY DEF BudgetInv
<1> QED
  BY <1>1, BudgetAlways, PTL

(* No schedule of retries, repairs, failures and continuations puts more   *)
(* requests on the wire than the limits of the budget.                     *)
THEOREM WireStaysWithinLimits == Spec => []WireWithinLimits
<1>1. BudgetInv => WireWithinLimits
  <2> SUFFICES ASSUME BudgetInv PROVE WireWithinLimits
    OBVIOUS
  <2>1. sent.episode <= budget.episode /\ sent.total <= budget.run
    BY DEF BudgetInv, EveryRequestIsCharged, CountersOK
  <2>2. budget.run \in Nat /\ budget.episode \in Nat /\ sent.episode \in Nat /\ sent.total \in Nat
    BY DEF BudgetInv, CountersOK
  <2>3. limits.run \in Nat \cup {None} /\ limits.episode \in Nat \cup {None}
    BY DEF BudgetInv, CountersOK
  <2> QED
    BY <2>1, <2>2, <2>3 DEF BudgetInv, ChargesWithinLimits, WireWithinLimits, WithinLimit
<1> QED
  BY <1>1, BudgetAlways, PTL

-----------------------------------------------------------------------------
(* Types.  The only part that is not a reading of one action is that what  *)
(* a manifest counts is finite.                                            *)

LEMMA RangeIsFinite ==
  ASSUME NEW n \in Nat, NEW f, f = [i \in 1 .. n |-> f[i]]
  PROVE  IsFiniteSet({f[i] : i \in 1 .. n})
<1> DEFINE R == {f[i] : i \in 1 .. n}
<1>1. f \in Surjection(1 .. n, R)
  <2>1. f \in [1 .. n -> R]
    OBVIOUS
  <2> QED
    BY <2>1 DEF Surjection
<1>2. IsFiniteSet(1 .. n)
  BY FS_Interval
<1> QED
  BY <1>1, <1>2, FS_Surjection

LEMMA AttemptsAreFinite ==
  ASSUME calls \in [Agents -> Seq(Seq(Attempt))]
  PROVE  IsFiniteSet(AllAttempts)
<1>1. NumAgents \in Nat /\ Agents = 1 .. NumAgents
  BY RosterAssumption DEF Agents
<1> DEFINE Of(i, k) == {<<i, k, n>> : n \in DOMAIN calls[i][k]}
           OfAgent(i) == UNION {Of(i, k) : k \in DOMAIN calls[i]}
<1>2. ASSUME NEW i \in Agents, NEW k \in DOMAIN calls[i] PROVE IsFiniteSet(Of(i, k))
  <2>1. calls[i] \in Seq(Seq(Attempt))
    OBVIOUS
  <2>2. calls[i][k] \in Seq(Attempt)
    BY <2>1, ElementOfSeq, LenProperties
  <2>3. Len(calls[i][k]) \in Nat /\ DOMAIN calls[i][k] = 1 .. Len(calls[i][k])
    BY <2>2, LenProperties
  <2> DEFINE f == [n \in 1 .. Len(calls[i][k]) |-> <<i, k, n>>]
  <2>4. f = [n \in 1 .. Len(calls[i][k]) |-> f[n]]
    OBVIOUS
  <2>5. IsFiniteSet({f[n] : n \in 1 .. Len(calls[i][k])})
    <3> HIDE DEF f
    <3> QED
      BY <2>3, <2>4, RangeIsFinite
  <2>6. {f[n] : n \in 1 .. Len(calls[i][k])} = Of(i, k)
    BY <2>3
  <2> QED
    BY <2>5, <2>6
<1>3. ASSUME NEW i \in Agents PROVE IsFiniteSet(OfAgent(i))
  <2>1. calls[i] \in Seq(Seq(Attempt))
    OBVIOUS
  <2>2. Len(calls[i]) \in Nat /\ DOMAIN calls[i] = 1 .. Len(calls[i])
    BY <2>1, LenProperties
  <2> DEFINE f == [k \in 1 .. Len(calls[i]) |-> Of(i, k)]
  <2>3. f = [k \in 1 .. Len(calls[i]) |-> f[k]]
    OBVIOUS
  <2>4. IsFiniteSet({f[k] : k \in 1 .. Len(calls[i])})
    <3> HIDE DEF f
    <3> QED
      BY <2>2, <2>3, RangeIsFinite
  <2>5. {f[k] : k \in 1 .. Len(calls[i])} = {Of(i, k) : k \in DOMAIN calls[i]}
    BY <2>2
  <2>6. \A T \in {Of(i, k) : k \in DOMAIN calls[i]} : IsFiniteSet(T)
    BY <1>2
  <2> QED
    BY <2>4, <2>5, <2>6, FS_UNION
<1> DEFINE g == [i \in 1 .. NumAgents |-> OfAgent(i)]
<1>4. g = [i \in 1 .. NumAgents |-> g[i]]
  OBVIOUS
<1>5. IsFiniteSet({g[i] : i \in 1 .. NumAgents})
  <2> HIDE DEF g
  <2> QED
    BY <1>1, <1>4, RangeIsFinite
<1>6. {g[i] : i \in 1 .. NumAgents} = {OfAgent(i) : i \in Agents}
  BY <1>1
<1>7. \A T \in {OfAgent(i) : i \in Agents} : IsFiniteSet(T)
  BY <1>3
<1>8. IsFiniteSet(UNION {OfAgent(i) : i \in Agents})
  BY <1>5, <1>6, <1>7, FS_UNION
<1> QED
  BY <1>8 DEF AllAttempts

LEMMA ManifestTyped ==
  ASSUME TypeOK, NEW status \in {"completed", "failed"}
  PROVE  Manifest(status, ended) \in ManifestRecords
<1>1. IsFiniteSet(AttemptsSince)
  BY AttemptsAreFinite, FS_Subset DEF TypeOK, AttemptsSince
<1>2. Cardinality(AttemptsSince) \in Nat
  BY <1>1, FS_CardinalityType
<1>3. Admitted \in Counters
  BY DEF TypeOK, Admitted, Counters
<1> QED
  BY <1>2, <1>3 DEF Manifest, ManifestRecords, TypeOK

LEMMA StartManifestTyped ==
  ASSUME TypeOK, NEW scope \in {"episode", "continuation"}
  PROVE  StartManifest(scope) \in ManifestRecords /\ Begun(scope).stop = None
<1>1. CountersOK
  BY LimitAssumption DEF TypeOK, CountersOK
<1>2. /\ Begun(scope) \in [episode : Nat, run : Nat, scope : {"episode", "continuation"},
                           stop : Codes \cup {None}, before : Counters]
  BY <1>1, BegunTyped
<1>3. [episode |-> Begun(scope).episode, run |-> Begun(scope).run] \in Counters
  BY <1>2 DEF Counters
<1> QED
  BY <1>2, <1>3 DEF StartManifest, ManifestRecords, Begun

LEMMA InitialTypes == Init => TypeOK
<1> SUFFICES ASSUME Init PROVE TypeOK
  OBVIOUS
<1>1. /\ NumAgents \in Nat \ {0} /\ Rounds \in Nat \ {0} /\ MaxNow \in Nat
      /\ MaxRetries \in Nat /\ RateLimitRetries \in Nat
  BY RosterAssumption, RetryAssumption, BoundAssumption
<1>2. << >> \in Seq(Attempt) /\ << >> \in Seq(ManifestRecords) /\ << >> \in Seq(Seq(Attempt))
  BY EmptySeq
<1>3. [i \in Agents |-> << >>] \in [Agents -> Seq(Seq(Attempt))]
  BY <1>2
<1>4. calls \in [Agents -> Seq(Seq(Attempt))] /\ offset \in [Agents -> Nat]
  BY <1>3 DEF Init
<1>5. /\ budget \in [episode : Nat, run : Nat, scope : {"episode", "continuation"},
                     stop : Codes \cup {None}, before : Counters]
      /\ sent \in [total : Nat, episode : Nat, here : Nat, measured : Nat]
  BY DEF Init, NothingSent, Counters
<1>6. /\ now \in 0 .. MaxNow /\ turn \in Agents /\ round \in 0 .. Rounds - 1
      /\ repair \in 0 .. MaxRetries /\ index \in 0 .. RateLimitRetries
  BY <1>1 DEF Init, Agents
<1>7. attempts \in Seq(Attempt) /\ manifests \in Seq(ManifestRecords)
  BY <1>2 DEF Init
<1> QED
  BY <1>4, <1>5, <1>6, <1>7 DEF Init, TypeOK

(* What the policies keep after one more completion *)
LEMMA RecordedTyped ==
  ASSUME TypeOK, NEW list \in Seq(Attempt), Recorded(list)
  PROVE  calls' \in [Agents -> Seq(Seq(Attempt))]
<1>1. calls[turn] \in Seq(Seq(Attempt)) /\ turn \in Agents
      /\ calls \in [Agents -> Seq(Seq(Attempt))]
  BY DEF TypeOK
<1>2. Append(calls[turn], list) \in Seq(Seq(Attempt))
  BY <1>1, AppendProperties
<1> QED
  BY <1>1, <1>2 DEF Recorded

LEMMA OneMoreAttempt ==
  ASSUME TypeOK, NEW measured \in Attempt
  PROVE  Append(attempts, measured) \in Seq(Attempt)
BY AppendProperties DEF TypeOK

LEMMA WireTyped ==
  ASSUME TypeOK, NEW measured, Wire(measured)
  PROVE  sent' \in [total : Nat, episode : Nat, here : Nat, measured : Nat]
<1>1. /\ sent \in [total : Nat, episode : Nat, here : Nat, measured : Nat]
      /\ sent.total + 1 \in Nat /\ sent.episode + 1 \in Nat /\ sent.here + 1 \in Nat
      /\ (IF measured = "measured" THEN sent.measured + 1 ELSE sent.measured) \in Nat
  BY DEF TypeOK
<1> QED
  BY <1>1 DEF Wire

LEMMA StopTyped ==
  ASSUME TypeOK, NEW code \in Codes \cup {None}, Stop(code)
  PROVE  /\ budget' \in [episode : Nat, run : Nat, scope : {"episode", "continuation"},
                         stop : Codes \cup {None}, before : Counters]
         /\ calls' \in [Agents -> Seq(Seq(Attempt))]
         /\ pc' = "seal" /\ ended' \in Endings
<1>1. code \in Codes
  BY DEF Stop
<1>2. calls' \in [Agents -> Seq(Seq(Attempt))]
  BY RecordedTyped DEF Stop, TypeOK
<1>3. budget \in [episode : Nat, run : Nat, scope : {"episode", "continuation"},
                  stop : Codes \cup {None}, before : Counters]
  BY DEF TypeOK
<1> QED
  BY <1>1, <1>2, <1>3 DEF Stop, EndEpisode, Endings

LEMMA NextTurnTyped ==
  ASSUME TypeOK, NextTurn
  PROVE  /\ turn' \in Agents /\ round' \in 0 .. Rounds - 1
         /\ pc' \in {"admit", "seal"} /\ ended' \in Endings \cup {None}
<1>1. NumAgents \in Nat \ {0} /\ Rounds \in Nat \ {0}
  BY RosterAssumption
<1>2. turn \in Agents /\ round \in 0 .. Rounds - 1 /\ ended \in Endings \cup {None}
  BY DEF TypeOK
<1> QED
  BY <1>1, <1>2 DEF NextTurn, EndEpisode, Agents, Endings

LEMMA BeginTyped ==
  ASSUME TypeOK, Begin
  PROVE  TypeOK'
<1>1. PICK scope \in {"episode", "continuation"}, fresh \in SUBSET Agents :
        BeginWith(scope, fresh)
  BY DEF Begin
<1>2. /\ NumAgents \in Nat \ {0} /\ Rounds \in Nat \ {0}
      /\ MaxRetries \in Nat /\ RateLimitRetries \in Nat
  BY RosterAssumption, RetryAssumption
<1>3. /\ << >> \in Seq(Attempt) /\ << >> \in Seq(Seq(Attempt))
  BY EmptySeq
<1>4. budget' \in [episode : Nat, run : Nat, scope : {"episode", "continuation"},
                   stop : Codes \cup {None}, before : Counters]
  <2>1. CountersOK
    BY LimitAssumption DEF TypeOK, CountersOK
  <2> QED
    BY <1>1, <2>1, BegunTyped DEF BeginWith
<1>5. calls' \in [Agents -> Seq(Seq(Attempt))]
  BY <1>1, <1>3 DEF BeginWith, TypeOK
<1>6. offset' \in [Agents -> Nat]
  <2>1. \A i \in Agents : Len(calls'[i]) \in Nat
    BY <1>5, LenProperties
  <2> QED
    BY <1>1, <2>1 DEF BeginWith
<1>7. manifests' \in Seq(ManifestRecords)
  <2>1. manifests \in Seq(ManifestRecords) /\ StartManifest(scope) \in ManifestRecords
    BY StartManifestTyped DEF TypeOK
  <2>2. Append(manifests, StartManifest(scope)) \in Seq(ManifestRecords)
    BY <2>1, AppendProperties
  <2> QED
    BY <1>1, <2>1, <2>2 DEF BeginWith
<1>8. sent' \in [total : Nat, episode : Nat, here : Nat, measured : Nat]
  BY <1>1 DEF BeginWith, TypeOK
<1>9. /\ turn' \in Agents /\ round' \in 0 .. Rounds - 1 /\ pc' = "admit" /\ ended' = None
      /\ repair' \in 0 .. MaxRetries /\ index' \in 0 .. RateLimitRetries
      /\ attempts' \in Seq(Attempt)
  BY <1>1, <1>2, <1>3 DEF BeginWith, Agents
<1>10. UNCHANGED <<limits, now, cancelled>>
  BY <1>1 DEF BeginWith
<1> QED
  BY <1>4, <1>5, <1>6, <1>7, <1>8, <1>9, <1>10 DEF TypeOK

LEMMA SealTyped ==
  ASSUME TypeOK, SealEpisode
  PROVE  TypeOK'
<1>1. manifests' \in Seq(ManifestRecords)
  <2> DEFINE record == Manifest(Status, ended)
  <2>1. manifests \in Seq(ManifestRecords) /\ record \in ManifestRecords
    BY ManifestTyped DEF TypeOK, Status
  <2>2. Append(manifests, record) \in Seq(ManifestRecords)
    BY <2>1, AppendProperties
  <2>3. [manifests EXCEPT ![Len(manifests)] = record] \in Seq(ManifestRecords)
    <3>1. CASE manifests = << >>
      <4>1. DOMAIN manifests = {}
        BY <3>1
      <4>2. [manifests EXCEPT ![Len(manifests)] = record] = manifests
        BY <2>1, <4>1, LenProperties
      <4> QED
        BY <2>1, <4>2
    <3>2. CASE manifests # << >>
      <4>1. Len(manifests) \in Nat \ {0}
        BY <2>1, <3>2, EmptySeq
      <4>2. Len(manifests) \in 1 .. Len(manifests)
        BY <4>1
      <4> HIDE DEF record
      <4> QED
        BY <2>1, <4>2, ExceptSeq
    <3> QED
      BY <3>1, <3>2
  <2> QED
    BY <2>2, <2>3 DEF SealEpisode
<1>2. /\ pc' = "idle"
      /\ UNCHANGED <<limits, budget, now, cancelled, callVars, calls, offset, ended, sent>>
  BY DEF SealEpisode
<1> QED
  BY <1>1, <1>2 DEF TypeOK, callVars

(* What a response leaves behind; the rest it does not touch. *)
LEMMA RespondTyped ==
  ASSUME TypeOK, Respond
  PROVE  TypeOK'
<1>1. /\ MaxRetries \in Nat /\ RateLimitRetries \in Nat /\ Usages \subseteq Attempt
      /\ "unmeasured" \in Attempt /\ << >> \in Seq(Attempt)
      /\ index \in 0 .. RateLimitRetries /\ repair \in 0 .. MaxRetries
  BY RetryAssumption, UsageAssumption, EmptySeq DEF Attempt, TypeOK
<1>2. CASE RateLimited
  <2>1. sent' \in [total : Nat, episode : Nat, here : Nat, measured : Nat]
    BY <1>2, WireTyped DEF RateLimited
  <2>2. attempts' \in Seq(Attempt)
    BY <1>1, <1>2, OneMoreAttempt DEF RateLimited
  <2>3. index' \in 0 .. RateLimitRetries
    BY <1>1, <1>2 DEF RateLimited
  <2>4. /\ pc' = "recheck"
        /\ UNCHANGED <<limits, budget, now, cancelled, turn, round, repair, calls, offset,
                       ended, manifests>>
    BY <1>2 DEF RateLimited
  <2> QED
    BY <2>1, <2>2, <2>3, <2>4 DEF TypeOK
<1>3. ASSUME NEW measured \in Usages, RequestFails(measured) PROVE TypeOK'
  <2>1. sent' \in [total : Nat, episode : Nat, here : Nat, measured : Nat]
    BY <1>3, WireTyped DEF RequestFails
  <2>2. calls' \in [Agents -> Seq(Seq(Attempt))]
    BY <1>1, <1>3, OneMoreAttempt, RecordedTyped DEF RequestFails
  <2>3. /\ pc' = "seal" /\ ended' = "provider_error"
        /\ UNCHANGED <<limits, budget, now, cancelled, callVars, offset, manifests>>
    BY <1>3 DEF RequestFails, EndEpisode
  <2> QED
    BY <2>1, <2>2, <2>3 DEF TypeOK, callVars, Endings
<1>4. ASSUME NEW measured \in Usages, Completes(measured) PROVE TypeOK'
  <2>1. sent' \in [total : Nat, episode : Nat, here : Nat, measured : Nat]
    BY <1>4, WireTyped DEF Completes
  <2>2. calls' \in [Agents -> Seq(Seq(Attempt))]
    BY <1>1, <1>4, OneMoreAttempt, RecordedTyped DEF Completes
  <2>3. /\ turn' \in Agents /\ round' \in 0 .. Rounds - 1
        /\ pc' \in {"admit", "seal"} /\ ended' \in Endings \cup {None}
    BY <1>4, NextTurnTyped DEF Completes
  <2>4. repair' \in 0 .. MaxRetries /\ index' \in 0 .. RateLimitRetries /\ attempts' \in Seq(Attempt)
    BY <1>1, <1>4 DEF Completes
  <2>5. UNCHANGED <<limits, budget, now, cancelled, offset, manifests>>
    BY <1>4 DEF Completes
  <2> QED
    BY <2>1, <2>2, <2>3, <2>4, <2>5 DEF TypeOK
<1>5. ASSUME NEW measured \in Usages, NeedsRepair(measured) PROVE TypeOK'
  <2>1. sent' \in [total : Nat, episode : Nat, here : Nat, measured : Nat]
    BY <1>5, WireTyped DEF NeedsRepair
  <2>2. calls' \in [Agents -> Seq(Seq(Attempt))]
    BY <1>1, <1>5, OneMoreAttempt, RecordedTyped DEF NeedsRepair
  <2>3. /\ turn' \in Agents /\ round' \in 0 .. Rounds - 1 /\ repair' \in 0 .. MaxRetries
        /\ pc' \in {"admit", "seal"} /\ ended' \in Endings \cup {None}
    BY <1>1, <1>5, NextTurnTyped DEF NeedsRepair, TypeOK
  <2>4. index' \in 0 .. RateLimitRetries /\ attempts' \in Seq(Attempt)
    BY <1>1, <1>5 DEF NeedsRepair
  <2>5. UNCHANGED <<limits, budget, now, cancelled, offset, manifests>>
    BY <1>5 DEF NeedsRepair
  <2> QED
    BY <2>1, <2>2, <2>3, <2>4, <2>5 DEF TypeOK
<1> QED
  BY <1>2, <1>3, <1>4, <1>5 DEF Respond

LEMMA TypeStep == TypeOK /\ [Next]_vars => TypeOK'
<1> SUFFICES ASSUME TypeOK, [Next]_vars PROVE TypeOK'
  OBVIOUS
<1>0. MaxNow \in Nat /\ RetryDelay \in Nat /\ now \in 0 .. MaxNow
  BY BoundAssumption, RetryAssumption DEF TypeOK
<1>1. CASE Begin
  BY <1>1, BeginTyped
<1>2. CASE ConfigurationChanged
  BY <1>2 DEF ConfigurationChanged, EndEpisode, callVars, TypeOK, Endings
<1>3. CASE PromptRefused
  <2>1. calls' \in [Agents -> Seq(Seq(Attempt))]
    BY <1>3, RecordedTyped, EmptySeq DEF PromptRefused
  <2> QED
    BY <1>3, <2>1 DEF PromptRefused, EndEpisode, callVars, TypeOK, Endings
<1>4. CASE Recheck
  <2>1. UNCHANGED <<limits, now, cancelled, callVars, offset, manifests, sent>>
    BY <1>4 DEF Recheck
  <2>2. CASE pc' = "sleep" /\ UNCHANGED <<budget, calls, ended>>
    BY <2>1, <2>2 DEF TypeOK, callVars
  <2>3. CASE Stop(Refusal(RetryDelay))
    BY <2>1, <2>3, StopTyped, RefusalTyped DEF TypeOK, callVars
  <2> QED
    BY <1>4, <2>2, <2>3 DEF Recheck
<1>5. CASE Sleep
  <2>1. now' \in 0 .. MaxNow
    BY <1>0, <1>5 DEF Sleep
  <2> QED
    BY <1>5, <2>1 DEF Sleep, callVars, TypeOK
<1>6. CASE Refused
  BY <1>6, StopTyped, RefusalTyped DEF Refused, TypeOK, callVars
<1>7. CASE Admit
  <2>1. /\ budget \in [episode : Nat, run : Nat, scope : {"episode", "continuation"},
                       stop : Codes \cup {None}, before : Counters]
        /\ budget.episode + 1 \in Nat /\ budget.run + 1 \in Nat
    BY DEF TypeOK
  <2>2. budget' \in [episode : Nat, run : Nat, scope : {"episode", "continuation"},
                     stop : Codes \cup {None}, before : Counters]
    BY <1>7, <2>1 DEF Admit
  <2> QED
    BY <1>7, <2>2 DEF Admit, callVars, TypeOK
<1>8. CASE Respond
  BY <1>8, RespondTyped
<1>9. CASE SealEpisode
  BY <1>9, SealTyped
<1>10. CASE Tick
  <2>1. now' \in 0 .. MaxNow
    BY <1>0, <1>10 DEF Tick
  <2> QED
    BY <1>10, <2>1 DEF Tick, callVars, TypeOK
<1>11. CASE Cancel
  BY <1>11 DEF Cancel, callVars, TypeOK
<1>12. CASE UNCHANGED vars
  BY <1>12 DEF vars, callVars, TypeOK
<1> QED
  BY <1>1, <1>2, <1>3, <1>4, <1>5, <1>6, <1>7, <1>8, <1>9, <1>10, <1>11, <1>12
  DEF Next, ProcessStep

(* No schedule drives the attempt indices out of the configured retries,   *)
(* so complete never leaves its loop without an answer                     *)
(* (openai_compatible.py:156), and every manifest counts finitely much.    *)
THEOREM TypeCorrect == Spec => []TypeOK
BY InitialTypes, TypeStep, PTL DEF Spec

-----------------------------------------------------------------------------
(* Stops *)

RunLimit == "request_attempt_limit_run"

(* A stop at the run limit exhausts the budget: what it had admitted then  *)
(* is what it has admitted now, and what every later manifest says.        *)
Exhausted(j) ==
  /\ Reached(limits.run, budget.run)
  /\ \A k \in DOMAIN manifests : j <= k => manifests[k].admitted.run = budget.run

StopInv ==
  /\ TypeOK
  /\ pc \in {"admit", "recheck", "sleep", "send"} => budget.stop = None
  /\ pc = "seal" => budget.stop = IF ended \in Codes THEN ended ELSE None
  /\ StopReasonMatchesSeal
  /\ budget.stop = RunLimit => Reached(limits.run, budget.run)
  /\ \A j \in DOMAIN manifests : manifests[j].stop_reason = RunLimit => Exhausted(j)

LEMMA RefusalAtRunLimit ==
  ASSUME NEW after, Refusal(after) = RunLimit
  PROVE  Reached(limits.run, budget.run)
BY LimitAssumption DEF Refusal, RunLimit, Codes

(* A step that leaves the manifests and what is admitted alone *)
LEMMA SameManifests ==
  ASSUME StopInv, TypeOK', UNCHANGED <<limits, manifests>>, budget'.run = budget.run,
         pc' \in {"admit", "recheck", "sleep", "send"} => budget'.stop = None,
         pc' = "seal" => budget'.stop = IF ended' \in Codes THEN ended' ELSE None,
         budget'.stop = RunLimit => Reached(limits.run, budget.run)
  PROVE  StopInv'
<1>1. \A j \in DOMAIN manifests' : manifests'[j].stop_reason = RunLimit => Exhausted(j)'
  BY DEF StopInv, Exhausted, Reached
<1> QED
  BY <1>1 DEF StopInv, StopReasonMatchesSeal, Reached

LEMMA StopKeeps ==
  ASSUME StopInv, TypeOK', NEW after, Stop(Refusal(after)), UNCHANGED <<limits, manifests>>
  PROVE  StopInv'
<1>1. /\ Refusal(after) \in Codes
      /\ budget'.stop = Refusal(after) /\ budget'.run = budget.run
      /\ pc' = "seal" /\ ended' = Refusal(after)
  BY RefusalTyped DEF Stop, EndEpisode, StopInv, TypeOK
<1>2. budget'.stop = RunLimit => Reached(limits.run, budget.run)
  BY <1>1, RefusalAtRunLimit
<1> QED
  BY <1>1, <1>2, SameManifests

LEMMA BeginKeepsStops ==
  ASSUME StopInv, TypeOK', Begin
  PROVE  StopInv'
<1>1. PICK scope \in {"episode", "continuation"}, fresh \in SUBSET Agents :
        BeginWith(scope, fresh)
  BY DEF Begin
<1>2. /\ budget' = Begun(scope) /\ budget'.stop = None /\ budget'.run = budget.run
      /\ pc' = "admit" /\ UNCHANGED limits
  BY <1>1 DEF BeginWith, Begun
<1>3. RunLimit # None /\ None \notin Codes
  BY LimitAssumption DEF RunLimit, Codes
<1>4. CASE scope = "continuation"
  <2>1. UNCHANGED manifests
    BY <1>1, <1>4 DEF BeginWith
  <2> QED
    BY <1>2, <1>3, <2>1, SameManifests
<1>5. CASE scope = "episode"
  <2> DEFINE record == StartManifest(scope)
  <2>1. /\ record.stop_reason = None /\ record.reason = None
        /\ record.admitted.run = budget.run
    BY DEF StartManifest, Begun
  <2>2. manifests \in Seq(ManifestRecords) /\ record \in ManifestRecords
    BY StartManifestTyped DEF StopInv, TypeOK
  <2>3. manifests' = Append(manifests, record)
    BY <1>1, <1>5 DEF BeginWith
  <2> HIDE DEF record
  <2>4. /\ Len(manifests) \in Nat /\ DOMAIN manifests = 1 .. Len(manifests)
        /\ DOMAIN manifests' = 1 .. Len(manifests) + 1
        /\ \A k \in 1 .. Len(manifests) : manifests'[k] = manifests[k]
        /\ manifests'[Len(manifests) + 1] = record
    BY <2>2, <2>3, AppendProperties, LenProperties
  <2>5. StopReasonMatchesSeal'
    BY <1>3, <2>1, <2>4 DEF StopInv, StopReasonMatchesSeal
  <2>6. ASSUME NEW j \in DOMAIN manifests', manifests'[j].stop_reason = RunLimit
        PROVE  Exhausted(j)'
    <3>1. j \in DOMAIN manifests /\ manifests[j].stop_reason = RunLimit
      BY <1>3, <2>1, <2>4, <2>6
    <3>2. Exhausted(j)
      BY <3>1 DEF StopInv
    <3> QED
      BY <1>2, <2>1, <2>4, <3>2 DEF Exhausted
  <2> QED
    BY <1>2, <1>3, <2>5, <2>6 DEF StopInv
<1> QED
  BY <1>4, <1>5

LEMMA SealKeepsStops ==
  ASSUME StopInv, TypeOK', SealEpisode
  PROVE  StopInv'
<1> DEFINE record == Manifest(Status, ended)
<1>1. /\ pc = "seal" /\ pc' = "idle" /\ UNCHANGED <<limits, budget, ended>>
  BY DEF SealEpisode
<1>2. /\ record.stop_reason = budget.stop /\ record.reason = ended
      /\ record.admitted.run = budget.run
      /\ record.stop_reason = IF ended \in Codes THEN ended ELSE None
  BY <1>1 DEF Manifest, Admitted, StopInv
<1>3. manifests \in Seq(ManifestRecords) /\ record \in ManifestRecords
  BY ManifestTyped DEF StopInv, TypeOK, Status
<1>4. Len(manifests) \in Nat /\ DOMAIN manifests = 1 .. Len(manifests)
  BY <1>3, LenProperties
<1>5. PICK last \in Nat :
        /\ \A k \in DOMAIN manifests' : k <= last
        /\ \A k \in DOMAIN manifests' \ {last} :
             k \in DOMAIN manifests /\ manifests'[k] = manifests[k]
        /\ last \in DOMAIN manifests' => manifests'[last] = record
  <2> HIDE DEF record
  <2>1. CASE manifests' = Append(manifests, record)
    <3>1. /\ DOMAIN manifests' = 1 .. Len(manifests) + 1
          /\ \A k \in 1 .. Len(manifests) : manifests'[k] = manifests[k]
          /\ manifests'[Len(manifests) + 1] = record
      BY <1>3, <2>1, AppendProperties, LenProperties
    <3>2. Len(manifests) + 1 \in Nat
      BY <1>4
    <3> QED
      BY <1>4, <3>1, <3>2
  <2>2. CASE manifests' = [manifests EXCEPT ![Len(manifests)] = record]
    <3>1. DOMAIN manifests' = DOMAIN manifests
          /\ \A k \in DOMAIN manifests :
               manifests'[k] = IF k = Len(manifests) THEN record ELSE manifests[k]
      BY <1>3, <1>4, <2>2, LenProperties
    <3> QED
      BY <1>4, <3>1
  <2> QED
    BY <2>1, <2>2 DEF SealEpisode, record
<1>6. StopReasonMatchesSeal'
  BY <1>2, <1>5 DEF StopInv, StopReasonMatchesSeal
<1>7. ASSUME NEW j \in DOMAIN manifests', manifests'[j].stop_reason = RunLimit
      PROVE  Exhausted(j)'
  <2>1. Reached(limits.run, budget.run)
    BY <1>2, <1>5, <1>7 DEF StopInv, Exhausted
  <2>2. ASSUME NEW k \in DOMAIN manifests', j <= k
        PROVE  manifests'[k].admitted.run = budget.run
    <3>1. CASE k = last
      BY <1>2, <1>5, <3>1
    <3>2. CASE k # last
      <4>1. k \in DOMAIN manifests /\ manifests'[k] = manifests[k]
        BY <1>5, <3>2
      <4>2. j # last
        BY <1>4, <1>5, <2>2, <3>2, <4>1
      <4>3. j \in DOMAIN manifests /\ manifests[j].stop_reason = RunLimit
        BY <1>5, <1>7, <4>2
      <4>4. Exhausted(j)
        BY <4>3 DEF StopInv
      <4> QED
        BY <2>2, <4>1, <4>4 DEF Exhausted
    <3> QED
      BY <3>1, <3>2
  <2> QED
    BY <1>1, <2>1, <2>2 DEF Exhausted
<1> QED
  BY <1>1, <1>6, <1>7 DEF StopInv

LEMMA AdmitKeepsStops ==
  ASSUME StopInv, TypeOK', Admit
  PROVE  StopInv'
<1>1. /\ pc = "admit" /\ pc' = "send" /\ UNCHANGED <<limits, manifests>>
      /\ budget'.stop = budget.stop /\ budget.stop = None
  BY DEF Admit, StopInv, TypeOK
<1>2. ~ Reached(limits.run, budget.run)
  BY LimitAssumption DEF Admit, Refusal, Codes
<1>3. \A j \in DOMAIN manifests : manifests[j].stop_reason # RunLimit
  BY <1>2 DEF StopInv, Exhausted
<1>4. RunLimit # None
  BY LimitAssumption DEF RunLimit, Codes
<1> QED
  BY <1>1, <1>3, <1>4 DEF StopInv, StopReasonMatchesSeal

LEMMA StopStays == StopInv /\ [Next]_vars => StopInv'
<1> SUFFICES ASSUME StopInv, [Next]_vars PROVE StopInv'
  OBVIOUS
<1>0. TypeOK' /\ None \notin Codes /\ RunLimit # None
  BY TypeStep, LimitAssumption DEF StopInv, RunLimit, Codes
<1>1. CASE Begin
  BY <1>0, <1>1, BeginKeepsStops
<1>2. CASE ConfigurationChanged
  BY <1>0, <1>2, SameManifests DEF ConfigurationChanged, EndEpisode, StopInv, Codes
<1>3. CASE PromptRefused
  BY <1>0, <1>3, SameManifests DEF PromptRefused, EndEpisode, StopInv, Codes
<1>4. CASE Recheck
  <2>1. CASE Stop(Refusal(RetryDelay))
    BY <1>0, <1>4, <2>1, StopKeeps DEF Recheck
  <2>2. CASE pc' = "sleep" /\ UNCHANGED budget
    BY <1>0, <1>4, <2>2, SameManifests DEF Recheck, StopInv
  <2> QED
    BY <1>4, <2>1, <2>2 DEF Recheck
<1>5. CASE Sleep
  BY <1>0, <1>5, SameManifests DEF Sleep, StopInv
<1>6. CASE Refused
  BY <1>0, <1>6, StopKeeps DEF Refused
<1>7. CASE Admit
  BY <1>0, <1>7, AdmitKeepsStops
<1>8. CASE Respond
  <2>1. /\ pc = "send" /\ budget.stop = None /\ UNCHANGED <<limits, budget, manifests>>
        /\ pc' \in {"admit", "recheck", "seal"} /\ (pc' = "seal" => ended' \notin Codes)
    <3>1. NextTurn => pc' \in {"admit", "seal"} /\ (pc' = "seal" => ended' \notin Codes)
      BY DEF NextTurn, EndEpisode, Codes
    <3>2. CASE RateLimited
      BY <3>2 DEF RateLimited, StopInv
    <3>3. ASSUME NEW measured \in Usages, RequestFails(measured)
          PROVE  /\ pc = "send" /\ UNCHANGED <<limits, budget, manifests>>
                 /\ pc' = "seal" /\ ended' \notin Codes
      BY <3>3 DEF RequestFails, EndEpisode, Codes
    <3>4. ASSUME NEW measured \in Usages, Completes(measured) \/ NeedsRepair(measured)
          PROVE  /\ pc = "send" /\ UNCHANGED <<limits, budget, manifests>>
                 /\ pc' \in {"admit", "seal"} /\ (pc' = "seal" => ended' \notin Codes)
      BY <3>1, <3>4 DEF Completes, NeedsRepair
    <3> QED
      BY <1>8, <3>2, <3>3, <3>4 DEF Respond, StopInv
  <2> QED
    BY <1>0, <2>1, SameManifests
<1>9. CASE SealEpisode
  BY <1>0, <1>9, SealKeepsStops
<1>10. CASE Tick \/ Cancel \/ UNCHANGED vars
  <2>1. UNCHANGED <<limits, budget, pc, ended, manifests>>
    BY <1>10 DEF Tick, Cancel, vars
  <2> QED
    BY <1>0, <2>1, SameManifests DEF StopInv
<1> QED
  BY <1>1, <1>2, <1>3, <1>4, <1>5, <1>6, <1>7, <1>8, <1>9, <1>10 DEF Next, ProcessStep

LEMMA StopAlways == Spec => []StopInv
<1>1. Init => StopInv
  <2> SUFFICES ASSUME Init PROVE StopInv
    OBVIOUS
  <2>1. TypeOK /\ RunLimit # None
    BY InitialTypes, LimitAssumption DEF RunLimit, Codes
  <2>2. DOMAIN manifests = {} /\ budget.stop = None /\ pc = "idle"
    BY EmptySeq DEF Init
  <2> QED
    BY <2>1, <2>2 DEF StopInv, StopReasonMatchesSeal
<1> QED
  BY <1>1, StopStays, PTL DEF Spec

(* No manifest disagrees with the seal of its run on why it stopped, so    *)
(* the analysis never excludes an episode for that (analysis.py:93-97).    *)
THEOREM StopReasonsMatchSeals == Spec => []StopReasonMatchesSeal
<1>1. StopInv => StopReasonMatchesSeal
  BY DEF StopInv
<1> QED
  BY <1>1, StopAlways, PTL

(* Once stopped at the run limit, a budget never admits another request.   *)
THEOREM RunLimitIsFinal == Spec => []RunLimitStopIsFinal
<1>1. StopInv => RunLimitStopIsFinal
  <2> SUFFICES ASSUME StopInv, NEW j \in DOMAIN manifests, NEW k \in DOMAIN manifests,
                      j < k, manifests[j].stop_reason = RunLimit
               PROVE  manifests[k].admitted.run = manifests[j].admitted.run
    BY DEF RunLimitStopIsFinal, RunLimit
  <2>1. j \in Nat /\ k \in Nat
    BY LenProperties DEF StopInv, TypeOK
  <2>2. Exhausted(j) /\ j <= j /\ j <= k
    BY <2>1 DEF StopInv
  <2> QED
    BY <2>2 DEF Exhausted
<1> QED
  BY <1>1, StopAlways, PTL

-----------------------------------------------------------------------------
(* Counts.  The manifest, the policies' records and the wire count apart,  *)
(* at different moments: a request is charged, then sent, then recorded    *)
(* with its whole completion.  CountInv says by how much they differ in    *)
(* between, and how far a position in the episode bounds what was sent.    *)

Calling == pc \in {"admit", "recheck", "sleep", "send"}
InFlight == IF Calling THEN Len(attempts) ELSE 0

(* completions begun before the one in progress, if none ended early *)
Completions == (round * NumAgents + turn - 1) * (MaxRetries + 1) + repair

CursorInv ==
  pc # "idle" =>
    /\ \A i \in Agents : offset[i] <= Len(calls[i])
    /\ budget.scope = "episode" => manifests # << >>

ChargeInv ==
  pc # "idle" =>
    LET ahead == IF pc = "send" THEN 1 ELSE 0 IN
    /\ budget.run = budget.before.run + sent.here + ahead
    /\ budget.episode = budget.before.episode + sent.here + ahead

RecordInv ==
  pc # "idle" =>
    /\ Cardinality(AttemptsSince) + InFlight = sent.here
    /\ Cardinality(MeasuredIn(AttemptsSince)) = sent.measured

PositionInv ==
  /\ Calling =>
       /\ Len(attempts) = index
       /\ \A n \in DOMAIN attempts : attempts[n] = "unmeasured"
       /\ sent.here <= Completions * (RateLimitRetries + 1) + index
  /\ pc = "seal" => sent.here <= MaxRequests

CountInv ==
  TypeOK /\ CursorInv /\ ChargeInv /\ RecordInv /\ PositionInv /\ ManifestsCountRequests

(* How many requests a position of the episode leaves for the rest. *)
LEMMA TimesMonotone ==
  ASSUME NEW a \in Nat, NEW b \in Nat, NEW c \in Nat, a <= b
  PROVE  a * c \in Nat /\ b * c \in Nat /\ a * c <= b * c
<1>1. PICK d \in Nat : b = a + d
  <2>1. b - a \in Nat /\ b = a + (b - a)
    OBVIOUS
  <2> QED
    BY <2>1
<1>2. a * c \in Nat /\ d * c \in Nat /\ (a + d) * c = a * c + d * c
  OBVIOUS
<1>3. QED
  BY <1>1, <1>2

LEMMA PositionBound ==
  ASSUME TypeOK
  PROVE  /\ Completions \in Nat /\ MaxRequests \in Nat
         /\ (Completions + 1) * (RateLimitRetries + 1) <= MaxRequests
         /\ Completions * (RateLimitRetries + 1) \in Nat
         /\ (Completions + 1) * (RateLimitRetries + 1)
              = Completions * (RateLimitRetries + 1) + RateLimitRetries + 1
<1>1. /\ NumAgents \in Nat \ {0} /\ Rounds \in Nat \ {0} /\ MaxRetries \in Nat
      /\ RateLimitRetries \in Nat /\ turn \in 1 .. NumAgents /\ round \in 0 .. Rounds - 1
      /\ repair \in 0 .. MaxRetries
  BY RosterAssumption, RetryAssumption DEF TypeOK, Agents
<1> DEFINE slot == round * NumAgents + turn - 1
<1>2. slot \in Nat /\ slot + 1 <= Rounds * NumAgents /\ Rounds * NumAgents \in Nat
  <2>1. round * NumAgents \in Nat /\ (round + 1) * NumAgents <= Rounds * NumAgents
        /\ Rounds * NumAgents \in Nat
    BY <1>1, TimesMonotone
  <2>2. (round + 1) * NumAgents = round * NumAgents + NumAgents
    BY <1>1
  <2> QED
    BY <1>1, <2>1, <2>2
<1> DEFINE all == Rounds * NumAgents
<1> HIDE DEF slot, all
<1>3. /\ slot * (MaxRetries + 1) \in Nat
      /\ (slot + 1) * (MaxRetries + 1) <= all * (MaxRetries + 1)
      /\ all * (MaxRetries + 1) \in Nat
  BY <1>1, <1>2, TimesMonotone DEF all
<1>4. (slot + 1) * (MaxRetries + 1) = slot * (MaxRetries + 1) + (MaxRetries + 1)
  BY <1>1, <1>2
<1>5. /\ Completions = slot * (MaxRetries + 1) + repair
      /\ MaxRequests = all * (MaxRetries + 1) * (RateLimitRetries + 1)
  BY <1>1 DEF Completions, slot, MaxRequests, all
<1>6. Completions \in Nat /\ Completions + 1 <= all * (MaxRetries + 1)
  BY <1>1, <1>3, <1>4, <1>5
<1>7. /\ (Completions + 1) * (RateLimitRetries + 1) <= MaxRequests
      /\ MaxRequests \in Nat /\ Completions * (RateLimitRetries + 1) \in Nat
  <2> DEFINE most == all * (MaxRetries + 1)
             done == Completions
  <2>1. MaxRequests = most * (RateLimitRetries + 1) /\ most \in Nat
        /\ done \in Nat /\ done + 1 <= most /\ done <= most
    BY <1>3, <1>5, <1>6
  <2> HIDE DEF most, done
  <2>2. /\ (done + 1) * (RateLimitRetries + 1) <= most * (RateLimitRetries + 1)
        /\ most * (RateLimitRetries + 1) \in Nat /\ done * (RateLimitRetries + 1) \in Nat
    BY <1>1, <2>1, TimesMonotone
  <2> QED
    BY <2>1, <2>2 DEF done
<1>8. QED
  BY <1>1, <1>6, <1>7

(* Attempts are told apart by agent, call and index. *)
Tagged(t, c, N) == {<<t, c, n>> : n \in N}

LEMMA TaggedCount ==
  ASSUME NEW t, NEW c, NEW N, IsFiniteSet(N)
  PROVE  /\ IsFiniteSet(Tagged(t, c, N))
         /\ Cardinality(Tagged(t, c, N)) = Cardinality(N)
<1> DEFINE T == Tagged(t, c, N)
           f == [n \in N |-> <<t, c, n>>]
<1>1. f \in Bijection(N, T)
  <2>1. f \in [N -> T] /\ \A x \in T : \E n \in N : f[n] = x
    BY DEF Tagged
  <2>2. \A m, n \in N : f[m] = f[n] => m = n
    OBVIOUS
  <2> HIDE DEF f, T
  <2> QED
    BY <2>1, <2>2 DEF Bijection, Injection, IsInjective, Surjection
<1>2. ExistsBijection(N, T)
  BY <1>1 DEF ExistsBijection
<1>3. QED
  BY <1>2, FS_Bijection

(* The attempts since the cursor, one by one *)
SinceKnown ==
  \A a : a \in AttemptsSince <=>
    \E i \in Agents : \E k \in offset[i] + 1 .. Len(calls[i]) : \E n \in DOMAIN calls[i][k] : a = <<i, k, n>>

LEMMA SinceMember == TypeOK => SinceKnown
<1> SUFFICES ASSUME TypeOK, NEW a
             PROVE  a \in AttemptsSince <=>
                      \E i \in Agents : \E k \in offset[i] + 1 .. Len(calls[i]) :
                        \E n \in DOMAIN calls[i][k] : a = <<i, k, n>>
  BY DEF SinceKnown
<1>1. \A i \in Agents : DOMAIN calls[i] = 1 .. Len(calls[i]) /\ Len(calls[i]) \in Nat
                        /\ offset[i] \in Nat
  BY LenProperties DEF TypeOK
<1>2. \A i \in Agents : NewCalls(i) \subseteq DOMAIN calls[i]
  BY <1>1 DEF NewCalls
<1>3. a \in AllAttempts <=>
        \E i \in Agents : \E k \in DOMAIN calls[i] : \E n \in DOMAIN calls[i][k] : a = <<i, k, n>>
  BY DEF AllAttempts
<1>4. QED
  BY <1>2, <1>3 DEF AttemptsSince, NewCalls

LEMMA DisjointCount ==
  ASSUME NEW S, NEW T, IsFiniteSet(S), IsFiniteSet(T), S \cap T = {}
  PROVE  Cardinality(S \cup T) = Cardinality(S) + Cardinality(T)
<1>1. Cardinality(S) \in Nat /\ Cardinality(T) \in Nat
  BY FS_CardinalityType
<1>2. Cardinality(S \cap T) = 0
  BY FS_EmptySet
<1>3. Cardinality(S \cup T) = Cardinality(S) + Cardinality(T) - Cardinality(S \cap T)
  BY FS_Union
<1>4. QED
  BY <1>1, <1>2, <1>3

Hits(list) == {n \in DOMAIN list : list[n] = "measured"}

(* A completion that is recorded adds its own attempts and no other. *)
LEMMA CompletionRecorded ==
  ASSUME TypeOK, TypeOK', CursorInv, pc # "idle", NEW list \in Seq(Attempt), Recorded(list),
         UNCHANGED offset
  PROVE  /\ \A i \in Agents : offset'[i] <= Len(calls'[i])
         /\ Cardinality(AttemptsSince)' = Cardinality(AttemptsSince) + Len(list)
         /\ Cardinality(MeasuredIn(AttemptsSince))'
              = Cardinality(MeasuredIn(AttemptsSince)) + Cardinality(Hits(list))
         /\ Cardinality(AttemptsSince) \in Nat
         /\ Cardinality(MeasuredIn(AttemptsSince)) \in Nat
<1> DEFINE c == Len(calls[turn]) + 1
           Added == Tagged(turn, c, DOMAIN list)
           Measured == Tagged(turn, c, Hits(list))
<1>1. /\ turn \in Agents /\ calls \in [Agents -> Seq(Seq(Attempt))]
      /\ calls[turn] \in Seq(Seq(Attempt)) /\ offset[turn] \in Nat
      /\ \A i \in Agents : offset[i] \in Nat /\ Len(calls[i]) \in Nat
                           /\ offset[i] <= Len(calls[i])
  BY LenProperties DEF TypeOK, CursorInv
<1>2. /\ calls'[turn] = Append(calls[turn], list)
      /\ \A i \in Agents \ {turn} : calls'[i] = calls[i]
  BY <1>1 DEF Recorded
<1>3. /\ c \in Nat /\ Len(calls'[turn]) = c /\ calls'[turn][c] = list
      /\ \A k \in 1 .. c - 1 : calls'[turn][k] = calls[turn][k]
  BY <1>1, <1>2, AppendProperties
<1> HIDE DEF c
<1>4. /\ \A i \in Agents \ {turn} : Len(calls'[i]) = Len(calls[i])
      /\ Len(calls'[turn]) = Len(calls[turn]) + 1
      /\ \A k : k \in offset[turn] + 1 .. Len(calls[turn]) =>
                 k \in 1 .. c - 1 /\ k \in offset'[turn] + 1 .. Len(calls'[turn])
      /\ \A k : k \in offset'[turn] + 1 .. Len(calls'[turn]) =>
                 k = c \/ k \in offset[turn] + 1 .. Len(calls[turn])
      /\ c \in offset'[turn] + 1 .. Len(calls'[turn])
  BY <1>1, <1>2, <1>3 DEF c
<1>5. \A a : a \in AttemptsSince' <=>
              \E i \in Agents : \E k \in offset'[i] + 1 .. Len(calls'[i]) : \E n \in DOMAIN calls'[i][k] : a = <<i, k, n>>
  <2>1. SinceKnown'
    BY SinceMember, PTL
  <2> QED
    BY <2>1 DEF SinceKnown
<1>6. AttemptsSince' = AttemptsSince \cup Added
  <2>1. ASSUME NEW a \in AttemptsSince' PROVE a \in AttemptsSince \cup Added
    <3>1. PICK i, k, n : /\ i \in Agents /\ k \in offset'[i] + 1 .. Len(calls'[i])
                         /\ n \in DOMAIN calls'[i][k] /\ a = <<i, k, n>>
      BY <1>5, <2>1
    <3>2. CASE i = turn /\ k = c
      BY <1>3, <3>1, <3>2 DEF Tagged
    <3>3. CASE ~ (i = turn /\ k = c)
      <4>1. k \in offset[i] + 1 .. Len(calls[i]) /\ calls'[i][k] = calls[i][k]
        BY <1>2, <1>3, <1>4, <3>1, <3>3
      <4> QED
        BY <3>1, <4>1, SinceMember DEF SinceKnown
    <3> QED
      BY <3>2, <3>3
  <2>2. ASSUME NEW a \in Added PROVE a \in AttemptsSince'
    BY <1>1, <1>3, <1>4, <1>5, <2>2 DEF Tagged
  <2>3. ASSUME NEW a \in AttemptsSince PROVE a \in AttemptsSince'
    <3>1. PICK i, k, n : /\ i \in Agents /\ k \in offset[i] + 1 .. Len(calls[i]) /\ n \in DOMAIN calls[i][k]
                         /\ a = <<i, k, n>>
      BY <2>3, SinceMember DEF SinceKnown
    <3>2. k \in offset'[i] + 1 .. Len(calls'[i]) /\ calls'[i][k] = calls[i][k]
      BY <1>2, <1>3, <1>4, <3>1
    <3> QED
      BY <1>5, <3>1, <3>2
  <2> QED
    BY <2>1, <2>2, <2>3
<1>7. AttemptsSince \cap Added = {}
  BY <1>4, SinceMember DEF SinceKnown, Tagged
<1>8. \A a \in AttemptsSince : calls'[a[1]][a[2]][a[3]] = calls[a[1]][a[2]][a[3]]
  <2> SUFFICES ASSUME NEW a \in AttemptsSince
               PROVE  calls'[a[1]][a[2]][a[3]] = calls[a[1]][a[2]][a[3]]
    OBVIOUS
  <2>1. PICK i, k, n : /\ i \in Agents /\ k \in offset[i] + 1 .. Len(calls[i]) /\ n \in DOMAIN calls[i][k]
                       /\ a = <<i, k, n>>
    BY SinceMember DEF SinceKnown
  <2>2. calls'[i][k] = calls[i][k]
    BY <1>2, <1>3, <1>4, <2>1
  <2> QED
    BY <2>1, <2>2
<1>9. MeasuredIn(AttemptsSince)' = MeasuredIn(AttemptsSince) \cup Measured
  <2>1. \A a \in Added : calls'[a[1]][a[2]][a[3]] = list[a[3]]
    BY <1>3 DEF Tagged
  <2>2. {a \in Added : calls'[a[1]][a[2]][a[3]] = "measured"} = Measured
    BY <2>1 DEF Hits, Tagged
  <2>3. {a \in AttemptsSince : calls'[a[1]][a[2]][a[3]] = "measured"} = MeasuredIn(AttemptsSince)
    BY <1>8 DEF MeasuredIn
  <2>4. MeasuredIn(AttemptsSince)'
          = {a \in AttemptsSince' : calls'[a[1]][a[2]][a[3]] = "measured"}
    BY DEF MeasuredIn
  <2> QED
    BY <1>6, <2>2, <2>3, <2>4
<1>10. /\ IsFiniteSet(Added) /\ Cardinality(Added) = Len(list)
       /\ IsFiniteSet(Measured) /\ Cardinality(Measured) = Cardinality(Hits(list))
       /\ Measured \subseteq Added
  <2>1. DOMAIN list = 1 .. Len(list) /\ Len(list) \in Nat /\ Hits(list) \subseteq DOMAIN list
    BY LenProperties DEF Hits
  <2>2. IsFiniteSet(DOMAIN list) /\ Cardinality(DOMAIN list) = Len(list)
    <3> DEFINE n == Len(list)
    <3>1. n \in Nat /\ 1 \in Int
      BY <2>1
    <3> HIDE DEF n
    <3>2. IsFiniteSet(1 .. n) /\ Cardinality(1 .. n) = n
      BY <3>1, FS_Interval
    <3> QED
      BY <2>1, <3>2 DEF n
  <2>3. IsFiniteSet(Hits(list))
    BY <2>1, <2>2, FS_Subset
  <2>4. IsFiniteSet(Added) /\ Cardinality(Added) = Cardinality(DOMAIN list)
    BY <2>2, TaggedCount
  <2>5. IsFiniteSet(Measured) /\ Cardinality(Measured) = Cardinality(Hits(list))
    BY <2>3, TaggedCount
  <2>6. Measured \subseteq Added
    BY <2>1 DEF Tagged
  <2> QED
    BY <2>2, <2>4, <2>5, <2>6
<1>11. IsFiniteSet(AttemptsSince) /\ IsFiniteSet(MeasuredIn(AttemptsSince))
  BY AttemptsAreFinite, FS_Subset DEF TypeOK, AttemptsSince, MeasuredIn
<1>12. MeasuredIn(AttemptsSince) \cap Measured = {}
  BY <1>7, <1>10 DEF MeasuredIn
<1>13. /\ Cardinality(AttemptsSince) \in Nat /\ Cardinality(MeasuredIn(AttemptsSince)) \in Nat
       /\ Len(list) \in Nat /\ Cardinality(Hits(list)) \in Nat
  BY <1>10, <1>11, FS_CardinalityType, LenProperties
<1> HIDE DEF Added, Measured
<1>14. Cardinality(AttemptsSince \cup Added) = Cardinality(AttemptsSince) + Len(list)
  BY <1>7, <1>10, <1>11, <1>13, DisjointCount
<1>15. Cardinality(MeasuredIn(AttemptsSince) \cup Measured)
         = Cardinality(MeasuredIn(AttemptsSince)) + Cardinality(Hits(list))
  BY <1>10, <1>11, <1>12, <1>13, DisjointCount
<1>16. \A i \in Agents : offset'[i] <= Len(calls'[i])
  BY <1>1, <1>4
<1>17. QED
  BY <1>6, <1>9, <1>13, <1>14, <1>15, <1>16

(* Only the last attempt of a completion can have reported its usage. *)
LEMMA AttemptHits ==
  ASSUME TypeOK, \A n \in DOMAIN attempts : attempts[n] = "unmeasured"
  PROVE  /\ Len(attempts) \in Nat /\ Cardinality(Hits(attempts)) = 0
         /\ \A m \in Attempt :
              /\ Append(attempts, m) \in Seq(Attempt)
              /\ Len(Append(attempts, m)) = Len(attempts) + 1
              /\ Cardinality(Hits(Append(attempts, m))) = IF m = "measured" THEN 1 ELSE 0
<1>1. /\ attempts \in Seq(Attempt) /\ Len(attempts) \in Nat
      /\ DOMAIN attempts = 1 .. Len(attempts)
  BY LenProperties DEF TypeOK
<1>2. Hits(attempts) = {}
  BY DEF Hits
<1>3. ASSUME NEW m \in Attempt
      PROVE  /\ Append(attempts, m) \in Seq(Attempt)
             /\ Len(Append(attempts, m)) = Len(attempts) + 1
             /\ Cardinality(Hits(Append(attempts, m))) = IF m = "measured" THEN 1 ELSE 0
  <2> DEFINE list == Append(attempts, m)
  <2>1. /\ list \in Seq(Attempt) /\ Len(list) = Len(attempts) + 1
        /\ \A n \in 1 .. Len(attempts) : list[n] = attempts[n]
        /\ list[Len(attempts) + 1] = m
    BY <1>1, AppendProperties
  <2>2. DOMAIN list = 1 .. Len(attempts) + 1
    BY <2>1, LenProperties
  <2> HIDE DEF list
  <2>3. Hits(list) = IF m = "measured" THEN {Len(attempts) + 1} ELSE {}
    BY <1>1, <2>1, <2>2 DEF Hits
  <2>4. Cardinality(Hits(list)) = IF m = "measured" THEN 1 ELSE 0
    BY <2>3, FS_Singleton, FS_EmptySet
  <2> QED
    BY <2>1, <2>4 DEF list
<1>4. QED
  BY <1>1, <1>2, <1>3, FS_EmptySet

(* Charging a request, or none of the counted. *)
LEMMA QuietCount ==
  ASSUME CountInv, TypeOK', pc # "idle", pc' # "idle",
         UNCHANGED <<calls, offset, sent, manifests>>,
         budget'.scope = budget.scope, ChargeInv', InFlight' = InFlight, PositionInv'
  PROVE  CountInv'
<1>1. CursorInv'
  BY DEF CountInv, CursorInv
<1>2. RecordInv'
  <2>1. AttemptsSince' = AttemptsSince
    BY DEF AttemptsSince, AllAttempts, NewCalls
  <2>2. MeasuredIn(AttemptsSince)' = MeasuredIn(AttemptsSince)
    BY <2>1 DEF MeasuredIn
  <2> QED
    BY <2>1, <2>2 DEF CountInv, RecordInv
<1>3. ManifestsCountRequests'
  BY DEF ManifestsCountRequests
<1>4. QED
  BY <1>1, <1>2, <1>3 DEF CountInv

(* A completion ends; what it sent without being recorded yet is recorded. *)
LEMMA RecordedCount ==
  ASSUME CountInv, TypeOK', Calling, pc' # "idle", UNCHANGED <<offset, manifests>>,
         budget'.scope = budget.scope, NEW list \in Seq(Attempt), Recorded(list),
         sent'.here = sent.here - Len(attempts) + Len(list),
         sent'.measured = sent.measured + Cardinality(Hits(list)),
         InFlight' = 0, ChargeInv', PositionInv'
  PROVE  CountInv'
<1>1. /\ \A i \in Agents : offset'[i] <= Len(calls'[i])
      /\ Cardinality(AttemptsSince)' = Cardinality(AttemptsSince) + Len(list)
      /\ Cardinality(MeasuredIn(AttemptsSince))'
           = Cardinality(MeasuredIn(AttemptsSince)) + Cardinality(Hits(list))
      /\ Cardinality(AttemptsSince) \in Nat
      /\ Cardinality(MeasuredIn(AttemptsSince)) \in Nat
  BY CompletionRecorded DEF CountInv, Calling
<1>2. CursorInv'
  BY <1>1 DEF CountInv, CursorInv, Calling
<1>3. RecordInv'
  <2>1. /\ Cardinality(AttemptsSince) + Len(attempts) = sent.here
        /\ Cardinality(MeasuredIn(AttemptsSince)) = sent.measured
    BY DEF CountInv, RecordInv, InFlight, Calling
  <2>2. Len(attempts) \in Nat /\ Len(list) \in Nat
    BY LenProperties DEF CountInv, TypeOK
  <2> QED
    BY <1>1, <2>1, <2>2 DEF RecordInv
<1>4. ManifestsCountRequests'
  BY DEF ManifestsCountRequests
<1>5. QED
  BY <1>2, <1>3, <1>4 DEF CountInv

(* Wherever a completion is, the episode may end within the plan. *)
LEMMA WithinPlan ==
  ASSUME CountInv, Calling
  PROVE  /\ Len(attempts) = index /\ index \in 0 .. RateLimitRetries
         /\ sent.here \in Nat
         /\ sent.here + 1 <= (Completions + 1) * (RateLimitRetries + 1)
         /\ sent.here + 1 <= MaxRequests
<1>1. /\ index \in 0 .. RateLimitRetries /\ RateLimitRetries \in Nat /\ sent.here \in Nat
      /\ Len(attempts) = index
      /\ sent.here <= Completions * (RateLimitRetries + 1) + index
  BY RetryAssumption DEF CountInv, TypeOK, PositionInv
<1> DEFINE reached == Completions * (RateLimitRetries + 1)
           next == (Completions + 1) * (RateLimitRetries + 1)
<1>2. /\ reached \in Nat /\ next = reached + RateLimitRetries + 1
      /\ next <= MaxRequests /\ MaxRequests \in Nat
  BY PositionBound DEF CountInv
<1>3. sent.here <= reached + index
  BY <1>1
<1> HIDE DEF reached, next
<1>4. sent.here + 1 <= next /\ sent.here + 1 <= MaxRequests
  BY <1>1, <1>2, <1>3
<1>5. QED
  BY <1>1, <1>4 DEF next

LEMMA NextPosition ==
  ASSUME TypeOK, TypeOK', NextTurn, repair' = 0, pc' = "admit"
  PROVE  Completions' \in Nat /\ Completions \in Nat /\ Completions + 1 <= Completions'
<1>1. /\ NumAgents \in Nat \ {0} /\ MaxRetries \in Nat /\ turn \in 1 .. NumAgents
      /\ round \in Nat /\ repair \in 0 .. MaxRetries
  BY RosterAssumption, RetryAssumption DEF TypeOK, Agents
<1> DEFINE slot == round * NumAgents + turn - 1
<1>2. round' * NumAgents + turn' - 1 = slot + 1
  <2>1. CASE turn' = turn + 1 /\ UNCHANGED round
    BY <1>1, <2>1
  <2>2. CASE turn = NumAgents /\ turn' = 1 /\ round' = round + 1
    BY <1>1, <2>2
  <2> QED
    BY <2>1, <2>2 DEF NextTurn, EndEpisode
<1>3. slot \in Nat
  BY <1>1
<1>4. Completions' = (slot + 1) * (MaxRetries + 1) + 0
  BY <1>2 DEF Completions
<1>5. Completions = slot * (MaxRetries + 1) + repair
  BY DEF Completions
<1> HIDE DEF slot
<1>6. /\ slot * (MaxRetries + 1) \in Nat
      /\ (slot + 1) * (MaxRetries + 1) = slot * (MaxRetries + 1) + MaxRetries + 1
  BY <1>1, <1>3
<1>7. QED
  BY <1>1, <1>4, <1>5, <1>6

LEMMA MovedOn ==
  ASSUME CountInv, Calling, pc' \in {"admit", "seal"}, sent'.here = sent.here + 1,
         pc' = "admit" => /\ attempts' = << >> /\ index' = 0
                          /\ Completions' \in Nat /\ Completions + 1 <= Completions'
  PROVE  PositionInv'
<1>1. /\ sent.here + 1 <= (Completions + 1) * (RateLimitRetries + 1)
      /\ sent.here + 1 <= MaxRequests /\ sent.here \in Nat
  BY WithinPlan
<1>2. CASE pc' = "seal"
  BY <1>1, <1>2 DEF PositionInv, Calling
<1>3. CASE pc' = "admit"
  <2>1. Completions + 1 \in Nat /\ RateLimitRetries + 1 \in Nat
    BY PositionBound, RetryAssumption DEF CountInv
  <2> DEFINE a == Completions + 1
             b == Completions'
             c == RateLimitRetries + 1
  <2>2. a \in Nat /\ b \in Nat /\ c \in Nat /\ a <= b
    BY <1>3, <2>1
  <2>3. sent'.here <= a * c
    BY <1>1
  <2> HIDE DEF a, b, c
  <2>4. a * c \in Nat /\ b * c \in Nat /\ a * c <= b * c
    BY <2>2, TimesMonotone
  <2>5. sent'.here <= b * c
    BY <1>1, <2>3, <2>4
  <2>6. sent'.here <= Completions' * (RateLimitRetries + 1) + index'
    BY <1>3, <2>4, <2>5 DEF b, c
  <2>7. Len(attempts') = index' /\ DOMAIN attempts' = {}
    BY <1>3
  <2> QED
    BY <1>3, <2>6, <2>7 DEF PositionInv, Calling
<1>4. QED
  BY <1>2, <1>3

(* What every request changes of the counts *)
LEMMA WireCount ==
  ASSUME CountInv, pc = "send", NEW measured \in Attempt, Wire(measured)
  PROVE  /\ sent'.here = sent.here + 1
         /\ sent'.measured = sent.measured + (IF measured = "measured" THEN 1 ELSE 0)
         /\ UNCHANGED budget /\ pc' \notin {"send"} => ChargeInv'
<1>1. /\ sent \in [total : Nat, episode : Nat, here : Nat, measured : Nat]
      /\ budget.before \in Counters
  BY DEF CountInv, TypeOK
<1>2. /\ sent'.here = sent.here + 1
      /\ sent'.measured = sent.measured + (IF measured = "measured" THEN 1 ELSE 0)
  BY <1>1 DEF Wire
<1>3. budget.before.run \in Nat /\ budget.before.episode \in Nat
  BY <1>1 DEF Counters
<1>4. UNCHANGED budget /\ pc' \notin {"send"} => ChargeInv'
  BY <1>1, <1>2, <1>3 DEF CountInv, ChargeInv
<1>5. QED
  BY <1>2, <1>4

(* A request that ends its completion, and the position after it *)
LEMMA AnsweredCount ==
  ASSUME CountInv, TypeOK', pc = "send", NEW measured \in Attempt, Wire(measured),
         Recorded(Append(attempts, measured)), UNCHANGED <<budget, offset, manifests>>,
         pc' \in {"admit", "seal"},
         pc' = "admit" => /\ attempts' = << >> /\ index' = 0
                          /\ Completions' \in Nat /\ Completions + 1 <= Completions'
  PROVE  CountInv'
<1>1. Calling /\ pc' # "idle"
  BY DEF Calling
<1>2. \A n \in DOMAIN attempts : attempts[n] = "unmeasured"
  BY <1>1 DEF CountInv, PositionInv
<1>3. /\ Len(attempts) \in Nat /\ Append(attempts, measured) \in Seq(Attempt)
      /\ Len(Append(attempts, measured)) = Len(attempts) + 1
      /\ Cardinality(Hits(Append(attempts, measured))) = IF measured = "measured" THEN 1 ELSE 0
  BY <1>2, AttemptHits DEF CountInv
<1>4. /\ sent'.here = sent.here + 1
      /\ sent'.measured = sent.measured + (IF measured = "measured" THEN 1 ELSE 0)
      /\ ChargeInv'
  BY WireCount
<1>5. PositionInv'
  BY <1>1, <1>4, MovedOn
<1>6. InFlight' = 0
  BY DEF InFlight, Calling
<1>7. sent.here \in Nat
  BY DEF CountInv, TypeOK
<1>8. sent'.here = sent.here - Len(attempts) + Len(Append(attempts, measured))
  BY <1>3, <1>4, <1>7
<1>9. QED
  BY <1>1, <1>3, <1>4, <1>5, <1>6, <1>8, RecordedCount

LEMMA RespondCount ==
  ASSUME CountInv, TypeOK', Respond
  PROVE  CountInv'
<1>1. /\ Usages \subseteq Attempt /\ "unmeasured" \in Attempt
      /\ TypeOK /\ MaxRetries \in Nat /\ repair \in 0 .. MaxRetries
  BY UsageAssumption, RetryAssumption DEF Attempt, CountInv, TypeOK
<1>2. CASE RateLimited
  <2>1. /\ pc = "send" /\ pc' = "recheck" /\ Wire("unmeasured")
        /\ attempts' = Append(attempts, "unmeasured") /\ index' = index + 1
        /\ UNCHANGED <<budget, turn, round, repair, calls, offset, manifests>>
    BY <1>2 DEF RateLimited
  <2>2. /\ sent'.here = sent.here + 1 /\ sent'.measured = sent.measured /\ ChargeInv'
    <3>1. sent.measured \in Nat
      BY DEF CountInv, TypeOK
    <3> QED
      BY <1>1, <2>1, <3>1, WireCount
  <2>3. Calling /\ Calling' /\ pc' # "idle"
    BY <2>1 DEF Calling
  <2>4. /\ attempts \in Seq(Attempt) /\ Len(attempts) \in Nat /\ index \in Nat
        /\ sent.here \in Nat /\ Completions * (RateLimitRetries + 1) \in Nat
    <3>1. Completions * (RateLimitRetries + 1) \in Nat
      BY <1>1, PositionBound
    <3> QED
      BY <1>1, <3>1, LenProperties DEF TypeOK
  <2>5. /\ Len(attempts') = Len(attempts) + 1
        /\ \A n \in DOMAIN attempts' : attempts'[n] = "unmeasured"
    <3>1. /\ attempts' \in Seq(Attempt) /\ Len(attempts') = Len(attempts) + 1
          /\ \A n \in 1 .. Len(attempts) : attempts'[n] = attempts[n]
          /\ attempts'[Len(attempts) + 1] = "unmeasured"
      BY <1>1, <2>1, <2>4, AppendProperties
    <3>2. DOMAIN attempts = 1 .. Len(attempts) /\ DOMAIN attempts' = 1 .. Len(attempts) + 1
      BY <2>4, <3>1, LenProperties
    <3>3. \A n \in DOMAIN attempts : attempts[n] = "unmeasured"
      BY <2>3 DEF CountInv, PositionInv
    <3> QED
      BY <2>4, <3>1, <3>2, <3>3
  <2>6. PositionInv'
    <3>1. Completions' = Completions
      BY <2>1 DEF Completions
    <3>2. sent.here <= Completions * (RateLimitRetries + 1) + index /\ Len(attempts) = index
      BY <2>3 DEF CountInv, PositionInv
    <3>3. sent'.here <= Completions' * (RateLimitRetries + 1) + index'
      BY <2>1, <2>2, <2>4, <3>1, <3>2
    <3> QED
      BY <2>1, <2>5, <3>2, <3>3 DEF PositionInv
  <2>7. AttemptsSince' = AttemptsSince /\ MeasuredIn(AttemptsSince)' = MeasuredIn(AttemptsSince)
    BY <2>1 DEF AttemptsSince, AllAttempts, NewCalls, MeasuredIn
  <2>8. RecordInv'
    <3>1. /\ Cardinality(AttemptsSince) + Len(attempts) = sent.here
          /\ Cardinality(MeasuredIn(AttemptsSince)) = sent.measured
      BY <2>3 DEF CountInv, RecordInv, InFlight, Calling
    <3>2. Cardinality(AttemptsSince) \in Nat
      <4>1. IsFiniteSet(AttemptsSince)
        BY <1>1, AttemptsAreFinite, FS_Subset DEF TypeOK, AttemptsSince
      <4> QED
        BY <4>1, FS_CardinalityType
    <3>3. Cardinality(AttemptsSince) + (Len(attempts) + 1) = sent'.here
      BY <2>2, <2>4, <3>1, <3>2
    <3> QED
      BY <2>2, <2>3, <2>5, <2>7, <3>1, <3>3 DEF RecordInv, InFlight
  <2>9. CursorInv' /\ ManifestsCountRequests'
    BY <2>1 DEF CountInv, CursorInv, ManifestsCountRequests
  <2>10. QED
    BY <2>2, <2>6, <2>8, <2>9 DEF CountInv
<1>3. ASSUME NEW measured \in Usages, RequestFails(measured) PROVE CountInv'
  BY <1>1, <1>3, AnsweredCount DEF RequestFails, EndEpisode
<1>4. ASSUME NEW measured \in Usages, Completes(measured) PROVE CountInv'
  <2>1. pc' \in {"admit", "seal"}
    BY <1>4 DEF Completes, NextTurn, EndEpisode
  <2>2. pc' = "admit" => Completions' \in Nat /\ Completions + 1 <= Completions'
    BY <1>1, <1>4, NextPosition DEF Completes
  <2> QED
    BY <1>1, <1>4, <2>1, <2>2, AnsweredCount DEF Completes
<1>5. ASSUME NEW measured \in Usages, NeedsRepair(measured) PROVE CountInv'
  <2>1. pc' \in {"admit", "seal"}
    BY <1>5 DEF NeedsRepair, NextTurn, EndEpisode
  <2>2. pc' = "admit" => Completions' \in Nat /\ Completions + 1 <= Completions'
    <3>1. CASE repair' = 0 /\ NextTurn
      BY <1>1, <3>1, NextPosition
    <3>2. CASE repair' = repair + 1 /\ UNCHANGED <<turn, round>>
      <4>1. Completions' = (round * NumAgents + turn - 1) * (MaxRetries + 1) + (repair + 1)
        BY <3>2 DEF Completions
      <4>2. (round * NumAgents + turn - 1) * (MaxRetries + 1) \in Nat
        <5>1. round * NumAgents + turn - 1 \in Nat
          <6>1. round \in Nat /\ NumAgents \in Nat /\ turn \in Nat /\ turn >= 1
            BY <1>1, RosterAssumption DEF TypeOK, Agents
          <6>2. round * NumAgents \in Nat
            BY <6>1
          <6> QED
            BY <6>1, <6>2
        <5> QED
          BY <1>1, <5>1
      <4> QED
        BY <1>1, <4>1, <4>2 DEF Completions
    <3> QED
      BY <1>5, <3>1, <3>2 DEF NeedsRepair
  <2> QED
    BY <1>1, <1>5, <2>1, <2>2, AnsweredCount DEF NeedsRepair
<1>6. QED
  BY <1>2, <1>3, <1>4, <1>5 DEF Respond

(* An episode or continuation starts its accounts at nothing. *)
LEMMA BeginCount ==
  ASSUME CountInv, TypeOK', Begin
  PROVE  CountInv'
<1>1. PICK scope \in {"episode", "continuation"}, fresh \in SUBSET Agents :
        BeginWith(scope, fresh)
  BY DEF Begin
<1>2. /\ pc' = "admit" /\ attempts' = << >> /\ index' = 0
      /\ budget' = Begun(scope) /\ \A i \in Agents : offset'[i] = Len(calls'[i])
      /\ scope = "episode" => manifests' = Append(manifests, StartManifest(scope))
  BY <1>1 DEF BeginWith
<1>3. sent'.here = 0 /\ sent'.measured = 0
  BY <1>1 DEF BeginWith, CountInv, TypeOK
<1>4. /\ budget'.scope = scope
      /\ budget'.run = budget'.before.run /\ budget'.episode = budget'.before.episode
      /\ budget'.run \in Nat /\ budget'.episode \in Nat
  <2>1. /\ budget'.scope = scope
        /\ budget'.run = budget'.before.run /\ budget'.episode = budget'.before.episode
    BY <1>2 DEF Begun, Admitted
  <2> QED
    BY <2>1 DEF TypeOK
<1>5. CursorInv'
  <2>1. \A i \in Agents : Len(calls'[i]) \in Nat
    BY LenProperties DEF TypeOK
  <2>2. scope = "episode" => manifests' # << >>
    <3>1. manifests \in Seq(ManifestRecords) /\ StartManifest(scope) \in ManifestRecords
      BY StartManifestTyped DEF CountInv, TypeOK
    <3> QED
      BY <1>2, <3>1, AppendProperties
  <2> QED
    BY <1>2, <1>4, <2>1, <2>2 DEF CursorInv
<1>6. ChargeInv'
  BY <1>2, <1>3, <1>4 DEF ChargeInv
<1>7. RecordInv'
  <2>1. AttemptsSince' = {}
    <3>1. SinceKnown'
      BY SinceMember, PTL
    <3>2. \A i \in Agents : Len(calls'[i]) \in Nat
      BY LenProperties DEF TypeOK
    <3>3. \A i \in Agents : offset'[i] + 1 .. Len(calls'[i]) = {}
      BY <1>2, <3>2
    <3> QED
      BY <3>1, <3>3 DEF SinceKnown
  <2>2. MeasuredIn(AttemptsSince)' = {}
    BY <2>1 DEF MeasuredIn
  <2>3. InFlight' = 0
    BY <1>2 DEF InFlight, Calling
  <2> QED
    BY <1>3, <2>1, <2>2, <2>3, FS_EmptySet DEF RecordInv
<1>8. PositionInv'
  <2>1. (Completions * (RateLimitRetries + 1))' \in Nat
    <3>1. (TypeOK => Completions * (RateLimitRetries + 1) \in Nat)'
      BY PositionBound, PTL
    <3> QED
      BY <3>1
  <2>2. Len(attempts') = index' /\ DOMAIN attempts' = {}
    BY <1>2
  <2> QED
    BY <1>2, <1>3, <2>1, <2>2 DEF PositionInv, Calling
<1>9. ManifestsCountRequests'
  BY <1>2 DEF ManifestsCountRequests
<1>10. QED
  BY <1>5, <1>6, <1>7, <1>8, <1>9 DEF CountInv

(* The final manifest: here the three accounts meet. *)
LEMMA SealCount ==
  ASSUME CountInv, TypeOK', SealEpisode
  PROVE  CountInv'
<1> DEFINE record == Manifest(Status, ended)
<1>1. pc = "seal" /\ pc' = "idle" /\ UNCHANGED <<budget, sent>>
  BY DEF SealEpisode
<1>2. TypeOK /\ manifests \in Seq(ManifestRecords) /\ record \in ManifestRecords
  BY ManifestTyped DEF CountInv, TypeOK, Status
<1>3. manifests'[Len(manifests')] = record
  <2>1. CASE manifests' = Append(manifests, record)
    <3> HIDE DEF record
    <3> QED
      BY <1>2, <2>1, AppendProperties
  <2>2. CASE budget.scope = "episode" /\ manifests' = [manifests EXCEPT ![Len(manifests)] = record]
    <3>1. manifests # << >>
      BY <1>1, <2>2 DEF CountInv, CursorInv
    <3>2. Len(manifests) \in Nat \ {0} /\ DOMAIN manifests = 1 .. Len(manifests)
      BY <1>2, <3>1, EmptySeq, LenProperties
    <3> HIDE DEF record
    <3>3. Len(manifests') = Len(manifests)
      BY <1>2, <2>2, <3>2, ExceptSeq
    <3>4. Len(manifests) \in DOMAIN manifests
      BY <3>2
    <3> QED
      BY <2>2, <3>3, <3>4
  <2> QED
    BY <2>1, <2>2 DEF SealEpisode
<1>4. /\ record.before = budget.before /\ record.admitted = Admitted
      /\ record.request_attempts = Cardinality(AttemptsSince)
      /\ record.tokens_known <=>
           AttemptsSince # {} /\ MeasuredIn(AttemptsSince) = AttemptsSince
  BY DEF Manifest
<1> HIDE DEF record
<1>5. /\ budget.before \in Counters /\ sent.here \in Nat /\ sent.measured \in Nat
      /\ budget.run = budget.before.run + sent.here
      /\ budget.episode = budget.before.episode + sent.here
  <2>1. budget.before \in Counters /\ sent.here \in Nat /\ sent.measured \in Nat
    BY DEF CountInv, TypeOK
  <2>2. budget.before.run \in Nat /\ budget.before.episode \in Nat
    BY <2>1 DEF Counters
  <2>3. /\ budget.run = budget.before.run + sent.here + 0
        /\ budget.episode = budget.before.episode + sent.here + 0
    BY <1>1 DEF CountInv, ChargeInv
  <2> QED
    BY <2>1, <2>2, <2>3
<1>6. /\ record.admitted.run - record.before.run = sent.here
      /\ record.admitted.episode - record.before.episode = sent.here
  BY <1>4, <1>5 DEF Admitted, Counters
<1>7. IsFiniteSet(AttemptsSince)
  BY <1>2, AttemptsAreFinite, FS_Subset DEF TypeOK, AttemptsSince
<1>8. /\ Cardinality(AttemptsSince) \in Nat
      /\ Cardinality(AttemptsSince) + 0 = sent.here
      /\ Cardinality(MeasuredIn(AttemptsSince)) = sent.measured
  <2>1. InFlight = 0
    BY <1>1 DEF InFlight, Calling
  <2> QED
    BY <1>1, <1>7, <2>1, FS_CardinalityType DEF CountInv, RecordInv
<1>9. record.tokens_known <=> (sent.here > 0 /\ sent.measured = sent.here)
  <2>1. AttemptsSince # {} <=> sent.here > 0
    BY <1>5, <1>7, <1>8, FS_EmptySet
  <2>2. MeasuredIn(AttemptsSince) = AttemptsSince <=> sent.measured = sent.here
    <3>1. MeasuredIn(AttemptsSince) \in SUBSET AttemptsSince
      BY DEF MeasuredIn
    <3>2. Cardinality(AttemptsSince) = Cardinality(MeasuredIn(AttemptsSince)) =>
            AttemptsSince = MeasuredIn(AttemptsSince)
      BY <1>7, <3>1, FS_Subset
    <3> QED
      BY <1>8, <3>2
  <2> QED
    BY <1>4, <2>1, <2>2
<1>10. sent.here <= MaxRequests
  BY <1>1 DEF CountInv, PositionInv
<1>11. ManifestsCountRequests'
  BY <1>1, <1>3, <1>4, <1>6, <1>8, <1>9, <1>10 DEF ManifestsCountRequests
<1>12. CursorInv' /\ ChargeInv' /\ RecordInv' /\ PositionInv'
  BY <1>1 DEF CursorInv, ChargeInv, RecordInv, PositionInv, Calling
<1>13. QED
  BY <1>11, <1>12 DEF CountInv

(* A completion that ends without a further request *)
LEMMA RefusedCount ==
  ASSUME CountInv, TypeOK', Calling, pc # "send", Recorded(attempts), pc' = "seal",
         UNCHANGED <<offset, manifests, sent>>,
         budget'.scope = budget.scope, budget'.before = budget.before,
         budget'.run = budget.run, budget'.episode = budget.episode
  PROVE  CountInv'
<1>1. /\ Len(attempts) \in Nat /\ Cardinality(Hits(attempts)) = 0
      /\ attempts \in Seq(Attempt) /\ sent.here \in Nat /\ sent.measured \in Nat
  BY AttemptHits DEF CountInv, PositionInv, TypeOK
<1>2. ChargeInv'
  BY DEF CountInv, ChargeInv, Calling
<1>3. PositionInv'
  <2>1. sent.here + 1 <= MaxRequests /\ MaxRequests \in Nat
    BY WithinPlan, PositionBound DEF CountInv
  <2> QED
    BY <1>1, <2>1 DEF PositionInv, Calling
<1>4. InFlight' = 0
  BY DEF InFlight, Calling
<1>5. /\ sent'.here = sent.here - Len(attempts) + Len(attempts)
      /\ sent'.measured = sent.measured + Cardinality(Hits(attempts))
  BY <1>1
<1>6. QED
  BY <1>1, <1>2, <1>3, <1>4, <1>5, RecordedCount

LEMMA AdmitCount ==
  ASSUME CountInv, TypeOK', Admit
  PROVE  CountInv'
<1>1. /\ pc = "admit" /\ pc' = "send"
      /\ UNCHANGED <<callVars, calls, offset, sent, manifests>>
  BY DEF Admit
<1>2. /\ budget.run \in Nat /\ budget.episode \in Nat /\ sent.here \in Nat
      /\ budget.before.run \in Nat /\ budget.before.episode \in Nat
  BY DEF CountInv, TypeOK, Counters
<1>3. /\ budget'.run = budget.run + 1 /\ budget'.episode = budget.episode + 1
      /\ budget'.before = budget.before /\ budget'.scope = budget.scope
  BY DEF Admit, CountInv, TypeOK
<1>4. /\ budget.run = budget.before.run + sent.here + 0
      /\ budget.episode = budget.before.episode + sent.here + 0
  BY <1>1 DEF CountInv, ChargeInv
<1>5. ChargeInv'
  <2>1. /\ budget'.run = budget'.before.run + sent'.here + 1
        /\ budget'.episode = budget'.before.episode + sent'.here + 1
    BY <1>1, <1>2, <1>3, <1>4
  <2> QED
    BY <1>1, <2>1 DEF ChargeInv
<1>6. InFlight' = InFlight /\ PositionInv'
  BY <1>1 DEF InFlight, Calling, CountInv, PositionInv, Completions, callVars
<1>7. QED
  BY <1>1, <1>3, <1>5, <1>6, QuietCount

LEMMA CountStep == CountInv /\ [Next]_vars => CountInv'
<1> SUFFICES ASSUME CountInv, [Next]_vars PROVE CountInv'
  OBVIOUS
<1>1. TypeOK' /\ TypeOK
  BY TypeStep DEF CountInv
<1>2. CASE Begin
  BY <1>1, <1>2, BeginCount
<1>3. CASE ConfigurationChanged
  <2>1. /\ pc = "admit" /\ pc' = "seal" /\ index = 0
        /\ UNCHANGED <<budget, callVars, calls, offset, manifests, sent>>
    BY <1>3 DEF ConfigurationChanged, EndEpisode
  <2>2. /\ Len(attempts) = 0 /\ sent.here + 1 <= MaxRequests
        /\ sent.here \in Nat /\ MaxRequests \in Nat
    BY <1>1, <2>1, WithinPlan, PositionBound DEF Calling
  <2>3. ChargeInv' /\ InFlight' = InFlight /\ PositionInv'
    BY <2>1, <2>2 DEF CountInv, ChargeInv, InFlight, PositionInv, Calling
  <2> QED
    BY <1>1, <2>1, <2>3, QuietCount
<1>4. CASE PromptRefused
  <2>1. /\ pc = "admit" /\ pc' = "seal" /\ index = 0 /\ Recorded(<< >>) /\ Calling
        /\ UNCHANGED <<budget, callVars, offset, manifests, sent>>
    BY <1>4 DEF PromptRefused, EndEpisode, Calling
  <2>2. attempts = << >>
    <3>1. Len(attempts) = 0
      BY <2>1, WithinPlan
    <3> QED
      BY <1>1, <3>1, EmptySeq DEF TypeOK
  <2> QED
    BY <1>1, <2>1, <2>2, RefusedCount
<1>5. ASSUME NEW code, Stop(code), pc \in {"admit", "recheck"},
             UNCHANGED <<offset, manifests, sent>>
      PROVE  CountInv'
  <2>1. /\ budget'.scope = budget.scope /\ budget'.before = budget.before
        /\ budget'.run = budget.run /\ budget'.episode = budget.episode
    BY <1>1, <1>5 DEF Stop, TypeOK
  <2> QED
    BY <1>1, <1>5, <2>1, RefusedCount DEF Stop, EndEpisode, Calling
<1>6. ASSUME pc \in {"recheck", "sleep"}, pc' \in {"sleep", "admit"},
             UNCHANGED <<budget, callVars, calls, offset, manifests, sent>>
      PROVE  CountInv'
  <2>1. ChargeInv' /\ InFlight' = InFlight /\ PositionInv'
    BY <1>6 DEF CountInv, ChargeInv, InFlight, PositionInv, Calling, Completions, callVars
  <2> QED
    BY <1>1, <1>6, <2>1, QuietCount
<1>7. CASE Recheck
  BY <1>5, <1>6, <1>7 DEF Recheck
<1>8. CASE Sleep
  BY <1>6, <1>8 DEF Sleep
<1>9. CASE Refused
  BY <1>5, <1>9 DEF Refused
<1>10. CASE Admit
  BY <1>1, <1>10, AdmitCount
<1>11. CASE Respond
  BY <1>1, <1>11, RespondCount
<1>12. CASE SealEpisode
  BY <1>1, <1>12, SealCount
<1>13. CASE Tick \/ Cancel \/ UNCHANGED vars
  <2>1. UNCHANGED <<budget, pc, callVars, calls, offset, manifests, sent>>
    BY <1>13 DEF Tick, Cancel, vars
  <2>2. CASE pc # "idle"
    <3>1. ChargeInv' /\ InFlight' = InFlight /\ PositionInv'
      BY <2>1 DEF CountInv, ChargeInv, InFlight, PositionInv, Calling, Completions, callVars
    <3> QED
      BY <1>1, <2>1, <2>2, <3>1, QuietCount
  <2>3. CASE pc = "idle"
    BY <1>1, <2>1, <2>3
       DEF CountInv, CursorInv, ChargeInv, RecordInv, PositionInv, Calling, ManifestsCountRequests
  <2> QED
    BY <2>2, <2>3
<1>14. QED
  BY <1>2, <1>3, <1>4, <1>7, <1>8, <1>9, <1>10, <1>11, <1>12, <1>13 DEF Next, ProcessStep

(* Every manifest counts the requests of its episode or continuation: the  *)
(* budget, the policies' records and the wire agree, the token totals are  *)
(* there exactly if every request told them, and plan_study's worst case   *)
(* is one, for every roster, number of rounds, repairs and retries         *)
(* (accounting.py:24-71, request_plan.py:30-31).                           *)
THEOREM ManifestsAlwaysCount == Spec => []ManifestsCountRequests
<1>1. Init => CountInv
  <2> SUFFICES ASSUME Init PROVE CountInv
    OBVIOUS
  <2>1. TypeOK /\ pc = "idle" /\ manifests = << >>
    BY InitialTypes DEF Init
  <2> QED
    BY <2>1 DEF CountInv, CursorInv, ChargeInv, RecordInv, PositionInv, Calling,
                ManifestsCountRequests
<1>2. CountInv => ManifestsCountRequests
  BY DEF CountInv
<1> QED
  BY <1>1, <1>2, CountStep, PTL DEF Spec
-----------------------------------------------------------------------------
(* Progress.  What is left of EveryEpisodeIsSealed without the fairness    *)
(* that the process takes its next step: retries, repairs, agents and      *)
(* rounds cannot follow each other for ever.                               *)

(* attempts of the plan that the position in the episode has used up *)
Spent == Completions * (RateLimitRetries + 1) + index

(* the most steps the process can still take before it is idle: an attempt *)
(* is a recheck, a delay, an admission and a request                       *)
Remaining ==
  CASE pc = "recheck" -> 4 * (MaxRequests - Spent) + 1
    [] pc = "sleep"   -> 4 * (MaxRequests - Spent)
    [] pc = "admit"   -> 4 * (MaxRequests - Spent) - 1
    [] pc = "send"    -> 4 * (MaxRequests - Spent) - 2
    [] pc = "seal"    -> 1
    [] OTHER          -> 0

(* A position of the episode leaves at least the attempt in progress. *)
SpentBound == Spent \in Nat /\ MaxRequests \in Nat /\ Spent + 1 <= MaxRequests

LEMMA SpentCounts == TypeOK => SpentBound
<1> SUFFICES ASSUME TypeOK PROVE SpentBound
  OBVIOUS
<1>1. RateLimitRetries \in Nat /\ index \in 0 .. RateLimitRetries
  BY RetryAssumption DEF TypeOK
<1> DEFINE reached == Completions * (RateLimitRetries + 1)
           next == (Completions + 1) * (RateLimitRetries + 1)
<1>2. /\ reached \in Nat /\ next = reached + RateLimitRetries + 1
      /\ next <= MaxRequests /\ MaxRequests \in Nat
  BY PositionBound
<1>3. Spent = reached + index
  BY DEF Spent
<1> HIDE DEF reached, next
<1>4. QED
  BY <1>1, <1>2, <1>3 DEF SpentBound

CompletionsCount == Completions \in Nat

LEMMA CompletionsCounted == TypeOK => CompletionsCount
BY PositionBound DEF CompletionsCount

(* A completion that is over has used up its attempts. *)
LEMMA SpentGrows ==
  ASSUME TypeOK, TypeOK', index' = 0, Completions' >= Completions + 1
  PROVE  Spent' >= Spent + 1
<1>1. RateLimitRetries \in Nat /\ index \in 0 .. RateLimitRetries
  BY RetryAssumption DEF TypeOK
<1>2. Completions \in Nat /\ Completions' \in Nat
  <2>1. CompletionsCount'
    BY CompletionsCounted, PTL
  <2>2. QED
    BY <2>1, CompletionsCounted DEF CompletionsCount
<1>3. PICK a \in Nat : a = Completions
  BY <1>2
<1>4. PICK b \in Nat : b = Completions'
  BY <1>2
<1>5. PICK c \in Nat : c = RateLimitRetries + 1
  BY <1>1
<1>6. /\ (a + 1) * c \in Nat /\ b * c \in Nat /\ (a + 1) * c <= b * c
  <2>1. a + 1 \in Nat /\ a + 1 <= b
    BY <1>3, <1>4
  <2>2. QED
    BY <2>1, TimesMonotone
<1>7. a * c \in Nat /\ (a + 1) * c = a * c + c
  OBVIOUS
<1>8. Spent = a * c + index /\ Spent' = b * c
  <2>1. Spent = a * c + index
    BY <1>3, <1>5 DEF Spent
  <2>2. Spent' = b * c + 0
    BY <1>4, <1>5 DEF Spent
  <2>3. QED
    BY <1>6, <2>1, <2>2
<1>9. QED
  BY <1>1, <1>5, <1>6, <1>7, <1>8

(* Something remains to be done until the episode is sealed. *)
RemainingBound ==
  Remaining \in Nat /\ (Remaining = 0 <=> pc = "idle") /\ (Calling => Remaining > 1)

LEMMA RemainingCounts == TypeOK => RemainingBound
<1> SUFFICES ASSUME TypeOK PROVE RemainingBound
  OBVIOUS
<1>1. /\ Spent \in Nat /\ MaxRequests \in Nat /\ Spent + 1 <= MaxRequests
      /\ pc \in {"idle", "admit", "recheck", "sleep", "send", "seal"}
  BY SpentCounts DEF SpentBound, TypeOK
<1>2. CASE pc = "idle" \/ pc = "seal"
  BY <1>2 DEF Remaining, RemainingBound, Calling
<1>3. CASE Calling
  <2>1. Remaining \in {4 * (MaxRequests - Spent) + 1, 4 * (MaxRequests - Spent),
                       4 * (MaxRequests - Spent) - 1, 4 * (MaxRequests - Spent) - 2}
    BY <1>3 DEF Remaining, Calling
  <2>2. QED
    BY <1>1, <1>3, <2>1 DEF Calling, RemainingBound
<1>4. QED
  BY <1>1, <1>2, <1>3 DEF Calling

LEMMA SpentUnchanged ==
  UNCHANGED callVars => Spent' = Spent
BY DEF callVars, Spent, Completions

(* An attempt further on is four steps less, whatever the phase. *)
LEMMA NextAttempt ==
  ASSUME NEW most \in Nat, NEW a \in Nat, NEW b \in Nat, b >= a + 1, b + 1 <= most
  PROVE  4 * (most - b) - 1 < 4 * (most - a) - 2
OBVIOUS

LEMMA EpisodeProgressStep ==
  ASSUME TypeOK, TypeOK', ProcessStep
  PROVE  Remaining' < Remaining
<1>1. /\ Spent \in Nat /\ MaxRequests \in Nat /\ Spent + 1 <= MaxRequests
      /\ Spent' \in Nat /\ Spent' + 1 <= MaxRequests
  <2>1. SpentBound
    BY SpentCounts
  <2>2. SpentBound'
    BY SpentCounts, PTL
  <2>3. MaxRequests' = MaxRequests
    BY DEF MaxRequests
  <2>4. QED
    BY <2>1, <2>2, <2>3 DEF SpentBound
<1>2. MaxRequests' = MaxRequests
  BY DEF MaxRequests
<1>3. ASSUME Calling, pc' = "seal" PROVE Remaining' < Remaining
  <2>1. Remaining' = 1
    BY <1>3 DEF Remaining
  <2>2. Remaining > 1
    BY <1>3, RemainingCounts DEF RemainingBound
  <2>3. QED
    BY <2>1, <2>2
<1>4. pc = "admit" => Remaining = 4 * (MaxRequests - Spent) - 1
  BY DEF Remaining
<1>5. pc = "send" => Remaining = 4 * (MaxRequests - Spent) - 2
  BY DEF Remaining
<1>6. pc' = "admit" => Remaining' = 4 * (MaxRequests - Spent') - 1
  BY <1>2 DEF Remaining
<1>7. pc' = "send" => Remaining' = 4 * (MaxRequests - Spent') - 2
  BY <1>2 DEF Remaining
<1>8. CASE ConfigurationChanged \/ PromptRefused \/ Refused
  <2>1. Calling /\ pc' = "seal"
    BY <1>8 DEF ConfigurationChanged, PromptRefused, Refused, Stop, EndEpisode, Calling
  <2>2. QED
    BY <1>3, <2>1
<1>9. CASE Recheck
  <2>1. pc = "recheck" /\ UNCHANGED callVars
    BY <1>9 DEF Recheck
  <2>2. CASE pc' = "sleep"
    <3>1. Remaining = 4 * (MaxRequests - Spent) + 1
      BY <2>1 DEF Remaining
    <3>2. Remaining' = 4 * (MaxRequests - Spent')
      BY <1>2, <2>2 DEF Remaining
    <3>3. Spent' = Spent
      BY <2>1, SpentUnchanged
    <3>4. QED
      BY <1>1, <3>1, <3>2, <3>3
  <2>3. CASE pc' = "seal"
    BY <1>3, <2>1, <2>3 DEF Calling
  <2>4. QED
    BY <1>9, <2>2, <2>3 DEF Recheck, Stop, EndEpisode
<1>10. CASE Sleep
  <2>1. pc = "sleep" /\ pc' = "admit" /\ Spent' = Spent
    BY <1>10, SpentUnchanged DEF Sleep
  <2>2. Remaining = 4 * (MaxRequests - Spent)
    BY <2>1 DEF Remaining
  <2>3. QED
    BY <1>1, <1>6, <2>1, <2>2
<1>11. CASE Admit
  <2>1. pc = "admit" /\ pc' = "send" /\ Spent' = Spent
    BY <1>11, SpentUnchanged DEF Admit
  <2>2. QED
    BY <1>1, <1>4, <1>7, <2>1
<1>12. CASE RateLimited
  <2>1. /\ pc = "send" /\ pc' = "recheck" /\ index' = index + 1
        /\ UNCHANGED <<turn, round, repair>>
    BY <1>12 DEF RateLimited
  <2>2. Spent' = Spent + 1
    <3>1. Completions' = Completions
      BY <2>1 DEF Completions
    <3>2. PICK reached \in Nat : reached = Completions * (RateLimitRetries + 1)
      BY PositionBound
    <3>3. index \in Nat
      BY RetryAssumption DEF TypeOK
    <3>4. Spent = reached + index /\ Spent' = reached + index'
      BY <3>1, <3>2 DEF Spent
    <3>5. QED
      BY <2>1, <3>3, <3>4
  <2>3. Remaining' = 4 * (MaxRequests - Spent') + 1
    BY <1>2, <2>1 DEF Remaining
  <2>4. QED
    BY <1>1, <1>5, <2>1, <2>2, <2>3
<1>13. ASSUME pc = "send", pc' = "admit", index' = 0, Completions' >= Completions + 1
       PROVE  Remaining' < Remaining
  <2>1. Spent' >= Spent + 1
    BY <1>13, SpentGrows
  <2>2. /\ Remaining = 4 * (MaxRequests - Spent) - 2
        /\ Remaining' = 4 * (MaxRequests - Spent') - 1
    BY <1>5, <1>6, <1>13
  <2>3. PICK a \in Nat : a = Spent
    BY <1>1
  <2>4. PICK b \in Nat : b = Spent'
    BY <1>1
  <2>5. MaxRequests \in Nat /\ b >= a + 1 /\ b + 1 <= MaxRequests
    BY <1>1, <2>1, <2>3, <2>4
  <2>6. Remaining = 4 * (MaxRequests - a) - 2 /\ Remaining' = 4 * (MaxRequests - b) - 1
    BY <2>2, <2>3, <2>4
  <2>7. QED
    BY <2>5, <2>6, NextAttempt
<1>14. ASSUME pc = "send", NextTurn, index' = 0, repair' = 0
       PROVE  Remaining' < Remaining
  <2>1. CASE pc' = "seal"
    BY <1>3, <1>14, <2>1 DEF Calling
  <2>2. CASE pc' = "admit"
    <3>1. Completions' \in Nat /\ Completions \in Nat /\ Completions + 1 <= Completions'
      BY <1>14, <2>2, NextPosition
    <3>2. QED
      BY <1>13, <1>14, <2>2, <3>1
  <2>3. QED
    BY <1>14, <2>1, <2>2 DEF NextTurn, EndEpisode
<1>15. ASSUME NEW measured \in Usages, RequestFails(measured) PROVE Remaining' < Remaining
  BY <1>3, <1>15 DEF RequestFails, EndEpisode, Calling
<1>16. ASSUME NEW measured \in Usages, Completes(measured) PROVE Remaining' < Remaining
  BY <1>14, <1>16 DEF Completes
<1>17. ASSUME NEW measured \in Usages, NeedsRepair(measured) PROVE Remaining' < Remaining
  <2>1. pc = "send" /\ index' = 0
    BY <1>17 DEF NeedsRepair
  <2>2. CASE repair' = repair + 1 /\ pc' = "admit" /\ UNCHANGED <<turn, round>>
    <3>1. repair \in Nat
      BY RetryAssumption DEF TypeOK
    <3>2. Completions \in Nat
      BY PositionBound
    <3>3. PICK slots : slots = (round * NumAgents + turn - 1) * (MaxRetries + 1)
      OBVIOUS
    <3>4. slots \in Nat
      <4>1. /\ round \in Nat /\ NumAgents \in Nat /\ turn \in Nat \ {0}
            /\ MaxRetries \in Nat
        BY RosterAssumption, RetryAssumption DEF TypeOK, Agents
      <4>2. round * NumAgents \in Nat
        BY <4>1
      <4>3. PICK slot \in Nat : slot = round * NumAgents + turn - 1
        BY <4>1, <4>2
      <4>4. slot * (MaxRetries + 1) \in Nat
        BY <4>1
      <4>5. QED
        BY <3>3, <4>3, <4>4
    <3>5. Completions = slots + repair /\ Completions' = slots + repair'
      BY <2>2, <3>3 DEF Completions
    <3>6. Completions' >= Completions + 1
      BY <2>2, <3>1, <3>4, <3>5
    <3>7. QED
      BY <1>13, <2>1, <2>2, <3>6
  <2>3. CASE repair' = 0 /\ NextTurn
    BY <1>14, <2>1, <2>3
  <2>4. QED
    BY <1>17, <2>2, <2>3 DEF NeedsRepair
<1>18. CASE SealEpisode
  <2>1. Remaining = 1 /\ Remaining' = 0
    BY <1>18 DEF SealEpisode, Remaining
  <2>2. QED
    BY <2>1
<1>19. QED
  BY <1>8, <1>9, <1>10, <1>11, <1>12, <1>15, <1>16, <1>17, <1>18 DEF ProcessStep, Respond

(* A step of the process leaves less of the episode, the clock and the     *)
(* user leave as much, and only Begin starts another.                      *)
EpisodesRunDown ==
  [][/\ ProcessStep => Remaining' < Remaining
     /\ (Tick \/ Cancel) => Remaining' = Remaining
     /\ Begin => (Remaining = 0 /\ Remaining' < 4 * MaxRequests)]_vars

LEMMA BeginIsBounded ==
  ASSUME TypeOK, TypeOK', Begin
  PROVE  Remaining = 0 /\ Remaining' < 4 * MaxRequests
<1>1. /\ pc = "idle" /\ pc' = "admit" /\ turn' = 1 /\ round' = 0 /\ repair' = 0
      /\ index' = 0
  BY DEF Begin, BeginWith
<1>2. Spent' = 0
  <2>1. /\ NumAgents \in Nat /\ MaxRetries \in Nat /\ RateLimitRetries \in Nat
    BY RosterAssumption, RetryAssumption
  <2>2. 0 * NumAgents + 1 - 1 = 0
    BY <2>1
  <2>3. Completions' = 0 * (MaxRetries + 1) + 0
    BY <1>1, <2>2 DEF Completions
  <2>4. Completions' = 0
    BY <2>1, <2>3
  <2>5. Spent' = 0 * (RateLimitRetries + 1) + 0
    BY <1>1, <2>4 DEF Spent
  <2>6. QED
    BY <2>1, <2>5
<1>3. MaxRequests \in Nat /\ MaxRequests' = MaxRequests
  BY SpentCounts DEF SpentBound, MaxRequests
<1>4. Remaining = 0 /\ Remaining' = 4 * (MaxRequests - 0) - 1
  BY <1>1, <1>2, <1>3 DEF Remaining
<1>5. QED
  BY <1>3, <1>4

(* No schedule of rate limits, repairs, failures and refusals keeps an     *)
(* episode going: between Begin and the seal the process takes at most     *)
(* four steps for each request plan_study announced, and while a step is   *)
(* left it has not sealed (policy.py:159-163, openai_compatible.py:113-156). *)
THEOREM EpisodesAlwaysRunDown ==
  Spec => [](Remaining \in Nat /\ (Remaining = 0 <=> pc = "idle")) /\ EpisodesRunDown
<1>1. TypeOK => Remaining \in Nat /\ (Remaining = 0 <=> pc = "idle")
  BY RemainingCounts DEF RemainingBound
<1>2. TypeOK /\ [Next]_vars =>
        [/\ ProcessStep => Remaining' < Remaining
         /\ (Tick \/ Cancel) => Remaining' = Remaining
         /\ Begin => (Remaining = 0 /\ Remaining' < 4 * MaxRequests)]_vars
  <2> SUFFICES ASSUME TypeOK, [Next]_vars
               PROVE  /\ ProcessStep => Remaining' < Remaining
                      /\ (Tick \/ Cancel) => Remaining' = Remaining
                      /\ Begin => (Remaining = 0 /\ Remaining' < 4 * MaxRequests)
    OBVIOUS
  <2>1. TypeOK'
    BY TypeStep
  <2>2. ASSUME Tick \/ Cancel PROVE Remaining' = Remaining
    <3>1. UNCHANGED callVars /\ UNCHANGED pc
      BY <2>2 DEF Tick, Cancel
    <3>2. Spent' = Spent
      BY <3>1, SpentUnchanged
    <3>3. QED
      BY <3>1, <3>2 DEF Remaining, MaxRequests
  <2>3. QED
    BY <2>1, <2>2, EpisodeProgressStep, BeginIsBounded
<1>3. QED
  BY <1>1, <1>2, InitialTypes, TypeStep, PTL DEF Spec, EpisodesRunDown
=============================================================================
