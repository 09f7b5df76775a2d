--------------------------- MODULE ProviderRequests ---------------------------
(***************************************************************************)
(* The requests of network-backed policies and the one RequestBudget they  *)
(* share (agents/llm/budget.py, openai_compatible.py, policy.py), over a   *)
(* sequence of episodes and continuations of one process, and the manifest *)
(* of each (accounting.py, study.py).                                      *)
(*                                                                         *)
(* Scripted agents send nothing and are left out: the roster is the        *)
(* network-backed agents, in sorted order.  Time, the server and the       *)
(* cancelled() callable are the environment: time passes between any two   *)
(* steps, and a cancellation is not taken back.  A killed process is a     *)
(* behaviour that stops: the manifests stay as they are.                   *)
(***************************************************************************)
EXTENDS Naturals, Sequences, FiniteSets

CONSTANTS
  NumAgents,         \* network-backed agents, in sorted order
  Rounds,            \* rounds of an episode
  MaxRetries,        \* max_retries: action-repair completions per proposal
  RateLimitRetries,  \* rate_limit_retries: HTTP 429 retries per completion
  RetryDelay,        \* retry_delay_seconds
  Usages,            \* what a response may say of its tokens
  Limits,            \* records [episode, run, deadline] of a RequestBudget
  MaxEpisodes,       \* bound: episodes and continuations of the process
  MaxNow,            \* bound: the clock stops here, at or after any deadline
  None               \* a Python None: no limit, no reason

Agents == 1 .. NumAgents

(* stable codes of a refusal *)
Codes == {"cancelled", "deadline_exceeded", "request_attempt_limit_run",
          "request_attempt_limit_episode"}

ASSUME RosterAssumption == NumAgents \in Nat \ {0} /\ Rounds \in Nat \ {0}
ASSUME RetryAssumption ==
  MaxRetries \in Nat /\ RateLimitRetries \in Nat /\ RetryDelay \in Nat
ASSUME UsageAssumption == Usages \subseteq {"measured", "unmeasured"}
ASSUME BoundAssumption == MaxEpisodes \in Nat /\ MaxNow \in Nat
ASSUME LimitAssumption ==
  /\ None \notin Nat \cup Codes
  /\ Limits \subseteq [episode : Nat \cup {None}, run : Nat \cup {None},
                       deadline : (0 .. MaxNow) \cup {None}]

VARIABLES
  limits,     \* settings of the budget
  budget,     \* its counters, scope mark and stop reason
  now,        \* the monotonic clock, from construction of the budget
  cancelled,  \* what cancelled() answers
  pc,         \* the step of propose / complete to execute next
  turn,       \* agent asked for its proposal
  round,      \* round of the episode
  repair,     \* attempt index of LLMPolicy.propose
  index,      \* attempt index of complete (HTTP 429 retries)
  attempts,   \* attempts of the completion in progress
  calls,      \* per agent: the attempts of each completion it asked for
  offset,     \* per agent: calls made before this episode or continuation
  ended,      \* how the episode ended, or None
  manifests,  \* the manifests of the process, oldest first
  sent        \* history: requests on the wire

callVars == <<turn, round, repair, index, attempts>>
vars == <<limits, budget, now, cancelled, pc, callVars, calls, offset, ended,
          manifests, sent>>

-----------------------------------------------------------------------------
(* RequestBudget *)

Admitted == [episode |-> budget.episode, run |-> budget.run]

BegunKeepingStop(scope) ==
  [episode |-> IF scope = "episode" THEN 0 ELSE budget.episode,
   run |-> budget.run, scope |-> scope, stop |-> budget.stop,
   before |-> [Admitted EXCEPT !.episode = IF scope = "episode" THEN 0 ELSE @]]

(* begin: an episode resets the episode counter, a continuation nothing *)
Begun(scope) ==
  [episode |-> IF scope = "episode" THEN 0 ELSE budget.episode,
   run |-> budget.run, scope |-> scope, stop |-> None,
   before |-> [Admitted EXCEPT !.episode = IF scope = "episode" THEN 0 ELSE @]]

Reached(limit, count) == limit # None /\ count >= limit

RefusalOneLate(after) ==
  IF cancelled THEN "cancelled"
  ELSE IF Reached(limits.deadline, now + after) THEN "deadline_exceeded"
  ELSE IF limits.run # None /\ budget.run > limits.run THEN "request_attempt_limit_run"
  ELSE IF limits.episode # None /\ budget.episode > limits.episode
    THEN "request_attempt_limit_episode"
  ELSE None

RefusalForgettingRun(after) ==
  IF cancelled THEN "cancelled"
  ELSE IF Reached(limits.deadline, now + after) THEN "deadline_exceeded"
  ELSE IF Reached(limits.run, budget.episode) THEN "request_attempt_limit_run"
  ELSE IF Reached(limits.episode, budget.episode) THEN "request_attempt_limit_episode"
  ELSE None

Refusal(after) ==
  IF cancelled THEN "cancelled"
  ELSE IF Reached(limits.deadline, now + after) THEN "deadline_exceeded"
  ELSE IF Reached(limits.run, budget.run) THEN "request_attempt_limit_run"
  ELSE IF Reached(limits.episode, budget.episode) THEN "request_attempt_limit_episode"
  ELSE None

-----------------------------------------------------------------------------
(* Usage since the cursor, and the manifest record of it *)

NewCalls(i) == offset[i] + 1 .. Len(calls[i])

AllAttempts ==
  UNION {UNION {{<<i, k, n>> : n \in DOMAIN calls[i][k]} : k \in DOMAIN calls[i]} : i \in Agents}
AttemptsSince == {a \in AllAttempts : a[2] \in NewCalls(a[1])}
MeasuredIn(A) == {a \in A : calls[a[1]][a[2]][a[3]] = "measured"}

(* llm_manifest_fields: a token total exists only if every attempt has one *)
ManifestOverAllCalls(status, reason) ==
  [scope |-> budget.scope, status |-> status, reason |-> reason,
   before |-> budget.before, admitted |-> Admitted, stop_reason |-> budget.stop,
   request_attempts |-> Cardinality(AllAttempts),
   tokens_known |-> AllAttempts # {} /\ MeasuredIn(AllAttempts) = AllAttempts]

Manifest(status, reason) ==
  [scope |-> budget.scope, status |-> status, reason |-> reason,
   before |-> budget.before, admitted |-> Admitted, stop_reason |-> budget.stop,
   request_attempts |-> Cardinality(AttemptsSince),
   tokens_known |-> AttemptsSince # {} /\ MeasuredIn(AttemptsSince) = AttemptsSince]

StartManifest(scope) ==
  LET b == Begun(scope) IN
  [scope |-> scope, status |-> "running", reason |-> None,
   before |-> b.before, admitted |-> [episode |-> b.episode, run |-> b.run],
   stop_reason |-> None, request_attempts |-> 0, tokens_known |-> FALSE]

-----------------------------------------------------------------------------
NothingSent == [total |-> 0, episode |-> 0, here |-> 0, measured |-> 0]

Init ==
  /\ limits \in Limits
  /\ budget = [episode |-> 0, run |-> 0, scope |-> "episode", stop |-> None,
               before |-> [episode |-> 0, run |-> 0]]
  /\ now = 0 /\ cancelled = FALSE
  /\ pc = "idle" /\ turn = 1 /\ round = 0 /\ repair = 0 /\ index = 0 /\ attempts = << >>
  /\ calls = [i \in Agents |-> << >>] /\ offset = [i \in Agents |-> 0]
  /\ ended = None /\ manifests = << >> /\ sent = NothingSent

(* The next episode of run_study builds its policies anew and writes its   *)
(* manifest before the first round.  A continuation may use policies of    *)
(* the parent again, and writes its manifest only at the end.              *)
BeginWith(scope, fresh) ==
  /\ pc = "idle" /\ Len(manifests) < MaxEpisodes
  /\ scope = "episode" => fresh = Agents
  /\ budget' = Begun(scope)
  /\ calls' = [i \in Agents |-> IF i \in fresh THEN << >> ELSE calls[i]]
  /\ offset' = [i \in Agents |-> Len(calls'[i])]
  /\ manifests' = IF scope = "episode" THEN Append(manifests, StartManifest(scope))
                                       ELSE manifests
  /\ sent' = [sent EXCEPT !.here = 0, !.measured = 0,
                          !.episode = IF scope = "episode" THEN 0 ELSE @]
  /\ pc' = "admit" /\ turn' = 1 /\ round' = 0 /\ repair' = 0 /\ index' = 0
  /\ attempts' = << >> /\ ended' = None
  /\ UNCHANGED <<limits, now, cancelled>>

Begin ==
  \E scope \in {"episode", "continuation"}, fresh \in SUBSET Agents : BeginWith(scope, fresh)

-----------------------------------------------------------------------------
(* The end of a completion *)

(* propose: _calls.append, whether the provider returned or raised *)
Recorded(list) == calls' = [calls EXCEPT ![turn] = Append(@, list)]

(* the runner seals RunFailed at the first policy that raises *)
EndEpisode(how) == pc' = "seal" /\ ended' = how

(* The policy returns a proposal, and the runner goes on to the next agent *)
(* or round, or rejects it and fails.                                      *)
NextTurn ==
  \/ /\ EndEpisode("invalid_action") /\ UNCHANGED <<turn, round>>
  \/ /\ turn < NumAgents
     /\ turn' = turn + 1 /\ pc' = "admit" /\ UNCHANGED <<round, ended>>
  \/ /\ turn = NumAgents /\ round + 1 < Rounds
     /\ turn' = 1 /\ round' = round + 1 /\ pc' = "admit" /\ UNCHANGED ended
  \/ /\ turn = NumAgents /\ round + 1 = Rounds
     /\ EndEpisode("completed") /\ UNCHANGED <<turn, round>>

(* _check_provider_configuration, before the loop of propose: not a call *)
ConfigurationChanged ==
  /\ pc = "admit" /\ index = 0 /\ repair = 0
  /\ EndEpisode("provider_error")
  /\ UNCHANGED <<limits, budget, now, cancelled, callVars, calls, offset, manifests, sent>>

(* complete refuses the prompt: a call with no attempt *)
PromptRefused ==
  /\ pc = "admit" /\ index = 0
  /\ Recorded(<< >>) /\ EndEpisode("provider_error")
  /\ UNCHANGED <<limits, budget, now, cancelled, callVars, offset, manifests, sent>>

-----------------------------------------------------------------------------
(* One attempt of complete *)

Stop(code) ==
  /\ code # None
  /\ budget' = [budget EXCEPT !.stop = code]
  /\ Recorded(attempts) /\ EndEpisode(code)

(* check before the 429 delay: never sleep toward a refusal *)
Recheck ==
  /\ pc = "recheck"
  /\ \/ /\ Refusal(RetryDelay) = None
        /\ pc' = "sleep" /\ UNCHANGED <<budget, calls, ended>>
     \/ Stop(Refusal(RetryDelay))
  /\ UNCHANGED <<limits, now, cancelled, callVars, offset, manifests, sent>>

(* time.sleep; the clock stops at MaxNow, past every deadline *)
Sleep ==
  /\ pc = "sleep" /\ pc' = "admit"
  /\ now' = IF now + RetryDelay > MaxNow THEN MaxNow ELSE now + RetryDelay
  /\ UNCHANGED <<limits, budget, cancelled, callVars, calls, offset, ended, manifests, sent>>

RefusedIsRetried ==
  /\ pc = "admit" /\ Refusal(0) # None
  /\ budget' = [budget EXCEPT !.stop = Refusal(0)]
  /\ UNCHANGED <<limits, now, cancelled, pc, callVars, calls, offset, ended, manifests, sent>>

Refused ==
  /\ pc = "admit" /\ Stop(Refusal(0))
  /\ UNCHANGED <<limits, now, cancelled, callVars, offset, manifests, sent>>

(* admit charges the attempt before it is sent *)
Admit ==
  /\ pc = "admit" /\ Refusal(0) = None
  /\ budget' = [budget EXCEPT !.episode = @ + 1, !.run = @ + 1]
  /\ pc' = "send"
  /\ UNCHANGED <<limits, now, cancelled, callVars, calls, offset, ended, manifests, sent>>

Wire(measured) ==
  sent' = [sent EXCEPT !.total = @ + 1, !.episode = @ + 1, !.here = @ + 1,
                       !.measured = IF measured = "measured" THEN @ + 1 ELSE @]

RateLimitedOnceMore ==
  /\ pc = "send" /\ index <= RateLimitRetries
  /\ Wire("unmeasured")
  /\ attempts' = Append(attempts, "unmeasured")
  /\ index' = index + 1 /\ pc' = "recheck"
  /\ UNCHANGED <<limits, budget, now, cancelled, turn, round, repair, calls, offset,
                 ended, manifests>>

(* HTTP 429 with a retry left *)
RateLimited ==
  /\ pc = "send" /\ index < RateLimitRetries
  /\ Wire("unmeasured")
  /\ attempts' = Append(attempts, "unmeasured")
  /\ index' = index + 1 /\ pc' = "recheck"
  /\ UNCHANGED <<limits, budget, now, cancelled, turn, round, repair, calls, offset,
                 ended, manifests>>

(* Every other failure: HTTP error, the last 429, timeout, transport error, *)
(* a response too large or that _decode refuses (which may carry usage).    *)
RequestFails(measured) ==
  /\ pc = "send"
  /\ Wire(measured)
  /\ Recorded(Append(attempts, measured)) /\ EndEpisode("provider_error")
  /\ UNCHANGED <<limits, budget, now, cancelled, callVars, offset, manifests>>

(* A completion whose text _parse accepts *)
Completes(measured) ==
  /\ pc = "send"
  /\ Wire(measured) /\ Recorded(Append(attempts, measured))
  /\ NextTurn
  /\ repair' = 0 /\ index' = 0 /\ attempts' = << >>
  /\ UNCHANGED <<limits, budget, now, cancelled, offset, manifests>>

(* ... or does not: ask for a repair, or propose to abstain *)
NeedsRepair(measured) ==
  /\ pc = "send"
  /\ Wire(measured) /\ Recorded(Append(attempts, measured))
  /\ \/ /\ repair < MaxRetries
        /\ repair' = repair + 1 /\ pc' = "admit" /\ UNCHANGED <<turn, round, ended>>
     \/ /\ repair = MaxRetries
        /\ repair' = 0 /\ NextTurn
  /\ index' = 0 /\ attempts' = << >>
  /\ UNCHANGED <<limits, budget, now, cancelled, offset, manifests>>

-----------------------------------------------------------------------------
Status == IF ended = "completed" THEN "completed" ELSE "failed"

(* run_episode returned: the final manifest replaces the start manifest *)
SealEpisode ==
  /\ pc = "seal"
  /\ manifests' =
       IF budget.scope = "episode"
         THEN [manifests EXCEPT ![Len(manifests)] = Manifest(Status, ended)]
         ELSE Append(manifests, Manifest(Status, ended))
  /\ pc' = "idle"
  /\ UNCHANGED <<limits, budget, now, cancelled, callVars, calls, offset, ended, sent>>

Tick ==
  /\ now < MaxNow /\ now' = now + 1
  /\ UNCHANGED <<limits, budget, cancelled, pc, callVars, calls, offset, ended,
                 manifests, sent>>

Cancel ==
  /\ ~ cancelled /\ cancelled' = TRUE
  /\ UNCHANGED <<limits, budget, now, pc, callVars, calls, offset, ended,
                 manifests, sent>>

Respond ==
  \/ RateLimited
  \/ \E measured \in Usages :
       RequestFails(measured) \/ Completes(measured) \/ NeedsRepair(measured)

ProcessStep ==
  \/ ConfigurationChanged \/ PromptRefused \/ Recheck \/ Sleep \/ Refused \/ Admit
  \/ Respond \/ SealEpisode

Next == Begin \/ ProcessStep \/ Tick \/ Cancel

Spec == Init /\ [][Next]_vars

(* One thread, and a socket timeout ends every request that is in flight. *)
FairSpec == Spec /\ WF_vars(ProcessStep)

-----------------------------------------------------------------------------
(* Properties *)

Attempt == {"measured", "unmeasured"}
Endings == Codes \cup {"provider_error", "invalid_action", "completed"}
Counters == [episode : Nat, run : Nat]
ManifestRecords ==
  [scope : {"episode", "continuation"}, status : {"running", "completed", "failed"},
   reason : Endings \cup {None}, before : Counters, admitted : Counters,
   stop_reason : Codes \cup {None}, request_attempts : Nat, tokens_known : BOOLEAN]

(* The attempt indices never leave the configured retries (complete would  *)
(* run off its loop into the AssertionError of openai_compatible.py:156).  *)
TypeOK ==
  /\ limits \in Limits
  /\ budget \in [episode : Nat, run : Nat, scope : {"episode", "continuation"},
                 stop : Codes \cup {None}, before : Counters]
  /\ now \in 0 .. MaxNow /\ cancelled \in BOOLEAN
  /\ pc \in {"idle", "admit", "recheck", "sleep", "send", "seal"}
  /\ turn \in Agents /\ round \in 0 .. Rounds - 1
  /\ repair \in 0 .. MaxRetries /\ index \in 0 .. RateLimitRetries
  /\ attempts \in Seq(Attempt)
  /\ calls \in [Agents -> Seq(Seq(Attempt))] /\ offset \in [Agents -> Nat]
  /\ ended \in Endings \cup {None}
  /\ manifests \in Seq(ManifestRecords)
  /\ sent \in [total : Nat, episode : Nat, here : Nat, measured : Nat]

WithinLimit(count, limit) == limit # None => count <= limit

(* What is on the wire never exceeds a limit: per episode with all its     *)
(* continuations, and over the life of the budget; retries, repairs and    *)
(* failed requests included (budget.py:82-105).                            *)
WireWithinLimits ==
  WithinLimit(sent.episode, limits.episode) /\ WithinLimit(sent.total, limits.run)

(* Every request on the wire was charged to both counters exactly once,    *)
(* whatever begin, retry or continuation came in between; at most the one  *)
(* about to be sent is charged in advance (budget.py:69-93).               *)
EveryRequestIsCharged ==
  LET ahead == IF pc = "send" THEN 1 ELSE 0 IN
  budget.episode = sent.episode + ahead /\ budget.run = sent.total + ahead

(* _agent_plan's worst case for one episode *)
MaxRequests == NumAgents * Rounds * (MaxRetries + 1) * (RateLimitRetries + 1)

(* Three independent accounts of an episode agree when it is sealed: the   *)
(* budget's counters, the attempts the policies recorded since the cursor, *)
(* and the wire.  Token totals exist only if every request reported usage. *)
(* And no mix of rate limiting, repairs and agents sends more than         *)
(* plan_study announced (request_plan.py:30-31, accounting.py:24-71).      *)
ManifestsCountRequests ==
  pc = "idle" /\ manifests # << >> =>
    LET last == manifests[Len(manifests)] IN
    /\ last.admitted.run - last.before.run = sent.here
    /\ last.admitted.episode - last.before.episode = sent.here
    /\ last.request_attempts = sent.here
    /\ last.tokens_known <=> (sent.here > 0 /\ sent.measured = sent.here)
    /\ sent.here <= MaxRequests

(* The stop reason of a manifest agrees with the seal of its run: analysis *)
(* excludes an episode as invalid if it does not (analysis.py:93-97).      *)
StopReasonMatchesSeal ==
  \A k \in DOMAIN manifests :
    manifests[k].stop_reason =
      IF manifests[k].reason \in Codes THEN manifests[k].reason ELSE None

(* After a stop at the run limit every later episode or continuation of    *)
(* the budget sends nothing at all.                                        *)
RunLimitStopIsFinal ==
  \A j, k \in DOMAIN manifests :
    j < k /\ manifests[j].stop_reason = "request_attempt_limit_run" =>
      manifests[k].admitted.run = manifests[j].admitted.run

(* Every episode is sealed, also when the budget refuses a request: the    *)
(* refusal is not retried and nothing waits for it.                        *)
EveryEpisodeIsSealed == pc = "admit" ~> pc = "idle"
=============================================================================
