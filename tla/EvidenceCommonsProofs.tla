------------------------ MODULE EvidenceCommonsProofs ------------------------
(***************************************************************************)
(* What the Evidence Commons adjudicates, for every world, roster, budget, *)
(* audit schedule and number of rounds, and whatever the agents do.        *)
(*                                                                         *)
(* The argument is per claim: what is recorded about a claim stays true of *)
(* it (FairRecord), because access to evidence is only ever gained.  That  *)
(* a briefing accepts it then gives a supporting agent, and its author is  *)
(* none.                                                                   *)
(*                                                                         *)
(* CommonsSpec is play without the bounds of the free play that TLC runs.  *)
(* What scripted policies do is such play (PoliciesPlayTheMechanism),      *)
(* because what they choose on the opening state is legal there.  So       *)
(* whatever holds of CommonsSpec holds of PlaySpec.                        *)
(*                                                                         *)
(* Accountability enters no action: CommonsSpec implies itself under the   *)
(* other accountability (Conversely), and of what is paid at the end only  *)
(* the shares differ.                                                      *)
(***************************************************************************)
EXTENDS CommonsPolicies, FiniteSetTheorems, SequenceTheorems, WellFoundedInduction, TLAPS

(* What is known of a claim in every state in which access holds *)
FairRecord(c, access) ==
  /\ Distinct(c.verifications) /\ Distinct(c.challenges)
  /\ c.proposer \notin Verifiers(c)
  /\ \A n \in DOMAIN c.verifications :
       c.verifications[n].supported => Supported(access, c.verifications[n].agent, c)

CommonsInv == TypeOK /\ \A k \in DOMAIN claims : FairRecord(claims[k], visible)

-----------------------------------------------------------------------------
(* One claim *)

(* Access is only gained, so a record once right stays right. *)
LEMMA RecordStaysFair ==
  ASSUME NEW c \in Claims, NEW access \in [Evidence -> SUBSET Agents],
         NEW more \in [Evidence -> SUBSET Agents],
         \A e \in Evidence : access[e] \subseteq more[e],
         FairRecord(c, access)
  PROVE  FairRecord(c, more)
<1>1. c.cited \subseteq Evidence
  BY DEF Claims
<1>2. ASSUME NEW a, Supported(access, a, c) PROVE Supported(more, a, c)
  BY <1>1, <1>2 DEF Supported
<1> QED
  BY <1>2 DEF FairRecord

LEMMA NewClaimIsFair ==
  ASSUME NEW s \in Slots, NEW p \in Propositions, NEW a \in Agents, NEW cited \in SUBSET Evidence,
         NEW access,
         NEW c, c = [slot |-> s, proposition |-> p, proposer |-> a, cited |-> cited,
                     verifications |-> << >>, challenges |-> << >>]
  PROVE  c \in Claims /\ FairRecord(c, access)
<1>1. << >> \in Seq([agent : Agents, supported : BOOLEAN])
      /\ << >> \in Seq([agent : Agents, valid : BOOLEAN])
  BY EmptySeq
<1>2. c \in Claims
  BY <1>1 DEF Claims
<1>3. c.verifications = << >> /\ c.challenges = << >> /\ DOMAIN << >> = {}
  BY EmptySeq
<1> QED
  BY <1>2, <1>3 DEF FairRecord, Distinct, Verifiers

(* A list in which the newcomer does not occur yet stays without repeats. *)
LEMMA DistinctAppend ==
  ASSUME NEW S, NEW list \in Seq(S), NEW x \in S, Distinct(list),
         \A n \in DOMAIN list : list[n].agent # x.agent
  PROVE  Distinct(Append(list, x))
<1>1. /\ Append(list, x) \in Seq(S) /\ Len(Append(list, x)) = Len(list) + 1
      /\ \A n \in 1 .. Len(list) : Append(list, x)[n] = list[n]
      /\ Append(list, x)[Len(list) + 1] = x
  BY AppendProperties
<1>2. Len(list) \in Nat /\ DOMAIN list = 1 .. Len(list)
      /\ DOMAIN Append(list, x) = 1 .. Len(list) + 1
  BY <1>1, LenProperties
<1> QED
  BY <1>1, <1>2 DEF Distinct

LEMMA VerifiedClaimIsFair ==
  ASSUME NEW c \in Claims, NEW access \in [Evidence -> SUBSET Agents], FairRecord(c, access),
         NEW a \in Agents, c.proposer # a, a \notin Verifiers(c),
         NEW d, d = [c EXCEPT !.verifications =
                       Append(@, [agent |-> a, supported |-> Supported(access, a, c)])]
  PROVE  d \in Claims /\ FairRecord(d, access)
<1> DEFINE V == [agent : Agents, supported : BOOLEAN]
           v == [agent |-> a, supported |-> Supported(access, a, c)]
           list == c.verifications
<1>1. list \in Seq(V) /\ v \in V
  <2>1. Supported(access, a, c) \in BOOLEAN
    BY DEF Supported
  <2> QED
    BY <2>1 DEF Claims
<1>2. /\ Append(list, v) \in Seq(V) /\ Len(Append(list, v)) = Len(list) + 1
      /\ \A n \in 1 .. Len(list) : Append(list, v)[n] = list[n]
      /\ Append(list, v)[Len(list) + 1] = v
  BY <1>1, AppendProperties
<1>3. Len(list) \in Nat /\ DOMAIN list = 1 .. Len(list)
      /\ DOMAIN Append(list, v) = 1 .. Len(list) + 1
  BY <1>1, <1>2, LenProperties
<1>4. d \in Claims
  BY <1>2 DEF Claims
<1>5. d.verifications = Append(list, v) /\ d.challenges = c.challenges
      /\ d.proposer = c.proposer /\ d.cited = c.cited /\ d.slot = c.slot
      /\ d.proposition = c.proposition
  BY DEF Claims
<1>6. Distinct(d.verifications)
  <2>1. \A n \in DOMAIN list : list[n].agent # v.agent
    BY DEF Verifiers
  <2>2. Distinct(list)
    BY DEF FairRecord
  <2>3. Distinct(Append(list, v))
    <3> HIDE DEF list, v, V
    <3> QED
      BY <1>1, <2>1, <2>2, DistinctAppend
  <2> QED
    BY <1>5, <2>3
<1>7. d.proposer \notin Verifiers(d)
  BY <1>2, <1>3, <1>5 DEF FairRecord, Verifiers
<1>8. \A b : Supported(access, b, d) <=> Supported(access, b, c)
  BY <1>5 DEF Supported, Bears
<1>9. ASSUME NEW n \in DOMAIN d.verifications, d.verifications[n].supported
      PROVE  Supported(access, d.verifications[n].agent, d)
  <2>1. CASE n \in 1 .. Len(list)
    <3>1. d.verifications[n] = list[n]
      BY <1>2, <1>5, <2>1
    <3>2. Supported(access, list[n].agent, c)
      BY <1>3, <1>9, <2>1, <3>1 DEF FairRecord
    <3> QED
      BY <1>8, <3>1, <3>2
  <2>2. CASE n = Len(list) + 1
    <3>1. d.verifications[n] = v
      BY <1>2, <1>5, <2>2
    <3>2. v.supported = Supported(access, a, c) /\ v.agent = a
      OBVIOUS
    <3> QED
      BY <1>8, <1>9, <3>1, <3>2
  <2> QED
    BY <1>3, <1>5, <2>1, <2>2
<1> QED
  BY <1>4, <1>5, <1>6, <1>7, <1>9 DEF FairRecord

LEMMA ChallengedClaimIsFair ==
  ASSUME NEW c \in Claims, NEW access \in [Evidence -> SUBSET Agents], FairRecord(c, access),
         NEW a \in Agents, a \notin Challengers(c), NEW valid \in BOOLEAN,
         NEW d, d = [c EXCEPT !.challenges = Append(@, [agent |-> a, valid |-> valid])]
  PROVE  d \in Claims /\ FairRecord(d, access)
<1> DEFINE H == [agent : Agents, valid : BOOLEAN]
           h == [agent |-> a, valid |-> valid]
           list == c.challenges
<1>1. list \in Seq(H) /\ h \in H
  BY DEF Claims
<1>2. Append(list, h) \in Seq(H)
  BY <1>1, AppendProperties
<1>3. d \in Claims
  BY <1>2 DEF Claims
<1>4. d.challenges = Append(list, h) /\ d.verifications = c.verifications
      /\ d.proposer = c.proposer /\ d.cited = c.cited /\ d.slot = c.slot
      /\ d.proposition = c.proposition
  BY DEF Claims
<1>5. Distinct(d.challenges)
  <2>1. \A n \in DOMAIN list : list[n].agent # h.agent
    BY DEF Challengers
  <2>2. Distinct(list)
    BY DEF FairRecord
  <2>3. Distinct(Append(list, h))
    <3> HIDE DEF list, h, H
    <3> QED
      BY <1>1, <2>1, <2>2, DistinctAppend
  <2> QED
    BY <1>4, <2>3
<1>6. \A b : Supported(access, b, d) <=> Supported(access, b, c)
  BY <1>4 DEF Supported, Bears
<1> QED
  BY <1>3, <1>4, <1>5, <1>6 DEF FairRecord, Verifiers

-----------------------------------------------------------------------------
(* All claims *)

LEMMA InitialCommons == Init => CommonsInv
<1> SUFFICES ASSUME Init PROVE CommonsInv
  OBVIOUS
<1>1. InspectBudget \in Nat /\ VerifyBudget \in Nat
      /\ Holders \in [Evidence -> SUBSET Agents] /\ NumAgents \in Nat \ {0} /\ MaxRounds \in Nat
  BY RosterAssumption, WorldAssumption DEF Params, ValidWorld
<1>2. claims = << >> /\ DOMAIN claims = {} /\ claims \in Seq(Claims) /\ Len(claims) = 0
  BY EmptySeq, LenProperties DEF Init
<1>3. visible \in [Evidence -> SUBSET Agents]
  BY <1>1 DEF Init
<1>4. TypeOK
  BY <1>1, <1>2, <1>3 DEF Init, TypeOK
<1> QED
  BY <1>2, <1>4 DEF CommonsInv

(* An action that leaves the claims alone and takes no access away *)
LEMMA ClaimsUntouched ==
  ASSUME CommonsInv, TypeOK', UNCHANGED claims,
         \A e \in Evidence : visible[e] \subseteq visible'[e]
  PROVE  CommonsInv'
<1>1. /\ visible \in [Evidence -> SUBSET Agents] /\ visible' \in [Evidence -> SUBSET Agents]
      /\ \A k \in DOMAIN claims : claims[k] \in Claims
  BY DEF CommonsInv, TypeOK
<1>2. \A k \in DOMAIN claims : FairRecord(claims[k], visible')
  BY <1>1, RecordStaysFair DEF CommonsInv
<1> QED
  BY <1>2 DEF CommonsInv

(* An action that replaces claim k by d *)
LEMMA ClaimReplaced ==
  ASSUME CommonsInv, UNCHANGED visible,
         NEW k \in DOMAIN claims, NEW d \in Claims, FairRecord(d, visible),
         claims' = [claims EXCEPT ![k] = d]
  PROVE  /\ claims' \in Seq(Claims) /\ Len(claims') = Len(claims)
         /\ \A j \in DOMAIN claims' : FairRecord(claims'[j], visible')
<1>1. claims \in Seq(Claims) /\ Len(claims) \in Nat /\ DOMAIN claims = 1 .. Len(claims)
  BY LenProperties DEF CommonsInv, TypeOK
<1>2. claims' \in Seq(Claims) /\ Len(claims') = Len(claims)
  BY <1>1, ExceptSeq
<1>3. DOMAIN claims' = DOMAIN claims
      /\ \A j \in DOMAIN claims : claims'[j] = IF j = k THEN d ELSE claims[j]
  BY <1>1
<1> QED
  BY <1>2, <1>3 DEF CommonsInv

LEMMA VerifyKeeps ==
  ASSUME CommonsInv, NEW a \in Agents, NEW k \in DOMAIN claims, Verify(a, k)
  PROVE  /\ claims' \in Seq(Claims) /\ Len(claims') = Len(claims)
         /\ \A j \in DOMAIN claims' : FairRecord(claims'[j], visible')
<1> DEFINE v == [agent |-> a, supported |-> Supported(visible, a, claims[k])]
           d == [claims[k] EXCEPT !.verifications = Append(@, v)]
<1>1. claims[k] \in Claims /\ visible \in [Evidence -> SUBSET Agents]
      /\ FairRecord(claims[k], visible)
  BY DEF CommonsInv, TypeOK
<1>2. claims[k].proposer # a /\ a \notin Verifiers(claims[k])
  BY DEF Verify, MayVerify
<1>3. d \in Claims /\ FairRecord(d, visible)
  BY <1>1, <1>2, VerifiedClaimIsFair
<1>4. claims' = [claims EXCEPT ![k] = d] /\ UNCHANGED visible
  BY DEF Verify
<1> QED
  BY <1>3, <1>4, ClaimReplaced

LEMMA ChallengeKeeps ==
  ASSUME CommonsInv, NEW a \in Agents, NEW k \in DOMAIN claims, NEW cited, Challenge(a, k, cited)
  PROVE  /\ claims' \in Seq(Claims) /\ Len(claims') = Len(claims)
         /\ \A j \in DOMAIN claims' : FairRecord(claims'[j], visible')
<1> DEFINE h == [agent |-> a, valid |-> Contradicted(visible, a, claims[k], cited)]
           d == [claims[k] EXCEPT !.challenges = Append(@, h)]
<1>1. claims[k] \in Claims /\ visible \in [Evidence -> SUBSET Agents]
      /\ FairRecord(claims[k], visible)
  BY DEF CommonsInv, TypeOK
<1>2. a \notin Challengers(claims[k])
  BY DEF Challenge, MayChallenge
<1>3. Contradicted(visible, a, claims[k], cited) \in BOOLEAN
  BY DEF Contradicted
<1>4. d \in Claims /\ FairRecord(d, visible)
  BY <1>1, <1>2, <1>3, ChallengedClaimIsFair
<1>5. claims' = [claims EXCEPT ![k] = d] /\ UNCHANGED visible
  BY DEF Challenge
<1> QED
  BY <1>4, <1>5, ClaimReplaced

LEMMA ProposeKeeps ==
  ASSUME CommonsInv, NEW a \in Agents, NEW s \in Slots, NEW p \in Propositions,
         NEW cited \in SUBSET Evidence, Propose(a, s, p, cited)
  PROVE  /\ claims' \in Seq(Claims) /\ Len(claims') = Len(claims) + 1
         /\ \A j \in DOMAIN claims' : FairRecord(claims'[j], visible')
<1> DEFINE c == [slot |-> s, proposition |-> p, proposer |-> a, cited |-> cited,
                 verifications |-> << >>, challenges |-> << >>]
<1>1. c \in Claims /\ FairRecord(c, visible)
  BY NewClaimIsFair
<1>2. claims \in Seq(Claims) /\ claims' = Append(claims, c) /\ UNCHANGED visible
  BY DEF CommonsInv, TypeOK, Propose
<1>3. /\ claims' \in Seq(Claims) /\ Len(claims') = Len(claims) + 1
      /\ \A j \in 1 .. Len(claims) : claims'[j] = claims[j]
      /\ claims'[Len(claims) + 1] = c
  BY <1>1, <1>2, AppendProperties
<1>4. Len(claims) \in Nat /\ DOMAIN claims = 1 .. Len(claims)
      /\ DOMAIN claims' = 1 .. Len(claims) + 1
  BY <1>2, <1>3, LenProperties
<1>5. \A j \in DOMAIN claims' : FairRecord(claims'[j], visible)
  BY <1>1, <1>3, <1>4 DEF CommonsInv
<1> QED
  BY <1>2, <1>3, <1>5

-----------------------------------------------------------------------------
(* Steps *)

LEMMA FreePlayIsPlay == Act(turn) => AnyAct(turn)
<1> SUFFICES ASSUME Act(turn) PROVE AnyAct(turn)
  OBVIOUS
<1>1. Touched \subseteq Evidence
  BY TouchedAssumption
<1>2. Citations \subseteq SUBSET Evidence
  BY <1>1 DEF Citations
<1> QED
  BY <1>1, <1>2 DEF Act, AnyAct

LEMMA SpendTyped ==
  ASSUME effort \in [Agents -> Nat], NEW a \in Agents,
         NEW what \in {"inspect", "share", "propose", "verify", "challenge"}, Spend(a, what)
  PROVE  effort' \in [Agents -> Nat]
<1>1. Cost[what] \in Nat
  BY WorldAssumption DEF Params
<1>2. effort[a] + Cost[what] \in Nat
  BY <1>1
<1> QED
  BY <1>2 DEF Spend

(* What an action may do to the state; the clock is ApplyNext's. *)
ActInv ==
  /\ budgets' \in [Agents -> [inspect : 0 .. InspectBudget, verify : 0 .. VerifyBudget]]
  /\ effort' \in [Agents -> Nat]
  /\ visible' \in [Evidence -> SUBSET Agents]
  /\ inspected' \in [Agents -> SUBSET Evidence]
  /\ claims' \in Seq(Claims) /\ Len(claims') >= Len(claims)
  /\ \A k \in DOMAIN claims' : FairRecord(claims'[k], visible')

LEMMA ActKeeps ==
  ASSUME CommonsInv, NEW a \in Agents, AnyAct(a)
  PROVE  ActInv
<1>1. /\ budgets \in [Agents -> [inspect : 0 .. InspectBudget, verify : 0 .. VerifyBudget]]
      /\ effort \in [Agents -> Nat] /\ visible \in [Evidence -> SUBSET Agents]
      /\ inspected \in [Agents -> SUBSET Evidence] /\ claims \in Seq(Claims)
      /\ Len(claims) \in Nat
  BY LenProperties DEF CommonsInv, TypeOK
<1>3. InspectBudget \in Nat /\ VerifyBudget \in Nat
  BY WorldAssumption DEF Params
<1>4. CASE Withhold(a)
  BY <1>1, <1>4 DEF Withhold, ActInv, CommonsInv
<1>5. ASSUME NEW e \in Evidence, Inspect(a, e) PROVE ActInv
  <2>1. budgets' \in [Agents -> [inspect : 0 .. InspectBudget, verify : 0 .. VerifyBudget]]
    <3>1. budgets[a].inspect - 1 \in 0 .. InspectBudget
      BY <1>1, <1>3, <1>5 DEF Inspect, MayInspect
    <3> QED
      BY <1>1, <1>5, <3>1 DEF Inspect
  <2>2. effort' \in [Agents -> Nat]
    BY <1>1, <1>5, SpendTyped DEF Inspect
  <2>3. inspected' \in [Agents -> SUBSET Evidence]
    BY <1>1, <1>5 DEF Inspect
  <2> QED
    BY <1>1, <1>5, <2>1, <2>2, <2>3 DEF Inspect, ActInv, CommonsInv
<1>6. ASSUME NEW e \in Evidence, Share(a, e) PROVE ActInv
  <2>1. effort' \in [Agents -> Nat]
    BY <1>1, <1>6, SpendTyped DEF Share
  <2>2. visible' \in [Evidence -> SUBSET Agents]
        /\ \A x \in Evidence : visible[x] \subseteq visible'[x]
    BY <1>1, <1>6 DEF Share
  <2>3. \A k \in DOMAIN claims : FairRecord(claims[k], visible')
    <3>1. \A k \in DOMAIN claims : claims[k] \in Claims
      BY <1>1
    <3> QED
      BY <1>1, <2>2, <3>1, RecordStaysFair DEF CommonsInv
  <2>4. UNCHANGED <<budgets, inspected, claims>>
    BY <1>6 DEF Share
  <2>5. \A k \in DOMAIN claims' : FairRecord(claims'[k], visible')
    BY <2>3, <2>4
  <2> QED
    BY <1>1, <2>1, <2>2, <2>4, <2>5 DEF ActInv
<1>7. ASSUME NEW s \in Slots, NEW p \in Propositions, NEW cited \in SUBSET Evidence,
             Propose(a, s, p, cited)
      PROVE  ActInv
  <2>1. effort' \in [Agents -> Nat]
    BY <1>1, <1>7, SpendTyped DEF Propose
  <2>2. /\ claims' \in Seq(Claims) /\ Len(claims') = Len(claims) + 1
        /\ \A j \in DOMAIN claims' : FairRecord(claims'[j], visible')
    BY <1>7, ProposeKeeps
  <2>4. UNCHANGED <<budgets, visible, inspected>>
    BY <1>7 DEF Propose
  <2>5. Len(claims') >= Len(claims)
    BY <1>1, <2>2
  <2>6. /\ budgets' \in [Agents -> [inspect : 0 .. InspectBudget, verify : 0 .. VerifyBudget]]
        /\ visible' \in [Evidence -> SUBSET Agents]
        /\ inspected' \in [Agents -> SUBSET Evidence]
    BY <1>1, <2>4
  <2> QED
    BY <2>1, <2>2, <2>5, <2>6 DEF ActInv
<1>8. ASSUME NEW k \in DOMAIN claims, Verify(a, k) PROVE ActInv
  <2>1. budgets' \in [Agents -> [inspect : 0 .. InspectBudget, verify : 0 .. VerifyBudget]]
    <3>1. budgets[a].verify - 1 \in 0 .. VerifyBudget
      BY <1>1, <1>3, <1>8 DEF Verify, MayVerify
    <3> QED
      BY <1>1, <1>8, <3>1 DEF Verify
  <2>2. effort' \in [Agents -> Nat]
    BY <1>1, <1>8, SpendTyped DEF Verify
  <2>3. /\ claims' \in Seq(Claims) /\ Len(claims') = Len(claims)
        /\ \A j \in DOMAIN claims' : FairRecord(claims'[j], visible')
    BY <1>8, VerifyKeeps
  <2>4. UNCHANGED <<visible, inspected>>
    BY <1>8 DEF Verify
  <2> QED
    BY <1>1, <2>1, <2>2, <2>3, <2>4 DEF ActInv
<1>9. ASSUME NEW k \in DOMAIN claims, NEW cited \in SUBSET Evidence, Challenge(a, k, cited)
      PROVE  ActInv
  <2>1. effort' \in [Agents -> Nat]
    BY <1>1, <1>9, SpendTyped DEF Challenge
  <2>2. /\ claims' \in Seq(Claims) /\ Len(claims') = Len(claims)
        /\ \A j \in DOMAIN claims' : FairRecord(claims'[j], visible')
    BY <1>9, ChallengeKeeps
  <2>4. UNCHANGED <<budgets, visible, inspected>>
    BY <1>9 DEF Challenge
  <2> QED
    BY <1>1, <2>1, <2>2, <2>4 DEF ActInv
<1> QED
  BY <1>4, <1>5, <1>6, <1>7, <1>8, <1>9 DEF AnyAct

LEMMA CommonsStep == CommonsInv /\ [CommonsNext]_vars => CommonsInv'
<1> SUFFICES ASSUME CommonsInv, [CommonsNext]_vars PROVE CommonsInv'
  OBVIOUS
<1>1. NumAgents \in Nat \ {0} /\ MaxRounds \in Nat
  BY RosterAssumption
<1>2. /\ round \in 0 .. MaxRounds /\ turn \in 1 .. NumAgents + 1
      /\ institution \in Institutions /\ seen \in [Evidence -> SUBSET Agents]
      /\ visible \in [Evidence -> SUBSET Agents]
      /\ claims \in Seq(Claims) /\ Len(claims) \in Nat /\ known \in 0 .. Len(claims)
  BY LenProperties DEF CommonsInv, TypeOK
<1>3. CASE ApplyAny
  <2>1. turn \in Agents /\ turn' = turn + 1 /\ AnyAct(turn) /\ UNCHANGED opening
    BY <1>1, <1>2, <1>3 DEF ApplyAny, Agents
  <2>2. ActInv
    BY <2>1, ActKeeps
  <2>3. turn' \in 1 .. NumAgents + 1
    BY <1>1, <2>1 DEF Agents
  <2>4. Len(claims') \in Nat /\ known' \in 0 .. Len(claims')
    <3>1. claims' \in Seq(Claims) /\ Len(claims') >= Len(claims) /\ known' = known
      BY <2>1, <2>2 DEF ActInv, opening
    <3>2. Len(claims') \in Nat
      BY <3>1, LenProperties
    <3> QED
      BY <1>2, <3>1, <3>2
  <2> QED
    BY <1>2, <2>1, <2>2, <2>3, <2>4 DEF ActInv, opening, CommonsInv, TypeOK
<1>4. CASE CloseRound
  <2>1. round' \in 0 .. MaxRounds /\ turn' \in 1 .. NumAgents + 1
    BY <1>1, <1>2, <1>4 DEF CloseRound
  <2>2. known' \in 0 .. Len(claims)
    BY <1>2, <1>4 DEF CloseRound
  <2> QED
    BY <1>2, <1>4, <2>1, <2>2 DEF CloseRound, CommonsInv, TypeOK
<1>5. CASE UNCHANGED vars
  BY <1>5 DEF vars, CommonsInv, TypeOK
<1> QED
  BY <1>3, <1>4, <1>5 DEF CommonsNext

LEMMA CommonsAlways == CommonsSpec => []CommonsInv
BY InitialCommons, CommonsStep, PTL DEF CommonsSpec

THEOREM TypeCorrect == CommonsSpec => []TypeOK
<1>1. CommonsInv => TypeOK
  BY DEF CommonsInv
<1> QED
  BY <1>1, CommonsAlways, PTL

(* Over any number of rounds nobody supports a claim twice or its own, and *)
(* nobody contests one twice (evidence_commons.py:266-288).                *)
THEOREM SupportIsOneVotePerPeer == CommonsSpec => []SupportIsNotInflated
<1>1. CommonsInv => SupportIsNotInflated
  BY DEF CommonsInv, SupportIsNotInflated, FairRecord
<1> QED
  BY <1>1, CommonsAlways, PTL

-----------------------------------------------------------------------------
(* Acceptance *)

(* Supporters of a claim are different agents. *)
LEMMA CountIsBounded ==
  ASSUME NEW S, NEW list \in Seq(S), NEW P \in SUBSET DOMAIN list, Distinct(list),
         \A n \in P : list[n].agent \in Agents
  PROVE  IsFiniteSet(P) /\ Cardinality(P) \in 0 .. NumAgents
<1>1. NumAgents \in Nat /\ IsFiniteSet(Agents) /\ Cardinality(Agents) = NumAgents
  BY RosterAssumption, FS_Interval DEF Agents
<1>2. [n \in P |-> list[n].agent] \in Injection(P, Agents)
  BY DEF Injection, IsInjective, Distinct
<1>3. IsFiniteSet(P) /\ Cardinality(P) <= Cardinality(Agents)
  BY <1>1, <1>2, FS_Injection
<1> QED
  BY <1>1, <1>3, FS_CardinalityType

LEMMA SupportBounds ==
  ASSUME NEW c \in Claims, NEW access, FairRecord(c, access)
  PROVE  /\ NetSupport(c) \in Int /\ NetSupport(c) <= NumAgents
         /\ NetSupport(c) >= 1 => \E n \in DOMAIN c.verifications : c.verifications[n].supported
<1> DEFINE supporting == {n \in DOMAIN c.verifications : c.verifications[n].supported}
           contesting == {n \in DOMAIN c.challenges : c.challenges[n].valid}
<1>1. /\ c.verifications \in Seq([agent : Agents, supported : BOOLEAN])
      /\ c.challenges \in Seq([agent : Agents, valid : BOOLEAN])
      /\ Distinct(c.verifications) /\ Distinct(c.challenges)
  BY DEF Claims, FairRecord
<1>2. /\ \A n \in DOMAIN c.verifications : c.verifications[n].agent \in Agents
      /\ \A n \in DOMAIN c.challenges : c.challenges[n].agent \in Agents
  <2>1. ASSUME NEW n \in DOMAIN c.verifications PROVE c.verifications[n].agent \in Agents
    <3>1. c.verifications[n] \in [agent : Agents, supported : BOOLEAN]
      BY <1>1, ElementOfSeq, LenProperties
    <3> QED
      BY <3>1
  <2>2. ASSUME NEW n \in DOMAIN c.challenges PROVE c.challenges[n].agent \in Agents
    <3>1. c.challenges[n] \in [agent : Agents, valid : BOOLEAN]
      BY <1>1, ElementOfSeq, LenProperties
    <3> QED
      BY <3>1
  <2> QED
    BY <2>1, <2>2
<1>3. IsFiniteSet(supporting) /\ Cardinality(supporting) \in 0 .. NumAgents
  BY <1>1, <1>2, CountIsBounded
<1>4. IsFiniteSet(contesting) /\ Cardinality(contesting) \in 0 .. NumAgents
  BY <1>1, <1>2, CountIsBounded
<1>5. NetSupport(c) = Cardinality(supporting) - Cardinality(contesting)
  BY DEF NetSupport, Count
<1>6. NumAgents \in Nat
  BY RosterAssumption
<1>7. NetSupport(c) >= 1 => supporting # {}
  BY <1>3, <1>4, <1>5, <1>6, FS_EmptySet
<1> QED
  BY <1>3, <1>4, <1>5, <1>6, <1>7

LEMMA SmallestOf ==
  ASSUME NEW S \in SUBSET Nat, S # {}
  PROVE  \E m \in S : \A n \in S : m <= n
<1> DEFINE R == OpToRel(<, Nat)
<1>1. \A m, n \in Nat : <<m, n>> \in R <=> m < n
  BY DEF OpToRel
<1>2. \E m \in S : \A n \in S : <<n, m>> \notin R
  <2> HIDE DEF R
  <2> QED
    BY NatLessThanWellFounded, WFMin DEF R
<1>3. PICK m \in S : \A n \in S : ~ (n < m)
  <2> HIDE DEF R
  <2> QED
    BY <1>1, <1>2
<1>4. \A n \in S : m <= n
  BY <1>3
<1> QED
  BY <1>4

(* The best-supported claim exists, so the briefing is what Winner says. *)
LEMMA WinnerIsAContender ==
  ASSUME CommonsInv, NEW s \in Slots, s \in Filled
  PROVE  /\ Winner(s) \in Contenders(s)
         /\ \A j \in Contenders(s) : NetSupport(claims[j]) <= NetSupport(Accepted(s))
<1>0. /\ NumAgents \in Nat /\ claims \in Seq(Claims)
      /\ Contenders(s) \subseteq DOMAIN claims /\ DOMAIN claims \subseteq Nat
  BY RosterAssumption, LenProperties DEF CommonsInv, TypeOK, Contenders
<1>1. \A k \in Contenders(s) :
        NetSupport(claims[k]) \in Int /\ NetSupport(claims[k]) <= NumAgents
  BY <1>0, SupportBounds DEF CommonsInv
<1>2. Contenders(s) # {}
  BY DEF Filled, Winner
<1>3. PICK k \in Contenders(s) :
        \A j \in Contenders(s) : NetSupport(claims[j]) <= NetSupport(claims[k])
  <2> DEFINE short == {NumAgents - NetSupport(claims[k]) : k \in Contenders(s)}
  <2>1. short \in SUBSET Nat /\ short # {}
    BY <1>0, <1>1, <1>2
  <2>2. PICK m \in short : \A n \in short : m <= n
    BY <2>1, SmallestOf
  <2>3. PICK k \in Contenders(s) : m = NumAgents - NetSupport(claims[k])
    BY <2>2
  <2>4. \A j \in Contenders(s) : NetSupport(claims[j]) <= NetSupport(claims[k])
    <3> SUFFICES ASSUME NEW j \in Contenders(s)
                 PROVE  NetSupport(claims[j]) <= NetSupport(claims[k])
      OBVIOUS
    <3>1. m <= NumAgents - NetSupport(claims[j])
      BY <2>2
    <3> QED
      BY <1>0, <1>1, <2>3, <3>1
  <2> QED
    BY <2>4
<1>4. PICK first \in Contenders(s) :
        /\ NetSupport(claims[first]) = NetSupport(claims[k])
        /\ \A j \in Contenders(s) :
             NetSupport(claims[j]) = NetSupport(claims[k]) => first <= j
  <2> DEFINE best == {j \in Contenders(s) : NetSupport(claims[j]) = NetSupport(claims[k])}
  <2>1. best \in SUBSET Nat /\ best # {}
    BY <1>0, <1>3
  <2> QED
    BY <2>1, SmallestOf
<1>5. \A j \in Contenders(s) :
        \/ NetSupport(claims[first]) > NetSupport(claims[j])
        \/ NetSupport(claims[first]) = NetSupport(claims[j]) /\ first <= j
  BY <1>1, <1>3, <1>4
<1>6. /\ Winner(s) \in Contenders(s)
      /\ \A j \in Contenders(s) :
           \/ NetSupport(claims[Winner(s)]) > NetSupport(claims[j])
           \/ NetSupport(claims[Winner(s)]) = NetSupport(claims[j]) /\ Winner(s) <= j
  BY <1>2, <1>5 DEF Winner
<1> QED
  BY <1>1, <1>6 DEF Accepted

(* Whatever is accepted was found supported by another agent than its      *)
(* author, on an item this agent can access at the end too, and the sealed *)
(* provenance audit agrees (evidence_commons.py:404-416, 434-468).         *)
THEOREM AcceptedClaimsAreSupported == CommonsSpec => []AcceptedClaimsHaveProvenance
<1>1. CommonsInv => AcceptedClaimsHaveProvenance
  <2> SUFFICES ASSUME CommonsInv, NEW s \in Filled
               PROVE  /\ ProvenanceOk(Accepted(s))
                      /\ \E a \in Verifiers(Accepted(s)) \ {Accepted(s).proposer} :
                           Supported(visible, a, Accepted(s))
    BY DEF AcceptedClaimsHaveProvenance
  <2>1. s \in Slots /\ Winner(s) \in Contenders(s)
    BY WinnerIsAContender DEF Filled
  <2>2. Winner(s) \in DOMAIN claims /\ NetSupport(Accepted(s)) >= 1
    BY <2>1 DEF Contenders, Accepted
  <2>3. Accepted(s) \in Claims /\ FairRecord(Accepted(s), visible)
    BY <2>2 DEF Accepted, CommonsInv, TypeOK
  <2>4. PICK n \in DOMAIN Accepted(s).verifications : Accepted(s).verifications[n].supported
    BY <2>2, <2>3, SupportBounds
  <2> DEFINE a == Accepted(s).verifications[n].agent
  <2>5. a \in Verifiers(Accepted(s)) /\ a # Accepted(s).proposer
    BY <2>3 DEF Verifiers, FairRecord
  <2>6. Supported(visible, a, Accepted(s))
    BY <2>3, <2>4 DEF FairRecord
  <2>7. ProvenanceOk(Accepted(s))
    BY <2>6 DEF Supported, Bears, ProvenanceOk
  <2> QED
    BY <2>5, <2>6, <2>7
<1> QED
  BY <1>1, CommonsAlways, PTL

-----------------------------------------------------------------------------
(* Observation *)

(* What one agent does touches nobody else's budgets, effort or findings. *)
LEMMA ActIsPersonal ==
  ASSUME TypeOK, NEW t \in Agents, AnyAct(t), NEW a \in Agents, a # t
  PROVE  budgets'[a] = budgets[a] /\ effort'[a] = effort[a] /\ inspected'[a] = inspected[a]
<1>1. /\ a \in DOMAIN budgets /\ a \in DOMAIN effort /\ a \in DOMAIN inspected
  BY DEF TypeOK
<1>2. \A what : Spend(t, what) => effort'[a] = effort[a]
  BY <1>1 DEF Spend
<1>3. CASE Withhold(t)
  BY <1>3 DEF Withhold
<1>4. ASSUME NEW e \in Evidence, Inspect(t, e) \/ Share(t, e)
      PROVE  budgets'[a] = budgets[a] /\ effort'[a] = effort[a] /\ inspected'[a] = inspected[a]
  BY <1>1, <1>2, <1>4 DEF Inspect, Share
<1>5. ASSUME NEW s \in Slots, NEW p \in Propositions, NEW cited \in SUBSET Evidence,
             Propose(t, s, p, cited)
      PROVE  budgets'[a] = budgets[a] /\ effort'[a] = effort[a] /\ inspected'[a] = inspected[a]
  BY <1>1, <1>2, <1>5 DEF Propose
<1>6. ASSUME NEW k \in DOMAIN claims, Verify(t, k)
      PROVE  budgets'[a] = budgets[a] /\ effort'[a] = effort[a] /\ inspected'[a] = inspected[a]
  BY <1>1, <1>2, <1>6 DEF Verify
<1>7. ASSUME NEW k \in DOMAIN claims, NEW cited \in SUBSET Evidence, Challenge(t, k, cited)
      PROVE  budgets'[a] = budgets[a] /\ effort'[a] = effort[a] /\ inspected'[a] = inspected[a]
  BY <1>1, <1>2, <1>7 DEF Challenge
<1> QED
  BY <1>3, <1>4, <1>5, <1>6, <1>7 DEF AnyAct

(* An observation changes only through one's own acts and public ones, in  *)
(* every world and under every institution (evidence_commons.py:184-242).  *)
THEOREM PrivateActsStayUnobserved == CommonsSpec => PrivateActsAreUnobserved
<1>1. CommonsInv /\ [CommonsNext]_vars =>
        [\A a \in Agents :
           a # turn /\ round' = round /\ visible' = visible /\ claims' = claims
             => Observation(a)' = Observation(a)]_vars
  <2> SUFFICES ASSUME CommonsInv, CommonsNext, NEW a \in Agents, a # turn,
                      UNCHANGED <<round, visible, claims>>
               PROVE  Observation(a)' = Observation(a)
    OBVIOUS
  <2>1. ApplyAny
    <3>1. CloseRound => round' # round
      BY DEF CloseRound, CommonsInv, TypeOK
    <3> QED
      BY <3>1 DEF CommonsNext
  <2>2. turn \in Agents /\ AnyAct(turn) /\ UNCHANGED institution
    BY <2>1, RosterAssumption DEF ApplyAny, opening, CommonsInv, TypeOK, Agents
  <2>3. budgets'[a] = budgets[a] /\ effort'[a] = effort[a] /\ inspected'[a] = inspected[a]
    BY <2>2, ActIsPersonal DEF CommonsInv
  <2>4. \A e : EvidenceView(a, e)' = EvidenceView(a, e)
    BY <2>3 DEF EvidenceView
  <2>5. \A c : ClaimView(a, c)' = ClaimView(a, c)
    BY <2>2 DEF ClaimView, NetSupport, Count, Verifiers, Challengers
  <2> QED
    BY <2>3, <2>4, <2>5 DEF Observation
<1> QED
  BY <1>1, CommonsAlways, PTL DEF CommonsSpec, PrivateActsAreUnobserved
-----------------------------------------------------------------------------
(* Sight: what the round opened with, against what has become of it *)

SightInv ==
  /\ \A e \in Evidence : seen[e] \subseteq visible[e]
  /\ \A e \in Evidence : visible[e] = seen[e] \/ visible[e] = Agents
  /\ \A a \in Agents : \A e \in inspected[a] : a \in visible[e]
  /\ turn = 1 => seen = visible /\ known = Len(claims)

LEMMA InitialSight == Init => SightInv
BY EmptySeq, LenProperties DEF Init, SightInv

(* An action keeps whatever access there is, or opens an item to everybody. *)
LEMMA ActKeepsSight ==
  ASSUME CommonsInv, NEW a \in Agents, AnyAct(a), UNCHANGED seen, SightInv
  PROVE  /\ \A e \in Evidence : seen'[e] \subseteq visible'[e]
         /\ \A e \in Evidence : visible'[e] = seen'[e] \/ visible'[e] = Agents
         /\ \A b \in Agents : \A e \in inspected'[b] : b \in visible'[e]
<1>1. /\ visible \in [Evidence -> SUBSET Agents] /\ seen \in [Evidence -> SUBSET Agents]
      /\ inspected \in [Agents -> SUBSET Evidence]
  BY DEF CommonsInv, TypeOK
<1>2. CASE UNCHANGED <<visible, inspected>>
  BY <1>2 DEF SightInv
<1>3. ASSUME NEW e \in Evidence, Inspect(a, e)
      PROVE  /\ \A x \in Evidence : seen'[x] \subseteq visible'[x]
             /\ \A x \in Evidence : visible'[x] = seen'[x] \/ visible'[x] = Agents
             /\ \A b \in Agents : \A x \in inspected'[b] : b \in visible'[x]
  <2>1. a \in visible[e] /\ visible' = visible
    BY <1>3 DEF Inspect, MayInspect, CanAccess, SightInv
  <2>2. \A b \in Agents : inspected'[b] = IF b = a THEN inspected[b] \cup {e} ELSE inspected[b]
    BY <1>1, <1>3 DEF Inspect
  <2>3. \A b \in Agents : \A x \in inspected'[b] : b \in visible'[x]
    BY <2>1, <2>2 DEF SightInv
  <2> QED
    BY <2>1, <2>3 DEF SightInv
<1>4. ASSUME NEW e \in Evidence, Share(a, e)
      PROVE  /\ \A x \in Evidence : seen'[x] \subseteq visible'[x]
             /\ \A x \in Evidence : visible'[x] = seen'[x] \/ visible'[x] = Agents
             /\ \A b \in Agents : \A x \in inspected'[b] : b \in visible'[x]
  <2>1. \A x \in Evidence : visible'[x] = IF x = e THEN Agents ELSE visible[x]
    BY <1>1, <1>4 DEF Share
  <2>2. inspected' = inspected
    BY <1>4 DEF Share
  <2> QED
    BY <1>1, <2>1, <2>2 DEF SightInv
<1> QED
  BY <1>2, <1>3, <1>4 DEF AnyAct, Withhold, Propose, Verify, Challenge

LEMMA SightStep == CommonsInv /\ SightInv /\ [CommonsNext]_vars => SightInv'
<1> SUFFICES ASSUME CommonsInv, SightInv, [CommonsNext]_vars PROVE SightInv'
  OBVIOUS
<1>1. /\ turn \in 1 .. NumAgents + 1 /\ NumAgents \in Nat \ {0}
      /\ visible \in [Evidence -> SUBSET Agents]
  BY RosterAssumption DEF CommonsInv, TypeOK
<1>2. CASE ApplyAny
  <2>1. turn \in Agents /\ AnyAct(turn) /\ UNCHANGED seen /\ turn' # 1
    BY <1>1, <1>2 DEF ApplyAny, opening, Agents
  <2> QED
    BY <2>1, ActKeepsSight DEF SightInv
<1>3. CASE CloseRound
  BY <1>1, <1>3 DEF CloseRound, SightInv
<1>4. CASE UNCHANGED vars
  BY <1>4 DEF vars, SightInv
<1> QED
  BY <1>2, <1>3, <1>4 DEF CommonsNext

LEMMA SightAlways == CommonsSpec => [](CommonsInv /\ SightInv)
BY InitialCommons, CommonsStep, InitialSight, SightStep, PTL DEF CommonsSpec

LEMMA OrderOnlyThroughShares == CommonsInv /\ SightInv => OrderMattersOnlyThroughShares
<1> SUFFICES ASSUME CommonsInv, SightInv, NEW k \in DOMAIN claims,
                    NEW n \in DOMAIN claims[k].verifications,
                    claims[k].verifications[n].supported
             PROVE  \/ Supported(seen, claims[k].verifications[n].agent, claims[k])
                    \/ \E e \in claims[k].cited : visible[e] # seen[e] /\ visible[e] = Agents
  BY DEF OrderMattersOnlyThroughShares
<1> DEFINE a == claims[k].verifications[n].agent
<1>1. Supported(visible, a, claims[k])
  BY DEF CommonsInv, FairRecord
<1>2. claims[k].cited \subseteq Evidence
  <2>1. claims[k] \in Claims
    BY DEF CommonsInv, TypeOK
  <2> QED
    BY <2>1 DEF Claims
<1>3. PICK e \in claims[k].cited : a \in visible[e] /\ Bears(e, claims[k], "supports")
  BY <1>1 DEF Supported
<1>4. CASE visible[e] = seen[e]
  BY <1>3, <1>4 DEF Supported
<1>5. CASE visible[e] # seen[e]
  BY <1>2, <1>3, <1>5 DEF SightInv
<1> QED
  BY <1>4, <1>5

(* A verification recorded as supported held on the opening state, or      *)
(* rests on an item shared since: the order of the agents decides nothing  *)
(* else, however many play (evidence_commons.py:315-316, 404-416).         *)
THEOREM RoundsAreSimultaneous == CommonsSpec => []OrderMattersOnlyThroughShares
BY SightAlways, OrderOnlyThroughShares, PTL

-----------------------------------------------------------------------------
(* The policies act legally *)

(* actions as resolve would accept their form, with n claims on record *)
Actions(n) ==
  [do : {"withhold"}] \cup [do : {"inspect", "share"}, item : Evidence]
    \cup [do : {"propose"}, slot : Slots, proposition : Propositions, cited : SUBSET Evidence]
    \cup [do : {"verify"}, claim : 1 .. n]
    \cup [do : {"challenge"}, claim : 1 .. n, cited : SUBSET Evidence]

Allowed(a) == {x \in Actions(known) : Legal(a, x)}

LEMMA MinIsOneOf ==
  ASSUME NEW S \in SUBSET Nat, S # {}
  PROVE  Min(S) \in S
BY SmallestOf DEF Min

LEMMA OrElse ==
  ASSUME NEW X, NEW A \in SUBSET X, NEW B \in SUBSET X
  PROVE  A ?? B \in SUBSET X
BY DEF ??

(* The state a round opens with *)
AtOpening == CommonsInv /\ SightInv /\ turn = 1

LEMMA OpeningFacts ==
  ASSUME AtOpening
  PROVE  /\ seen = visible /\ known = Len(claims) /\ Len(claims) \in Nat
         /\ DOMAIN claims = 1 .. known /\ DOMAIN claims \subseteq Nat
         /\ visible \in [Evidence -> SUBSET Agents]
         /\ \A k \in DOMAIN claims : claims[k] \in Claims
         /\ \A a \in Agents : inspected[a] \subseteq {e \in Evidence : a \in visible[e]}
         /\ Evidence \subseteq Nat
         /\ \A e \in Evidence : /\ Facts[e].slot \in Slots
                                /\ Facts[e].proposition \in Candidates[Facts[e].slot]
                                /\ Facts[e].proposition \in Propositions
<1>1. claims \in Seq(Claims) /\ seen = visible /\ known = Len(claims)
      /\ visible \in [Evidence -> SUBSET Agents] /\ inspected \in [Agents -> SUBSET Evidence]
  BY DEF AtOpening, CommonsInv, SightInv, TypeOK
<1>2. Len(claims) \in Nat /\ DOMAIN claims = 1 .. Len(claims)
      /\ \A k \in DOMAIN claims : claims[k] \in Claims
  BY <1>1, LenProperties
<1>3. \A a \in Agents : inspected[a] \subseteq {e \in Evidence : a \in visible[e]}
  BY <1>1 DEF AtOpening, SightInv
<1>4. \A e \in Evidence : Facts[e].slot \in Slots /\ Facts[e].proposition \in Propositions
                          /\ Facts[e].proposition \in Candidates[Facts[e].slot]
  BY WorldAssumption DEF ValidWorld
<1> QED
  BY <1>1, <1>2, <1>3, <1>4, TouchedAssumption

LEMMA InspectingIsAllowed ==
  ASSUME AtOpening, NEW a \in Agents
  PROVE  Inspecting(a) \in SUBSET Allowed(a)
<1> DEFINE S == IF budgets[a].inspect > 0 THEN Uninspected(a) ELSE {}
<1>1. Inspecting(a) = IF S = {} THEN {} ELSE {[do |-> "inspect", item |-> Min(S)]}
  BY DEF Inspecting, FirstOf
<1>2. S \in SUBSET Nat
  BY OpeningFacts DEF Uninspected
<1>3. SUFFICES ASSUME S # {} PROVE [do |-> "inspect", item |-> Min(S)] \in Allowed(a)
  BY <1>1
<1>4. Min(S) \in S
  <2> HIDE DEF S
  <2> QED
    BY <1>2, <1>3, MinIsOneOf
<1>5. budgets[a].inspect > 0 /\ Min(S) \in Evidence /\ a \in visible[Min(S)]
  BY <1>4 DEF Uninspected
<1> HIDE DEF S
<1> QED
  BY <1>5, OpeningFacts DEF Allowed, Actions, Legal, MayInspect, CanAccess

LEMMA SharingIsAllowed ==
  ASSUME AtOpening, NEW a \in Agents, NEW p, NEW items \in SUBSET inspected[a]
  PROVE  Sharing(p, items) \in SUBSET Allowed(a)
<1> DEFINE S == {e \in items : p.share /\ institution.topology = "private" /\ visible[e] # Agents}
<1>1. Sharing(p, items) = IF S = {} THEN {} ELSE {[do |-> "share", item |-> Min(S)]}
  BY DEF Sharing, FirstOf
<1>2. S \in SUBSET Nat
  BY OpeningFacts
<1>3. SUFFICES ASSUME S # {} PROVE [do |-> "share", item |-> Min(S)] \in Allowed(a)
  BY <1>1
<1>4. Min(S) \in S
  <2> HIDE DEF S
  <2> QED
    BY <1>2, <1>3, MinIsOneOf
<1>5. institution.topology = "private" /\ Min(S) \in Evidence /\ a \in visible[Min(S)]
  BY <1>4, OpeningFacts
<1> HIDE DEF S
<1> QED
  BY <1>5, OpeningFacts DEF Allowed, Actions, Legal, MayShare, CanAccess

LEMMA ProposingIsAllowed ==
  ASSUME AtOpening, NEW a \in Agents, NEW support \in SUBSET inspected[a]
  PROVE  Proposing(a, support) \in SUBSET Allowed(a)
<1> DEFINE S == {e \in support :
                   \A k \in DOMAIN claims :
                     claims[k].slot = Facts[e].slot =>
                       claims[k].proposer # a /\ claims[k].proposition # Facts[e].proposition}
           Do(e) == [do |-> "propose", slot |-> Facts[e].slot,
                     proposition |-> Facts[e].proposition, cited |-> About(support, Facts[e])]
<1>1. Proposing(a, support) = IF S = {} THEN {} ELSE {Do(Min(S))}
  BY DEF Proposing, FirstOf
<1>2. S \in SUBSET Nat
  BY OpeningFacts
<1>3. SUFFICES ASSUME S # {} PROVE Do(Min(S)) \in Allowed(a)
  <2> HIDE DEF S, Do
  <2> QED
    BY <1>1
<1>4. Min(S) \in S
  <2> HIDE DEF S
  <2> QED
    BY <1>2, <1>3, MinIsOneOf
<1>5. PICK e \in Evidence : e = Min(S)
  BY <1>4, OpeningFacts
<1>6. \A x \in About(support, Facts[e]) : x \in Evidence /\ a \in visible[x]
  BY OpeningFacts DEF About
<1>7. Do(e) \in Actions(known)
  BY <1>6, OpeningFacts DEF Actions
<1>8. Legal(a, Do(e))
  BY <1>6, OpeningFacts DEF Legal, MayPropose, CanAccess
<1> QED
  BY <1>5, <1>7, <1>8 DEF Allowed

LEMMA VerifyingIsAllowed ==
  ASSUME AtOpening, NEW a \in Agents, NEW worthwhile \in SUBSET DOMAIN claims
  PROVE  Verifying(a, worthwhile) \in SUBSET Allowed(a)
<1> DEFINE S == {k \in worthwhile : /\ budgets[a].verify > 0
                                    /\ claims[k].proposer # a /\ a \notin Verifiers(claims[k])}
<1>1. Verifying(a, worthwhile) = IF S = {} THEN {} ELSE {[do |-> "verify", claim |-> Min(S)]}
  BY DEF Verifying, FirstOf
<1>2. S \in SUBSET Nat
  BY OpeningFacts
<1>3. SUFFICES ASSUME S # {} PROVE [do |-> "verify", claim |-> Min(S)] \in Allowed(a)
  BY <1>1
<1>4. Min(S) \in S
  <2> HIDE DEF S
  <2> QED
    BY <1>2, <1>3, MinIsOneOf
<1>5. /\ budgets[a].verify > 0 /\ Min(S) \in 1 .. known /\ Min(S) <= known
      /\ claims[Min(S)].proposer # a /\ a \notin Verifiers(claims[Min(S)])
  BY <1>4, OpeningFacts
<1> HIDE DEF S
<1> QED
  BY <1>5 DEF Allowed, Actions, Legal, MayVerify

LEMMA ChallengingIsAllowed ==
  ASSUME AtOpening, NEW a \in Agents, NEW items \in SUBSET inspected[a]
  PROVE  Challenging(a, items) \in SUBSET Allowed(a)
<1> DEFINE S == {k \in DOMAIN claims : /\ claims[k].proposer # a
                                       /\ a \notin Challengers(claims[k])
                                       /\ About(items, claims[k]) # {}}
           Do(k) == [do |-> "challenge", claim |-> k, cited |-> About(items, claims[k])]
<1>1. Challenging(a, items) = IF S = {} THEN {} ELSE {Do(Min(S))}
  BY DEF Challenging, FirstOf
<1>2. S \in SUBSET Nat
  BY OpeningFacts
<1>3. SUFFICES ASSUME S # {} PROVE Do(Min(S)) \in Allowed(a)
  <2> HIDE DEF S, Do
  <2> QED
    BY <1>1
<1>4. Min(S) \in S
  <2> HIDE DEF S
  <2> QED
    BY <1>2, <1>3, MinIsOneOf
<1>5. PICK k \in 1 .. known : k = Min(S) /\ a \notin Challengers(claims[k])
  BY <1>4, OpeningFacts
<1>6. \A x \in About(items, claims[k]) : x \in Evidence /\ a \in visible[x]
  BY OpeningFacts DEF About
<1>7. Do(k) \in Actions(known)
  <2>1. About(items, claims[k]) \in SUBSET Evidence
    BY <1>6
  <2>2. Do(k) \in [do : {"challenge"}, claim : 1 .. known, cited : SUBSET Evidence]
    BY <2>1
  <2> QED
    BY <2>2 DEF Actions
<1>8. Legal(a, Do(k))
  <2> DEFINE cited == About(items, claims[k])
  <2>1. k <= known /\ seen = visible
    BY OpeningFacts
  <2>2. \A x \in cited : CanAccess(a, x)
    BY <1>6, <2>1 DEF CanAccess
  <2> HIDE DEF cited
  <2>3. MayChallenge(a, k, cited)
    BY <1>5, <2>1, <2>2 DEF MayChallenge
  <2> QED
    BY <2>3 DEF Legal, cited
<1> QED
  BY <1>5, <1>7, <1>8 DEF Allowed

(* What any of the rules comes to *)
LEMMA ContributorIsAllowed ==
  ASSUME AtOpening, NEW a \in Agents, NEW p
  PROVE  Contributor(p, a) \in SUBSET Allowed(a)
<1>1. FreshSupport(a) \in SUBSET inspected[a]
  BY DEF FreshSupport, Fresh, Supporting
<1>2. /\ Inspecting(a) \in SUBSET Allowed(a)
      /\ Sharing(p, FreshSupport(a)) \in SUBSET Allowed(a)
      /\ Proposing(a, FreshSupport(a)) \in SUBSET Allowed(a)
      /\ Verifying(a, DOMAIN claims) \in SUBSET Allowed(a)
  BY <1>1, InspectingIsAllowed, SharingIsAllowed, ProposingIsAllowed, VerifyingIsAllowed
<1> QED
  BY <1>2 DEF Contributor, ??

LEMMA SkepticalIsAllowed ==
  ASSUME AtOpening, NEW a \in Agents, NEW p
  PROVE  Skeptical(p, a) \in SUBSET Allowed(a)
<1>1. /\ Fresh(a) \in SUBSET inspected[a] /\ FreshAgainst(a) \in SUBSET inspected[a]
      /\ Screened(p, a, FreshSupport(a)) \in SUBSET inspected[a]
      /\ ScreenedClaims(p, a) \cap ReadCitations(a) \in SUBSET DOMAIN claims
  BY DEF Fresh, FreshSupport, FreshAgainst, Screened, ScreenedClaims
<1>2. /\ Inspecting(a) \in SUBSET Allowed(a)
      /\ Sharing(p, Fresh(a)) \in SUBSET Allowed(a)
      /\ Challenging(a, FreshAgainst(a)) \in SUBSET Allowed(a)
      /\ Proposing(a, Screened(p, a, FreshSupport(a))) \in SUBSET Allowed(a)
      /\ Verifying(a, ScreenedClaims(p, a) \cap ReadCitations(a)) \in SUBSET Allowed(a)
  BY <1>1, InspectingIsAllowed, SharingIsAllowed, ChallengingIsAllowed, ProposingIsAllowed,
     VerifyingIsAllowed
<1> QED
  BY <1>2 DEF Skeptical, ??

LEMMA AblationIsAllowed ==
  ASSUME AtOpening, NEW a \in Agents, NEW p
  PROVE  Ablation(p, a) \in SUBSET Allowed(a)
<1> DEFINE shared == IF p.contradictions THEN Fresh(a) ELSE FreshSupport(a)
           against == IF p.challenge THEN FreshAgainst(a) ELSE {}
           support == IF p.screen THEN Screened(p, a, FreshSupport(a)) ELSE FreshSupport(a)
           worthwhile == (IF p.screen THEN ScreenedClaims(p, a) ELSE DOMAIN claims)
                           \cap (IF p.read_citation THEN ReadCitations(a) ELSE DOMAIN claims)
<1>1. /\ Fresh(a) \in SUBSET inspected[a] /\ FreshAgainst(a) \in SUBSET inspected[a]
      /\ FreshSupport(a) \in SUBSET inspected[a]
      /\ Screened(p, a, FreshSupport(a)) \in SUBSET inspected[a]
      /\ ScreenedClaims(p, a) \in SUBSET DOMAIN claims
  BY DEF Fresh, FreshSupport, FreshAgainst, Screened, ScreenedClaims
<1>2. /\ shared \in SUBSET inspected[a] /\ against \in SUBSET inspected[a]
      /\ support \in SUBSET inspected[a] /\ worthwhile \in SUBSET DOMAIN claims
  BY <1>1
<1>3. Ablation(p, a) = IF ~Quorate(p, a) THEN {} ELSE
        Inspecting(a) ?? Sharing(p, shared) ?? Challenging(a, against) ?? Proposing(a, support)
          ?? Verifying(a, worthwhile)
  BY DEF Ablation
<1> HIDE DEF shared, against, support, worthwhile
<1>4. /\ Inspecting(a) \in SUBSET Allowed(a) /\ Sharing(p, shared) \in SUBSET Allowed(a)
      /\ Challenging(a, against) \in SUBSET Allowed(a)
      /\ Proposing(a, support) \in SUBSET Allowed(a)
      /\ Verifying(a, worthwhile) \in SUBSET Allowed(a)
  BY <1>2, InspectingIsAllowed, SharingIsAllowed, ChallengingIsAllowed, ProposingIsAllowed,
     VerifyingIsAllowed
<1> QED
  BY <1>3, <1>4 DEF ??

LEMMA VerifierIsAllowed ==
  ASSUME AtOpening, NEW a \in Agents
  PROVE  Verifier(a) \in SUBSET Allowed(a)
<1>1. Latest(FreshAgainst(a)) \in SUBSET inspected[a]
  BY DEF Latest, FreshAgainst, Fresh
<1>2. /\ Inspecting(a) \in SUBSET Allowed(a)
      /\ Challenging(a, Latest(FreshAgainst(a))) \in SUBSET Allowed(a)
      /\ Verifying(a, DOMAIN claims) \in SUBSET Allowed(a)
  BY <1>1, InspectingIsAllowed, ChallengingIsAllowed, VerifyingIsAllowed
<1> QED
  BY <1>2 DEF Verifier, ??

LEMMA MisinformerIsAllowed ==
  ASSUME AtOpening, NEW a \in Agents
  PROVE  Misinformer(a) \in SUBSET Allowed(a)
<1>1. Supporting(a) \in SUBSET inspected[a]
  BY DEF Supporting
<1>2. Inspecting(a) \in SUBSET Allowed(a) /\ Proposing(a, Supporting(a)) \in SUBSET Allowed(a)
  BY <1>1, InspectingIsAllowed, ProposingIsAllowed
<1> QED
  BY <1>2 DEF Misinformer, ??

(* On the opening state every policy chooses what the mechanism allows. *)
LEMMA ChoiceIsAllowed ==
  ASSUME AtOpening, NEW p \in Policies, NEW a \in Agents
  PROVE  Choice(p, a) \in Allowed(a)
<1> DEFINE options == CASE p.rule = "contributor" -> Contributor(p, a)
                        [] p.rule = "freerider"   -> Freerider
                        [] p.rule = "verifier"    -> Verifier(a)
                        [] p.rule = "misinformer" -> Misinformer(a)
                        [] p.rule = "conditional" -> Conditional(p, a)
                        [] p.rule = "skeptical"   -> Skeptical(p, a)
                        [] p.rule = "ablation"    -> Ablation(p, a)
                        [] p.rule = "audit_veto"  -> AuditVeto(p, a)
<1>1. p.rule \in Rules
  BY DEF Policies
<1>2. Conditional(p, a) \in SUBSET Allowed(a)
  BY ContributorIsAllowed DEF Conditional
<1>3. AuditVeto(p, a) \in SUBSET Allowed(a)
  BY SkepticalIsAllowed DEF AuditVeto
<1>4. /\ Contributor(p, a) \in SUBSET Allowed(a) /\ Freerider \in SUBSET Allowed(a)
      /\ Verifier(a) \in SUBSET Allowed(a) /\ Misinformer(a) \in SUBSET Allowed(a)
      /\ Skeptical(p, a) \in SUBSET Allowed(a) /\ Ablation(p, a) \in SUBSET Allowed(a)
  BY ContributorIsAllowed, VerifierIsAllowed, MisinformerIsAllowed, SkepticalIsAllowed,
     AblationIsAllowed DEF Freerider
<1>5. options \in SUBSET Allowed(a)
  BY <1>1, <1>2, <1>3, <1>4 DEF Rules
<1>6. [do |-> "withhold"] \in Allowed(a)
  BY DEF Allowed, Actions, Legal
<1>7. Choice(p, a) = CHOOSE x \in options ?? {[do |-> "withhold"]} : TRUE
  BY DEF Choice
<1> HIDE DEF options
<1>8. options ?? {[do |-> "withhold"]} \in SUBSET Allowed(a)
      /\ options ?? {[do |-> "withhold"]} # {}
  BY <1>5, <1>6 DEF ??
<1> QED
  BY <1>7, <1>8

-----------------------------------------------------------------------------
(* Play implements the mechanism *)

PlayInv ==
  /\ CommonsInv /\ SightInv
  /\ cast \in [Agents -> Policies \cup {None}]
  /\ turn > 1 => \A a \in Agents : cast[a] # None => submitted[a] \in Actions(known)

LEMMA InitialPlay == PlayInit => PlayInv
<1> SUFFICES ASSUME PlayInit PROVE PlayInv
  OBVIOUS
<1>1. Init /\ cast \in Casts /\ ~(turn > 1)
  BY DEF PlayInit, Init
<1>2. cast \in [Agents -> Policies \cup {None}]
  BY <1>1, CastsAssumption
<1> QED
  BY <1>1, <1>2, InitialCommons, InitialSight DEF PlayInv

LEMMA SubmissionsAreActions ==
  ASSUME PlayInv, NEW a \in Agents, cast[a] # None
  PROVE  Submissions[a] \in Actions(known)
<1>1. CASE turn = 1
  <2>1. AtOpening /\ cast[a] \in Policies
    BY <1>1 DEF PlayInv, AtOpening
  <2>2. Choice(cast[a], a) \in Actions(known)
    BY <2>1, ChoiceIsAllowed DEF Allowed
  <2> QED
    BY <1>1, <2>2 DEF Submissions
<1>2. CASE turn # 1
  <2>1. turn > 1
    BY <1>2 DEF PlayInv, CommonsInv, TypeOK
  <2> QED
    BY <1>2, <2>1 DEF Submissions, PlayInv
<1> QED
  BY <1>1, <1>2

LEMMA PerformingIsPlay ==
  ASSUME CommonsInv, NEW a \in Agents, NEW x \in Actions(known), Perform(a, x)
  PROVE  AnyAct(a)
<1>1. 1 .. known \subseteq DOMAIN claims
  <2>1. claims \in Seq(Claims) /\ known \in 0 .. Len(claims)
    BY DEF CommonsInv, TypeOK
  <2>2. Len(claims) \in Nat /\ DOMAIN claims = 1 .. Len(claims)
    BY <2>1, LenProperties
  <2> QED
    BY <2>1, <2>2
<1>2. CASE x \in [do : {"withhold"}]
  BY <1>2 DEF Perform, AnyAct
<1>3. CASE x \in [do : {"inspect", "share"}, item : Evidence]
  BY <1>3 DEF Perform, AnyAct
<1>4. CASE x \in [do : {"propose"}, slot : Slots, proposition : Propositions,
                  cited : SUBSET Evidence]
  BY <1>4 DEF Perform, AnyAct
<1>5. CASE x \in [do : {"verify"}, claim : 1 .. known]
  BY <1>1, <1>5 DEF Perform, AnyAct
<1>6. CASE x \in [do : {"challenge"}, claim : 1 .. known, cited : SUBSET Evidence]
  BY <1>1, <1>6 DEF Perform, AnyAct
<1> QED
  BY <1>2, <1>3, <1>4, <1>5, <1>6 DEF Actions

LEMMA PlayIsPlay == PlayInv /\ [PlayNext]_playVars => [CommonsNext]_vars
<1> SUFFICES ASSUME PlayInv, [PlayNext]_playVars PROVE [CommonsNext]_vars
  OBVIOUS
<1>1. turn \in 1 .. NumAgents + 1 /\ NumAgents \in Nat \ {0}
  BY RosterAssumption DEF PlayInv, CommonsInv, TypeOK
<1>2. CASE ApplyOwn
  BY <1>2, FreePlayIsPlay DEF ApplyOwn, ApplyNext, CommonsNext, ApplyAny
<1>3. CASE ApplyChosen
  <2>1. /\ round < MaxRounds /\ turn <= NumAgents /\ cast[turn] # None
        /\ Perform(turn, Submissions[turn]) /\ turn' = turn + 1 /\ UNCHANGED opening
    BY <1>3 DEF ApplyChosen
  <2>2. turn \in Agents
    BY <1>1, <2>1 DEF Agents
  <2>3. AnyAct(turn)
    BY <2>1, <2>2, SubmissionsAreActions, PerformingIsPlay DEF PlayInv
  <2> QED
    BY <2>1, <2>3 DEF CommonsNext, ApplyAny
<1>4. CASE OpenRound \/ UNCHANGED playVars
  BY <1>4 DEF OpenRound, playVars
<1>5. CASE Adjourn
  BY <1>5 DEF Adjourn, CommonsNext
<1> QED
  BY <1>2, <1>3, <1>4, <1>5 DEF PlayNext

LEMMA PlayStep == PlayInv /\ [PlayNext]_playVars => PlayInv'
<1> SUFFICES ASSUME PlayInv, [PlayNext]_playVars PROVE PlayInv'
  OBVIOUS
<1>1. CommonsInv' /\ SightInv'
  BY PlayIsPlay, CommonsStep, SightStep DEF PlayInv
<1>2. cast' = cast
  BY DEF PlayNext, OpenRound, ApplyOwn, ApplyChosen, Adjourn, playVars
<1>3. CASE ApplyOwn \/ ApplyChosen
  <2>1. submitted' = Submissions /\ known' = known
    BY <1>3 DEF ApplyOwn, ApplyNext, ApplyChosen, opening
  <2>2. \A a \in Agents : cast[a] # None => submitted'[a] \in Actions(known)
    BY <2>1, SubmissionsAreActions
  <2> QED
    BY <1>1, <1>2, <2>1, <2>2 DEF PlayInv, Actions
<1>4. CASE Adjourn
  <2>1. turn' = 1
    BY <1>4 DEF Adjourn, CloseRound
  <2> QED
    BY <1>1, <1>2, <2>1 DEF PlayInv
<1>5. CASE OpenRound \/ UNCHANGED playVars
  <2>1. turn' = turn /\ known' = known /\ submitted' = submitted
    BY <1>5 DEF OpenRound, playVars, vars
  <2> QED
    BY <1>1, <1>2, <2>1 DEF PlayInv, Actions
<1> QED
  BY <1>3, <1>4, <1>5 DEF PlayNext

LEMMA PlayAlways == PlaySpec => []PlayInv
BY InitialPlay, PlayStep, PTL DEF PlaySpec

(* Scripted policies, whoever mixes them, and audits on top, are play of   *)
(* the mechanism and nothing else: no submission of theirs is one that     *)
(* resolve would not accept in form (ec_policies.py:54-329,                *)
(* evidence_commons.py:244-340).                                           *)
THEOREM PoliciesPlayTheMechanism == PlaySpec => CommonsSpec
<1>1. PlayInit => Init
  BY DEF PlayInit
<1> QED
  BY <1>1, PlayAlways, PlayIsPlay, PTL DEF PlaySpec, CommonsSpec

(* Nobody of the cast ever submits what validate_action refuses on the     *)
(* state the round opened with, whichever policies are asked, in every     *)
(* state other players or a branch have led to (PoliciesActLegally).       *)
THEOREM PoliciesAlwaysActLegally == PlaySpec => []PoliciesActLegally
<1>1. PlayInv => PoliciesActLegally
  <2> SUFFICES ASSUME PlayInv, Opening, NEW p \in Settings, NEW a \in Agents
               PROVE  Legal(a, Choice(p, a))
    BY DEF PoliciesActLegally
  <2>1. AtOpening /\ p \in Policies
    BY CastsAssumption DEF PlayInv, Opening, AtOpening
  <2> QED
    BY <2>1, ChoiceIsAllowed DEF Allowed
<1> QED
  BY <1>1, PlayAlways, PTL

-----------------------------------------------------------------------------
(* Audits *)

Findings == [target : Schedule, verdict : Verdicts]

AuditInv ==
  /\ Audited => reports \in Seq(Findings)
  /\ Audited /\ ~opened => turn = 1
  /\ AuditsFollowTheSchedule

(* SetToSeq lists a finite set, each of its elements once. *)
LEMMA ListedOnce ==
  ASSUME NEW S, IsFiniteSet(S)
  PROVE  /\ Cardinality(S) \in Nat /\ SetToSeq(S) \in [1 .. Cardinality(S) -> S]
         /\ \A x \in S : \E n \in 1 .. Cardinality(S) : SetToSeq(S)[n] = x
<1> DEFINE c == Cardinality(S)
<1>1. c \in Nat /\ ExistsBijection(1 .. c, S)
  BY FS_CardinalityType
<1>2. PICK f : f \in Bijection(1 .. c, S)
  BY <1>1 DEF ExistsBijection
<1>3. f \in [1 .. c -> S] /\ IsInjective(f)
  BY <1>2 DEF Bijection, Injection
<1>4. SetToSeq(S) \in [1 .. c -> S] /\ IsInjective(SetToSeq(S))
  BY <1>3 DEF SetToSeq
<1>5. SetToSeq(S) \in Injection(1 .. c, S)
  BY <1>4 DEF Injection
<1>6. IsFiniteSet(1 .. c) /\ Cardinality(1 .. c) = c
  BY <1>1, FS_Interval
<1>7. SetToSeq(S) \in Surjection(1 .. c, S)
  BY <1>5, <1>6, FS_Injection
<1> QED
  BY <1>1, <1>4, <1>7 DEF Surjection

(* Publishing what is due completes what is due, each target once. *)
LEMMA PublishingCompletes ==
  ASSUME round \in Nat, UNCHANGED round, reports \in Seq(Findings), Exactly(Earlier),
         Publish(ThroughNow \ Earlier)
  PROVE  reports' \in Seq(Findings) /\ Exactly(ThroughNow)'
<1> DEFINE due == ThroughNow \ Earlier
           c == Cardinality(due)
           list == SetToSeq(due)
<1>1. /\ IsFiniteSet(Schedule) /\ Earlier \subseteq Schedule /\ ThroughNow \subseteq Schedule
      /\ Earlier \subseteq ThroughNow
  <2>1. \A t \in Schedule : t.at \in Int
    BY RosterAssumption, ScheduleAssumption DEF ValidSchedule
  <2> QED
    BY <2>1, ScheduleAssumption DEF ValidSchedule, Earlier, ThroughNow
<1>2. IsFiniteSet(Earlier) /\ IsFiniteSet(due) /\ due \subseteq Schedule
  BY <1>1, FS_Subset
<1>3. Cardinality(ThroughNow) = Cardinality(Earlier) + c
  <2>1. Earlier \cup due = ThroughNow /\ Earlier \cap due = {}
    BY <1>1
  <2>2. Cardinality(Earlier \cup due)
          = Cardinality(Earlier) + Cardinality(due) - Cardinality(Earlier \cap due)
    BY <1>2, FS_Union
  <2>3. Cardinality(Earlier) \in Nat /\ Cardinality(due) \in Nat /\ Cardinality({}) = 0
    BY <1>2, FS_CardinalityType, FS_EmptySet
  <2>4. Cardinality(Earlier \cup due) = Cardinality(ThroughNow)
        /\ Cardinality(Earlier \cap due) = 0
    BY <2>1, <2>3
  <2> HIDE DEF due
  <2> QED
    BY <2>2, <2>3, <2>4 DEF c
<1>4. /\ c \in Nat /\ list \in [1 .. c -> due]
      /\ \A t \in due : \E n \in 1 .. c : list[n] = t
  BY <1>2, ListedOnce
<1>5. PICK verdict \in [due -> Verdicts] :
        reports' = reports \o [n \in 1 .. c |-> [target |-> list[n], verdict |-> verdict[list[n]]]]
  BY DEF Publish
<1> DEFINE new == [n \in 1 .. c |-> [target |-> list[n], verdict |-> verdict[list[n]]]]
<1> HIDE DEF due, c, list
<1>6. new \in [1 .. c -> Findings] /\ \A n \in 1 .. c : new[n].target = list[n]
  BY <1>2, <1>4 DEF Findings
<1>7. reports' = reports \o new
  BY <1>5
<1> HIDE DEF new
<1>8. new \in Seq(Findings) /\ Len(new) = c
  <2>1. new \in Seq(Findings)
    BY <1>4, <1>6, SeqDef
  <2> QED
    BY <1>4, <1>6, <2>1, LenProperties
<1>9. /\ reports' \in Seq(Findings) /\ Len(reports') = Len(reports) + c
      /\ Len(reports) \in Nat /\ DOMAIN reports = 1 .. Len(reports)
      /\ DOMAIN reports' = 1 .. Len(reports) + c
      /\ \A n \in 1 .. Len(reports) + c :
           reports'[n] = IF n <= Len(reports) THEN reports[n] ELSE new[n - Len(reports)]
  <2>1. /\ reports \o new \in Seq(Findings) /\ Len(reports \o new) = Len(reports) + Len(new)
        /\ \A n \in 1 .. Len(reports) + Len(new) :
             (reports \o new)[n] = IF n <= Len(reports) THEN reports[n] ELSE new[n - Len(reports)]
    BY <1>8, ConcatProperties
  <2>2. Len(reports) \in Nat /\ DOMAIN reports = 1 .. Len(reports)
    BY LenProperties
  <2>3. DOMAIN (reports \o new) = 1 .. Len(reports \o new)
    BY <2>1, LenProperties
  <2> QED
    BY <1>7, <1>8, <2>1, <2>2, <2>3
<1>10. Published' = Earlier \cup due
  <2>1. ASSUME NEW n \in 1 .. Len(reports) + c PROVE reports'[n].target \in Earlier \cup due
    <3>1. CASE n <= Len(reports)
      <4>1. n \in DOMAIN reports /\ reports'[n] = reports[n]
        BY <1>9, <3>1
      <4> QED
        BY <4>1 DEF Exactly, Published
    <3>2. CASE n > Len(reports)
      <4>1. n - Len(reports) \in 1 .. c /\ reports'[n] = new[n - Len(reports)]
        BY <1>4, <1>9, <3>2
      <4> QED
        BY <1>4, <1>6, <4>1
    <3> QED
      BY <1>9, <3>1, <3>2
  <2>2. ASSUME NEW t \in Earlier PROVE \E n \in 1 .. Len(reports) + c : reports'[n].target = t
    <3>1. PICK n \in DOMAIN reports : reports[n].target = t
      BY DEF Exactly, Published
    <3>2. n \in 1 .. Len(reports) + c /\ reports'[n] = reports[n]
      BY <1>4, <1>9
    <3> QED
      BY <3>1, <3>2
  <2>3. ASSUME NEW t \in due PROVE \E n \in 1 .. Len(reports) + c : reports'[n].target = t
    <3>1. PICK m \in 1 .. c : list[m] = t
      BY <1>4
    <3>2. /\ Len(reports) + m \in 1 .. Len(reports) + c
          /\ reports'[Len(reports) + m] = new[m]
      <4> DEFINE l == Len(reports)
                 n == l + m
      <4>1. l \in Nat /\ n \in 1 .. l + c /\ ~(n <= l) /\ n - l = m
        BY <1>4, <1>9
      <4>2. reports'[n] = new[n - l]
        BY <1>9, <4>1
      <4> QED
        BY <4>1, <4>2
    <3> QED
      BY <1>6, <3>1, <3>2
  <2>4. Published' = {reports'[n].target : n \in 1 .. Len(reports) + c}
    BY <1>9 DEF Published
  <2> DEFINE all == Earlier \cup due
             published == {reports'[n].target : n \in 1 .. Len(reports) + c}
  <2>5. published \subseteq all
    BY <2>1
  <2>6. all \subseteq published
    BY <2>2, <2>3
  <2> QED
    BY <2>4, <2>5, <2>6
<1>11. ThroughNow' = Earlier \cup due
  BY <1>1 DEF ThroughNow, due
<1> QED
  BY <1>3, <1>9, <1>10, <1>11 DEF Exactly, ThroughNow

LEMMA InitialAudits == PlayInit => AuditInv
<1> SUFFICES ASSUME PlayInit, Audited PROVE AuditInv
  BY DEF AuditInv, AuditsFollowTheSchedule
<1>1. reports = << >> /\ round = 0 /\ turn = 1 /\ ~opened
  BY DEF PlayInit, Init, Audited
<1>2. {t \in Schedule : t.at < round \/ (opened /\ t.at = round)} = {}
  <2>1. \A t \in Schedule : t.at \in Nat
    BY RosterAssumption, ScheduleAssumption DEF ValidSchedule
  <2> QED
    BY <1>1, <2>1
<1>3. reports \in Seq(Findings) /\ Len(reports) = 0 /\ DOMAIN reports = {}
  BY <1>1, EmptySeq, LenProperties
<1>4. Exactly({})
  BY <1>3, FS_EmptySet DEF Exactly, Published
<1> QED
  BY <1>1, <1>2, <1>3, <1>4 DEF AuditInv, AuditsFollowTheSchedule

LEMMA AuditStep == PlayInv /\ AuditInv /\ [PlayNext]_playVars => AuditInv'
<1> SUFFICES ASSUME PlayInv, AuditInv, [PlayNext]_playVars, Audited' PROVE AuditInv'
  BY DEF AuditInv, AuditsFollowTheSchedule
<1> DEFINE Due == {t \in Schedule : t.at < round \/ (opened /\ t.at = round)}
<1>1. /\ round \in Nat /\ turn \in 1 .. NumAgents + 1 /\ NumAgents \in Nat \ {0}
      /\ \A t \in Schedule : t.at \in Nat
  BY RosterAssumption, ScheduleAssumption DEF PlayInv, CommonsInv, TypeOK, ValidSchedule
<1>2. CASE OpenRound
  <2>1. /\ Audited /\ ~opened /\ opened' = TRUE /\ round' = round /\ turn' = turn
    BY <1>2 DEF OpenRound, Prepare, vars
  <2>2. reports \in Seq(Findings)
    BY <2>1 DEF AuditInv
  <2>3. reports' \in Seq(Findings) /\ Exactly(ThroughNow)'
    <3>1. CASE Exactly(ThroughNow) /\ UNCHANGED reports
      BY <2>1, <2>2, <3>1 DEF Exactly, Published, ThroughNow
    <3>2. CASE Exactly(Earlier) /\ Publish(ThroughNow \ Earlier)
      BY <1>1, <2>1, <2>2, <3>2, PublishingCompletes
    <3> QED
      BY <1>2, <3>1, <3>2 DEF OpenRound, Prepare
  <2>4. Due' = ThroughNow'
    BY <1>1, <2>1 DEF ThroughNow
  <2> QED
    BY <2>1, <2>3, <2>4 DEF AuditInv, AuditsFollowTheSchedule
<1>3. CASE ApplyOwn \/ ApplyChosen
  <2>1. opened /\ opened' = opened /\ reports' = reports /\ round' = round
    BY <1>3 DEF ApplyOwn, ApplyChosen, ApplyNext, opening
  <2> QED
    BY <2>1 DEF AuditInv, AuditsFollowTheSchedule, Audited, Exactly, Published
<1>4. CASE Adjourn
  <2>1. /\ reports' = reports /\ Audited /\ ~opened' /\ turn' = 1 /\ round' = round + 1
        /\ turn > NumAgents
    BY <1>4 DEF Adjourn, CloseRound, Audited
  <2>2. opened
    BY <1>1, <2>1 DEF AuditInv
  <2>3. Due' = Due
    BY <1>1, <2>1, <2>2
  <2>4. Exactly(Due)
    BY <2>1 DEF AuditInv, AuditsFollowTheSchedule
  <2> QED
    BY <2>1, <2>3, <2>4 DEF AuditInv, AuditsFollowTheSchedule, Exactly, Published
<1>5. CASE UNCHANGED playVars
  BY <1>5 DEF playVars, vars, AuditInv, AuditsFollowTheSchedule, Audited, Exactly, Published
<1> QED
  BY <1>2, <1>3, <1>4, <1>5 DEF PlayNext

(* For every schedule, accuracy and rate of missing verdicts, and whatever *)
(* is played: the findings are those of the schedule, once each, no later  *)
(* and no earlier than due (audited_evidence_commons.py:50-99): never do   *)
(* observe and prepare_round meet a state they refuse.                     *)
THEOREM AuditsAlwaysOnSchedule == PlaySpec => []AuditsFollowTheSchedule
<1>1. AuditInv => AuditsFollowTheSchedule
  BY DEF AuditInv
<1> QED
  BY <1>1, InitialAudits, AuditStep, PlayAlways, PTL DEF PlaySpec

-----------------------------------------------------------------------------
(* Counting peers *)

LEMMA LargestOf ==
  ASSUME NEW S \in SUBSET Nat, S # {}, NEW bound \in Nat, \A n \in S : n <= bound
  PROVE  Max(S) \in S /\ \A n \in S : n <= Max(S)
<1> DEFINE short == {bound - n : n \in S}
<1>1. short \in SUBSET Nat /\ short # {}
  <2>1. \A n \in S : bound - n \in Nat
    OBVIOUS
  <2> QED
    BY <2>1
<1>2. PICK m \in short : \A n \in short : m <= n
  BY <1>1, SmallestOf
<1>3. PICK top \in S : m = bound - top
  BY <1>2
<1>4. ASSUME NEW n \in S PROVE top >= n
  <2>1. m <= bound - n
    BY <1>2
  <2> QED
    BY <1>3, <2>1
<1>5. Max(S) \in S /\ \A n \in S : Max(S) >= n
  BY <1>4 DEF Max
<1> QED
  BY <1>5

(* Nobody verifies twice, so an anonymous claim's count counts agents. *)
LEMMA VerifiersAreCounted ==
  ASSUME NEW c \in Claims, NEW access, FairRecord(c, access)
  PROVE  /\ IsFiniteSet(Verifiers(c)) /\ Len(c.verifications) \in Nat
         /\ Cardinality(Verifiers(c)) = Len(c.verifications)
<1> DEFINE list == c.verifications
           l == Len(list)
           who == [n \in 1 .. l |-> list[n].agent]
<1>1. list \in Seq([agent : Agents, supported : BOOLEAN]) /\ Distinct(list)
  BY DEF Claims, FairRecord
<1>2. l \in Nat /\ DOMAIN list = 1 .. l
  BY <1>1, LenProperties
<1>3. IsFiniteSet(1 .. l) /\ Cardinality(1 .. l) = l
  BY <1>2, FS_Interval
<1>4. who \in Injection(1 .. l, Verifiers(c))
  BY <1>1, <1>2 DEF Injection, IsInjective, Distinct, Verifiers
<1>5. who \in Surjection(1 .. l, Verifiers(c))
  BY <1>2 DEF Surjection, Verifiers
<1>6. ExistsBijection(1 .. l, Verifiers(c))
  BY <1>4, <1>5 DEF ExistsBijection, Bijection
<1> QED
  BY <1>2, <1>3, <1>6, FS_Bijection

LEMMA AnonymousPeersAreCounted ==
  ASSUME NEW c \in Claims, NEW access, FairRecord(c, access), NEW a \in Agents
  PROVE  IsFiniteSet(Peers(a, c)) /\ AnonymousPeers(a, c) = Cardinality(Peers(a, c))
<1> DEFINE V == Verifiers(c)
           party == V \cup {c.proposer}
<1>1. /\ IsFiniteSet(V) /\ Len(c.verifications) \in Nat /\ Cardinality(V) = Len(c.verifications)
      /\ c.proposer \notin V
  BY VerifiersAreCounted DEF FairRecord
<1>2. IsFiniteSet(party) /\ Cardinality(party) = Cardinality(V) + 1
  BY <1>1, FS_AddElement
<1>3. /\ IsFiniteSet(party \ {a})
      /\ Cardinality(party \ {a}) = IF a \in party THEN Cardinality(party) - 1
                                    ELSE Cardinality(party)
  BY <1>2, FS_RemoveElement
<1>4. Peers(a, c) = party \ {a}
  BY DEF Peers
<1>5. a \in party <=> a \in V \/ a = c.proposer
  OBVIOUS
<1>6. AnonymousPeers(a, c) = (IF c.proposer # a THEN 1 ELSE 0) + Cardinality(V)
                               - (IF a \in V THEN 1 ELSE 0)
  BY <1>1 DEF AnonymousPeers
<1> DEFINE v == Cardinality(V)
           w == Cardinality(party)
<1>7. v \in Nat /\ w = v + 1
  BY <1>1, <1>2
<1> HIDE DEF V, party, v, w
<1>8. Cardinality(party \ {a}) = IF a \in V \/ a = c.proposer THEN v ELSE v + 1
  BY <1>3, <1>5, <1>7 DEF w
<1>9. AnonymousPeers(a, c) = (IF c.proposer # a THEN 1 ELSE 0) + v - (IF a \in V THEN 1 ELSE 0)
  BY <1>6 DEF v
<1>10. ~(a \in V /\ a = c.proposer)
  BY <1>1
<1> QED
  BY <1>3, <1>4, <1>7, <1>8, <1>9, <1>10

LEMMA PeersBound ==
  ASSUME CommonsInv, NEW a \in Agents
  PROVE  LET real == UNION {Peers(a, claims[k]) : k \in DOMAIN claims}
         IN /\ VisiblePeers(a) <= Cardinality(real)
            /\ institution.accountability = "attributable" => VisiblePeers(a) = Cardinality(real)
<1> DEFINE real == UNION {Peers(a, claims[k]) : k \in DOMAIN claims}
           counts == {Cardinality(Identified(a))}
                       \cup {AnonymousPeers(a, claims[k]) : k \in DOMAIN claims}
           r == Cardinality(real)
<1>1. \A k \in DOMAIN claims : claims[k] \in Claims /\ FairRecord(claims[k], visible)
  BY DEF CommonsInv, TypeOK
<1>2. IsFiniteSet(Agents)
  BY RosterAssumption, FS_Interval DEF Agents
<1>3. ASSUME NEW k \in DOMAIN claims
      PROVE  /\ IsFiniteSet(Peers(a, claims[k]))
             /\ AnonymousPeers(a, claims[k]) = Cardinality(Peers(a, claims[k]))
             /\ Peers(a, claims[k]) \subseteq Agents
  <2>1. claims[k] \in Claims /\ FairRecord(claims[k], visible)
    BY <1>1
  <2>2. claims[k].verifications \in Seq([agent : Agents, supported : BOOLEAN])
        /\ claims[k].proposer \in Agents
    BY <2>1 DEF Claims
  <2>3. \A n \in DOMAIN claims[k].verifications : claims[k].verifications[n].agent \in Agents
    <3> SUFFICES ASSUME NEW n \in DOMAIN claims[k].verifications
                 PROVE  claims[k].verifications[n].agent \in Agents
      OBVIOUS
    <3>1. claims[k].verifications[n] \in [agent : Agents, supported : BOOLEAN]
      BY <2>2, ElementOfSeq, LenProperties
    <3> QED
      BY <3>1
  <2>4. Peers(a, claims[k]) \subseteq Agents
    BY <2>2, <2>3 DEF Peers, Verifiers
  <2> QED
    BY <2>1, <2>4, AnonymousPeersAreCounted
<1>4. real \subseteq Agents
  BY <1>3
<1>5. IsFiniteSet(real) /\ r \in Nat
  BY <1>2, <1>4, FS_Subset, FS_CardinalityType
<1>6. ASSUME NEW k \in DOMAIN claims
      PROVE  /\ AnonymousPeers(a, claims[k]) \in Nat
             /\ AnonymousPeers(a, claims[k]) <= r
  <2>1. Peers(a, claims[k]) \in SUBSET real
    OBVIOUS
  <2>2. Cardinality(Peers(a, claims[k])) \in Nat /\ Cardinality(Peers(a, claims[k])) <= r
    BY <1>3, <1>5, <2>1, FS_Subset, FS_CardinalityType
  <2> QED
    BY <1>3, <2>2
<1>7. /\ Cardinality(Identified(a)) \in Nat /\ Cardinality(Identified(a)) <= r
      /\ institution.accountability = "attributable" => Cardinality(Identified(a)) = r
  <2>1. CASE institution.accountability = "attributable"
    <3>1. Identified(a) = real
      BY <2>1 DEF Identified
    <3> QED
      BY <1>5, <3>1
  <2>2. CASE institution.accountability # "attributable"
    <3>1. Identified(a) = {}
      BY <2>2 DEF Identified
    <3>2. Cardinality(Identified(a)) = 0
      BY <3>1, FS_EmptySet
    <3> QED
      BY <1>5, <2>2, <3>2
  <2> QED
    BY <2>1, <2>2
<1>8. counts \in SUBSET Nat /\ counts # {} /\ \A n \in counts : n <= r
  BY <1>6, <1>7
<1>9. Max(counts) \in counts /\ \A n \in counts : n <= Max(counts)
  <2> HIDE DEF counts, r
  <2> QED
    BY <1>5, <1>8, LargestOf
<1>10. VisiblePeers(a) = Max(counts)
  BY DEF VisiblePeers
<1>11. Cardinality(Identified(a)) \in counts
  OBVIOUS
<1>12. VisiblePeers(a) \in Nat /\ VisiblePeers(a) <= r
       /\ Cardinality(Identified(a)) <= VisiblePeers(a)
  <2> HIDE DEF counts, r
  <2> QED
    BY <1>8, <1>9, <1>10, <1>11
<1> HIDE DEF r
<1>13. institution.accountability = "attributable" => VisiblePeers(a) = r
  BY <1>5, <1>7, <1>12
<1> QED
  BY <1>12, <1>13 DEF r

(* An agent that cannot tell its peers apart never counts more of them     *)
(* than there are, and one that can counts them exactly: a quorum reached  *)
(* is a quorum of agents, for any roster and over any number of rounds     *)
(* (ec_policies.py:173-192).                                               *)
THEOREM PeersAreNeverOverstated == PlaySpec => []PeerCountIsALowerBound
<1>1. PlayInv => PeerCountIsALowerBound
  BY PeersBound DEF PlayInv, PeerCountIsALowerBound
<1> QED
  BY <1>1, PlayAlways, PTL

-----------------------------------------------------------------------------
(* Sums *)

Summed(g, f, s) ==
  IF s = {} THEN 0 ELSE f[CHOOSE x \in s : TRUE] + g[s \ {CHOOSE x \in s : TRUE}]

(* The sum of f over S, as the folds define it *)
Total(f, S) == (CHOOSE g : g = [s \in SUBSET S |-> Summed(g, f, s)])[S]

LEMMA SizeOfRest ==
  ASSUME NEW s, IsFiniteSet(s), NEW x \in s
  PROVE  /\ IsFiniteSet(s \ {x}) /\ Cardinality(s) \in Nat \ {0}
         /\ Cardinality(s \ {x}) = Cardinality(s) - 1
<1>1. IsFiniteSet(s \ {x}) /\ Cardinality(s \ {x}) = Cardinality(s) - 1
  BY FS_RemoveElement
<1>2. Cardinality(s) \in Nat /\ Cardinality(s \ {x}) \in Nat
  BY <1>1, FS_CardinalityType
<1> QED
  BY <1>1, <1>2

(* The recursion of a fold has a solution. *)
LEMMA FoldUnfolds ==
  ASSUME NEW S, IsFiniteSet(S), NEW f \in [S -> Int]
  PROVE  \E g : g = [s \in SUBSET S |-> Summed(g, f, s)]
<1> DEFINE Small(n) == {s \in SUBSET S : Cardinality(s) <= n}
           Solved(g, n) == g = [s \in Small(n) |-> Summed(g, f, s)]
           T == {n \in Nat : ~ \E g : Solved(g, n)}
<1>0. \A s \in SUBSET S : IsFiniteSet(s) /\ Cardinality(s) \in Nat
  BY FS_Subset, FS_CardinalityType
<1>1. \A n \in Nat : \E g : Solved(g, n)
  <2> SUFFICES ASSUME T # {} PROVE FALSE
    OBVIOUS
  <2>1. PICK n \in T : \A m \in T : n <= m
    BY SmallestOf
  <2> SUFFICES \E h : Solved(h, n)
    BY <2>1
  <2>2. PICK g : n # 0 => Solved(g, n - 1)
    <3>1. CASE n = 0
      BY <3>1
    <3>2. CASE n # 0
      <4>1. n \in Nat /\ n - 1 \in Nat
        BY <2>1, <3>2
      <4>2. n - 1 \notin T
        <5> HIDE DEF T
        <5> QED
          BY <2>1, <4>1
      <4> QED
        BY <4>1, <4>2
    <3> QED
      BY <3>1, <3>2
  <2> DEFINE h == [s \in Small(n) |-> Summed(g, f, s)]
  <2>3. \A s \in Small(n) : Summed(h, f, s) = Summed(g, f, s)
    <3> SUFFICES ASSUME NEW s \in Small(n), s # {} PROVE Summed(h, f, s) = Summed(g, f, s)
      BY DEF Summed
    <3>1. PICK x \in s : x = CHOOSE y \in s : TRUE
      OBVIOUS
    <3> DEFINE r == s \ {x}
    <3>2. Cardinality(s) \in Nat \ {0} /\ Cardinality(r) = Cardinality(s) - 1
      BY <1>0, SizeOfRest
    <3>3. n # 0 /\ r \in Small(n - 1) /\ r \in Small(n)
      BY <2>1, <3>2
    <3>4. h[r] = Summed(g, f, r)
      BY <3>3
    <3>5. g[r] = Summed(g, f, r)
      <4>1. PICK k : k = g
        OBVIOUS
      <4>2. k = [t \in Small(n - 1) |-> Summed(k, f, t)]
        BY <2>2, <3>3, <4>1
      <4>3. k[r] = Summed(k, f, r)
        BY <3>3, <4>2
      <4> QED
        BY <4>1, <4>3
    <3> QED
      BY <3>1, <3>4, <3>5 DEF Summed
  <2>4. h = [s \in Small(n) |-> Summed(h, f, s)]
    <3> HIDE DEF h
    <3>1. [s \in Small(n) |-> Summed(h, f, s)] = [s \in Small(n) |-> Summed(g, f, s)]
      BY <2>3
    <3> QED
      BY <3>1 DEF h
  <2> QED
    BY <2>4
<1>2. Small(Cardinality(S)) = SUBSET S
  BY FS_Subset
<1>3. Cardinality(S) \in Nat
  BY <1>0
<1>4. PICK g : Solved(g, Cardinality(S))
  BY <1>1, <1>3
<1> QED
  BY <1>2, <1>4

(* Strong induction over the subsets of a finite set, U those it holds of *)
LEMMA SubsetInduction ==
  ASSUME NEW S, IsFiniteSet(S), NEW U,
         \A s \in SUBSET S :
           (\A t \in SUBSET S : Cardinality(t) < Cardinality(s) => t \in U) => s \in U
  PROVE  \A s \in SUBSET S : s \in U
<1> DEFINE T == {n \in Nat : \E s \in SUBSET S : s \notin U /\ Cardinality(s) = n}
<1>1. \A s \in SUBSET S : Cardinality(s) \in Nat
  BY FS_Subset, FS_CardinalityType
<1> SUFFICES ASSUME NEW r \in SUBSET S, r \notin U PROVE FALSE
  OBVIOUS
<1>2. Cardinality(r) \in T
  BY <1>1
<1>3. PICK n \in T : \A m \in T : n <= m
  BY <1>2, SmallestOf
<1>4. PICK s \in SUBSET S : s \notin U /\ Cardinality(s) = n
  BY <1>3
<1>5. PICK t \in SUBSET S : Cardinality(t) < Cardinality(s) /\ t \notin U
  BY <1>4
<1>6. Cardinality(t) \in T /\ Cardinality(t) \in Nat /\ n \in Nat
  BY <1>1, <1>3, <1>5
<1> HIDE DEF T
<1> QED
  BY <1>3, <1>4, <1>5, <1>6

(* g sums f over the subsets of S *)
IsSum(g, f, S) ==
  /\ g \in [SUBSET S -> Int] /\ g[{}] = 0
  /\ \A s \in SUBSET S : s # {} =>
       g[s] = f[CHOOSE x \in s : TRUE] + g[s \ {CHOOSE x \in s : TRUE}]

LEMMA Chosen ==
  ASSUME NEW S, IsFiniteSet(S), NEW s, s \subseteq S, s # {}
  PROVE  LET x == CHOOSE x \in s : TRUE IN
         x \in S /\ s \ {x} \in SUBSET S /\ Cardinality(s \ {x}) < Cardinality(s)
<1>1. PICK x \in s : x = CHOOSE y \in s : TRUE
  OBVIOUS
<1>2. IsFiniteSet(s)
  BY FS_Subset
<1>3. Cardinality(s) \in Nat /\ Cardinality(s \ {x}) = Cardinality(s) - 1
  BY <1>1, <1>2, SizeOfRest
<1> QED
  BY <1>1, <1>3

LEMMA TotalSums ==
  ASSUME NEW S, IsFiniteSet(S), NEW f \in [S -> Int]
  PROVE  \E g : IsSum(g, f, S) /\ Total(f, S) = g[S]
<1> DEFINE Solves(g) == g = [s \in SUBSET S |-> Summed(g, f, s)]
           g == CHOOSE h : Solves(h)
<1>1. Solves(g)
  BY FoldUnfolds
<1>2. Total(f, S) = g[S]
  BY DEF Total
<1> HIDE DEF g
<1>3. \A s \in SUBSET S : g[s] = Summed(g, f, s)
  <2>1. PICK h : h = g
    OBVIOUS
  <2>2. h = [s \in SUBSET S |-> Summed(h, f, s)]
    BY <1>1, <2>1
  <2>3. \A s \in SUBSET S : h[s] = Summed(h, f, s)
    BY <2>2
  <2> QED
    BY <2>1, <2>3
<1>4. /\ g[{}] = 0
      /\ \A s \in SUBSET S : s # {} =>
           g[s] = f[CHOOSE x \in s : TRUE] + g[s \ {CHOOSE x \in s : TRUE}]
  BY <1>3 DEF Summed
<1> DEFINE U == {s \in SUBSET S : g[s] \in Int}
<1>5. ASSUME NEW s \in SUBSET S,
             \A t \in SUBSET S : Cardinality(t) < Cardinality(s) => t \in U
      PROVE  s \in U
  <2>1. CASE s = {}
    BY <1>4, <2>1
  <2>2. CASE s # {}
    <3>1. PICK x : x = CHOOSE y \in s : TRUE
      OBVIOUS
    <3>2. x \in S /\ s \ {x} \in SUBSET S /\ Cardinality(s \ {x}) < Cardinality(s)
      BY <2>2, <3>1, Chosen
    <3>3. g[s] = f[x] + g[s \ {x}]
      BY <1>4, <2>2, <3>1
    <3> QED
      BY <1>5, <3>2, <3>3
  <2> QED
    BY <2>1, <2>2
<1>6. \A s \in SUBSET S : s \in U
  <2> HIDE DEF U
  <2> QED
    BY <1>5, SubsetInduction
<1>7. g \in [SUBSET S -> Int]
  BY <1>1, <1>6
<1> QED
  BY <1>2, <1>4, <1>7 DEF IsSum

LEMMA TotalIsANumber ==
  ASSUME NEW S, IsFiniteSet(S), NEW f \in [S -> Int]
  PROVE  Total(f, S) \in Int
<1>1. PICK g : IsSum(g, f, S) /\ Total(f, S) = g[S]
  BY TotalSums
<1> QED
  BY <1>1 DEF IsSum

(* Sums are linear, *)
LEMMA TotalsAddUp ==
  ASSUME NEW S, IsFiniteSet(S), NEW c \in Int,
         NEW f \in [S -> Int], NEW e \in [S -> Int], NEW d \in [S -> Int],
         \A x \in S : f[x] = e[x] + c * d[x]
  PROVE  Total(f, S) = Total(e, S) + c * Total(d, S)
<1>1. PICK g : IsSum(g, f, S) /\ Total(f, S) = g[S]
  BY TotalSums
<1>2. PICK h : IsSum(h, e, S) /\ Total(e, S) = h[S]
  BY TotalSums
<1>3. PICK k : IsSum(k, d, S) /\ Total(d, S) = k[S]
  BY TotalSums
<1> DEFINE U == {s \in SUBSET S : g[s] = h[s] + c * k[s]}
<1>4. ASSUME NEW s \in SUBSET S,
             \A t \in SUBSET S : Cardinality(t) < Cardinality(s) => t \in U
      PROVE  s \in U
  <2>1. CASE s = {}
    BY <1>1, <1>2, <1>3, <2>1 DEF IsSum
  <2>2. CASE s # {}
    <3>1. PICK x : x = CHOOSE y \in s : TRUE
      OBVIOUS
    <3> DEFINE r == s \ {x}
    <3>2. x \in S /\ r \in SUBSET S /\ Cardinality(r) < Cardinality(s)
      BY <2>2, <3>1, Chosen
    <3>3. g[r] = h[r] + c * k[r]
      BY <1>4, <3>2
    <3>4. /\ g[s] = f[x] + g[r] /\ h[s] = e[x] + h[r] /\ k[s] = d[x] + k[r]
          /\ g[r] \in Int /\ h[r] \in Int /\ k[r] \in Int
      BY <1>1, <1>2, <1>3, <2>2, <3>1, <3>2 DEF IsSum
    <3>5. f[x] = e[x] + c * d[x] /\ e[x] \in Int /\ d[x] \in Int
      BY <3>2
    <3> HIDE DEF r
    <3>6. c * (d[x] + k[r]) = c * d[x] + c * k[r]
      BY <3>4, <3>5
    <3>7. c * d[x] \in Int /\ c * k[r] \in Int
      BY <3>4, <3>5
    <3> QED
      BY <3>3, <3>4, <3>5, <3>6, <3>7
  <2> QED
    BY <2>1, <2>2
<1>5. \A s \in SUBSET S : s \in U
  <2> HIDE DEF U
  <2> QED
    BY <1>4, SubsetInduction
<1> QED
  BY <1>1, <1>2, <1>3, <1>5

(* and add equal parts to as many times one. *)
LEMMA TotalOfEqual ==
  ASSUME NEW S, IsFiniteSet(S), NEW c \in Int
  PROVE  Total([x \in S |-> c], S) = Cardinality(S) * c
<1> DEFINE f == [x \in S |-> c]
<1>1. PICK g : IsSum(g, f, S) /\ Total(f, S) = g[S]
  <2>1. f \in [S -> Int]
    OBVIOUS
  <2> HIDE DEF f
  <2> QED
    BY <2>1, TotalSums
<1> DEFINE U == {s \in SUBSET S : g[s] = Cardinality(s) * c}
<1>2. ASSUME NEW s \in SUBSET S,
             \A t \in SUBSET S : Cardinality(t) < Cardinality(s) => t \in U
      PROVE  s \in U
  <2>1. CASE s = {}
    BY <1>1, <2>1, FS_EmptySet DEF IsSum
  <2>2. CASE s # {}
    <3>1. PICK x : x = CHOOSE y \in s : TRUE
      OBVIOUS
    <3> DEFINE r == s \ {x}
    <3>2. x \in S /\ r \in SUBSET S /\ Cardinality(r) < Cardinality(s)
      BY <2>2, <3>1, Chosen
    <3>3. g[r] = Cardinality(r) * c
      BY <1>2, <3>2
    <3>4. g[s] = f[x] + g[r] /\ f[x] = c
      BY <1>1, <2>2, <3>1, <3>2 DEF IsSum
    <3>5. Cardinality(s) \in Nat \ {0} /\ Cardinality(r) = Cardinality(s) - 1
      BY <2>2, <3>1, FS_Subset, SizeOfRest
    <3> HIDE DEF r, f
    <3>6. (Cardinality(s) - 1) * c = Cardinality(s) * c - c
      BY <3>5
    <3>7. Cardinality(s) * c \in Int
      BY <3>5
    <3> QED
      BY <3>3, <3>4, <3>5, <3>6, <3>7
  <2> QED
    BY <2>1, <2>2
<1>3. \A s \in SUBSET S : s \in U
  <2> HIDE DEF U
  <2> QED
    BY <1>2, SubsetInduction
<1> QED
  BY <1>1, <1>3

-----------------------------------------------------------------------------
(* Accountability *)

(* the institution that accounts for credit the other way *)
Converse(i) ==
  [i EXCEPT !.accountability = IF @ = "aggregate" THEN "attributable" ELSE "aggregate"]

Conversely == INSTANCE EvidenceCommons WITH institution <- Converse(institution)

(* The folds of final_rewards are sums. *)
Pool == MapThenSumSet(Credit, Agents)
Worth(s) == IF Correct(s) THEN Pay.benefit ELSE - Pay.penalty
Utilities(accountability) == MapThenSumSet(LAMBDA a : Utility(accountability, a), Agents)

LEMMA PoolIsATotal == Pool = Total([a \in Agents |-> Credit(a)], Agents)
<1> DEFINE f == [a \in Agents |-> Credit(a)]
           Body(g, s) == IF s = {} THEN 0
                         ELSE Credit(CHOOSE x \in s : TRUE) + g[s \ {CHOOSE x \in s : TRUE}]
<1>1. Pool = (CHOOSE g : g = [s \in SUBSET Agents |-> Body(g, s)])[Agents]
  BY DEF Pool, MapThenSumSet, MapThenFoldSet
<1>2. \A s \in SUBSET Agents : s # {} => (CHOOSE x \in s : TRUE) \in Agents
  OBVIOUS
<1>3. \A g : \A s \in SUBSET Agents : Body(g, s) = Summed(g, f, s)
  BY <1>2 DEF Summed
<1> HIDE DEF f, Body
<1>4. \A g : [s \in SUBSET Agents |-> Body(g, s)] = [s \in SUBSET Agents |-> Summed(g, f, s)]
  BY <1>3
<1>5. (CHOOSE g : g = [s \in SUBSET Agents |-> Body(g, s)])
        = CHOOSE g : g = [s \in SUBSET Agents |-> Summed(g, f, s)]
  BY <1>4
<1> QED
  BY <1>1, <1>5 DEF Total, f

LEMMA UtilitiesAreATotal ==
  ASSUME NEW acc
  PROVE  Utilities(acc) = Total([a \in Agents |-> Utility(acc, a)], Agents)
<1> DEFINE f == [a \in Agents |-> Utility(acc, a)]
           Body(g, s) == IF s = {} THEN 0
                         ELSE Utility(acc, CHOOSE x \in s : TRUE)
                              + g[s \ {CHOOSE x \in s : TRUE}]
<1>1. Utilities(acc) = (CHOOSE g : g = [s \in SUBSET Agents |-> Body(g, s)])[Agents]
  BY DEF Utilities, MapThenSumSet, MapThenFoldSet
<1>2. \A s \in SUBSET Agents : s # {} => (CHOOSE x \in s : TRUE) \in Agents
  OBVIOUS
<1>3. \A g : \A s \in SUBSET Agents : Body(g, s) = Summed(g, f, s)
  BY <1>2 DEF Summed
<1> HIDE DEF f, Body
<1>4. \A g : [s \in SUBSET Agents |-> Body(g, s)] = [s \in SUBSET Agents |-> Summed(g, f, s)]
  BY <1>3
<1>5. (CHOOSE g : g = [s \in SUBSET Agents |-> Body(g, s)])
        = CHOOSE g : g = [s \in SUBSET Agents |-> Summed(g, f, s)]
  BY <1>4
<1> QED
  BY <1>1, <1>5 DEF Total, f

LEMMA QualityIsATotal == Quality = Total([s \in Filled |-> Worth(s)], Filled)
<1> DEFINE f == [s \in Filled |-> Worth(s)]
           Body(g, t) == IF t = {} THEN 0
                         ELSE Worth(CHOOSE x \in t : TRUE) + g[t \ {CHOOSE x \in t : TRUE}]
<1>1. Quality = (CHOOSE g : g = [t \in SUBSET Filled |-> Body(g, t)])[Filled]
  BY DEF Quality, Worth, MapThenSumSet, MapThenFoldSet
<1>2. \A t \in SUBSET Filled : t # {} => (CHOOSE x \in t : TRUE) \in Filled
  OBVIOUS
<1>3. \A g : \A t \in SUBSET Filled : Body(g, t) = Summed(g, f, t)
  BY <1>2 DEF Summed
<1> HIDE DEF f, Body
<1>4. \A g : [t \in SUBSET Filled |-> Body(g, t)] = [t \in SUBSET Filled |-> Summed(g, f, t)]
  BY <1>3
<1>5. (CHOOSE g : g = [t \in SUBSET Filled |-> Body(g, t)])
        = CHOOSE g : g = [t \in SUBSET Filled |-> Summed(g, f, t)]
  BY <1>4
<1> QED
  BY <1>1, <1>5 DEF Total, f

LEMMA CreditIsATotal ==
  ASSUME NEW a
  PROVE  Credit(a) = Total([s \in Filled |-> CreditFor(a, s)], Filled)
<1> DEFINE f == [s \in Filled |-> CreditFor(a, s)]
           Body(g, t) == IF t = {} THEN 0
                         ELSE CreditFor(a, CHOOSE x \in t : TRUE)
                              + g[t \ {CHOOSE x \in t : TRUE}]
<1>1. Credit(a) = (CHOOSE g : g = [t \in SUBSET Filled |-> Body(g, t)])[Filled]
  BY DEF Credit, MapThenSumSet, MapThenFoldSet
<1>2. \A t \in SUBSET Filled : t # {} => (CHOOSE x \in t : TRUE) \in Filled
  OBVIOUS
<1>3. \A g : \A t \in SUBSET Filled : Body(g, t) = Summed(g, f, t)
  BY <1>2 DEF Summed
<1> HIDE DEF f, Body
<1>4. \A g : [t \in SUBSET Filled |-> Body(g, t)] = [t \in SUBSET Filled |-> Summed(g, f, t)]
  BY <1>3
<1>5. (CHOOSE g : g = [t \in SUBSET Filled |-> Body(g, t)])
        = CHOOSE g : g = [t \in SUBSET Filled |-> Summed(g, f, t)]
  BY <1>4
<1> QED
  BY <1>1, <1>5 DEF Total, f

(* What a claim earns is a number, and only finitely many claims earn. *)
LEMMA AmountsAreNumbers ==
  ASSUME CommonsInv
  PROVE  /\ IsFiniteSet(Filled) /\ Quality \in Int
         /\ \A a : Credit(a) \in Int
<1>1. /\ Pay.benefit \in Int /\ Pay.penalty \in Int
      /\ Pay.propose_correct \in Int /\ Pay.propose_wrong \in Int
      /\ Pay.verify_correct \in Int /\ Pay.verify_wrong \in Int
  BY WorldAssumption DEF Params
<1>2. claims \in Seq(Claims) /\ DOMAIN claims = 1 .. Len(claims) /\ Len(claims) \in Nat
  BY LenProperties DEF CommonsInv, TypeOK
<1>3. \A s \in Filled : Winner(s) \in DOMAIN claims /\ claims[Winner(s)].slot = s
  BY WinnerIsAContender DEF Filled, Contenders
<1>4. IsFiniteSet(Filled)
  <2>1. IsFiniteSet(DOMAIN claims)
    BY <1>2, FS_Interval
  <2>2. IsFiniteSet({claims[k].slot : k \in DOMAIN claims})
    <3> DEFINE f == [k \in DOMAIN claims |-> claims[k].slot]
               T == {claims[k].slot : k \in DOMAIN claims}
    <3>1. f \in Surjection(DOMAIN claims, T)
      BY DEF Surjection
    <3> QED
      BY <2>1, <3>1, FS_Surjection
  <2>3. Filled \subseteq {claims[k].slot : k \in DOMAIN claims}
    BY <1>3
  <2> QED
    BY <2>2, <2>3, FS_Subset
<1>5. Quality \in Int
  <2>1. [s \in Filled |-> Worth(s)] \in [Filled -> Int]
    BY <1>1 DEF Worth
  <2> QED
    BY <1>4, <2>1, QualityIsATotal, TotalIsANumber
<1>6. ASSUME NEW a PROVE Credit(a) \in Int
  <2>1. ASSUME NEW s \in Filled PROVE CreditFor(a, s) \in Int
    <3>1. Accepted(s) \in Claims
      BY <1>2, <1>3 DEF Accepted
    <3> DEFINE list == Accepted(s).verifications
               votes == {n \in DOMAIN list : list[n].agent = a /\ list[n].supported}
    <3>2. IsFiniteSet(DOMAIN list)
      <4>1. list \in Seq([agent : Agents, supported : BOOLEAN])
        BY <3>1 DEF Claims
      <4>2. DOMAIN list = 1 .. Len(list) /\ Len(list) \in Nat
        BY <4>1, LenProperties
      <4> QED
        BY <4>2, FS_Interval
    <3>3. Cardinality(votes) \in Nat
      <4>1. votes \subseteq DOMAIN list
        OBVIOUS
      <4> QED
        BY <3>2, <4>1, FS_Subset, FS_CardinalityType
    <3>4. CreditFor(a, s)
            = (IF Accepted(s).proposer # a THEN 0
               ELSE IF Correct(s) THEN Pay.propose_correct ELSE Pay.propose_wrong)
              + Cardinality(votes) * (IF Correct(s) THEN Pay.verify_correct
                                      ELSE Pay.verify_wrong)
      BY DEF CreditFor, Count
    <3> HIDE DEF votes
    <3> QED
      BY <1>1, <3>3, <3>4
  <2>2. [s \in Filled |-> CreditFor(a, s)] \in [Filled -> Int]
    BY <2>1
  <2> QED
    BY <1>4, <2>2, CreditIsATotal, TotalIsANumber
<1> QED
  BY <1>4, <1>5, <1>6

(* Pooled credit, split equally, adds up to the credit earned. *)
LEMMA TotalsAgree ==
  ASSUME CommonsInv
  PROVE  Utilities("aggregate") = Utilities("attributable")
<1>1. /\ NumAgents \in Nat /\ IsFiniteSet(Agents) /\ Cardinality(Agents) = NumAgents
  BY RosterAssumption, FS_Interval DEF Agents
<1>2. Quality \in Int /\ \A a : Credit(a) \in Int
  BY AmountsAreNumbers
<1>3. \A a \in Agents : effort[a] \in Int
  BY DEF CommonsInv, TypeOK
<1>4. PICK n : n = NumAgents
  OBVIOUS
<1>5. PICK p : p = Pool
  OBVIOUS
<1>6. PICK q : q = Quality
  OBVIOUS
<1> DEFINE credit == [a \in Agents |-> Credit(a)]
           share  == [a \in Agents |-> p]
           rest   == [a \in Agents |-> q - n * effort[a]]
           pooled == [a \in Agents |-> Utility("aggregate", a)]
           own    == [a \in Agents |-> Utility("attributable", a)]
<1>7. credit \in [Agents -> Int]
  BY <1>2
<1>8. p = Total(credit, Agents) /\ p \in Int
  BY <1>1, <1>5, <1>7, PoolIsATotal, TotalIsANumber
<1>9. n \in Int /\ q \in Int
  BY <1>1, <1>2, <1>4, <1>6
<1>10. share \in [Agents -> Int] /\ rest \in [Agents -> Int]
  BY <1>3, <1>8, <1>9
<1>11. \A a \in Agents : /\ pooled[a] = p + q - n * effort[a]
                         /\ own[a] = n * credit[a] + q - n * effort[a]
  BY <1>4, <1>5, <1>6 DEF Utility, Pool
<1>12. \A a \in Agents : /\ n * effort[a] \in Int /\ n * credit[a] \in Int
                         /\ effort[a] \in Int /\ credit[a] \in Int
  BY <1>3, <1>7, <1>9
<1>13. /\ pooled \in [Agents -> Int] /\ own \in [Agents -> Int]
       /\ \A a \in Agents : /\ pooled[a] = rest[a] + 1 * share[a]
                            /\ own[a] = rest[a] + n * credit[a]
  BY <1>8, <1>9, <1>11, <1>12
<1> HIDE DEF credit, share, rest, pooled, own
<1>14. Total(pooled, Agents) = Total(rest, Agents) + 1 * Total(share, Agents)
  BY <1>1, <1>10, <1>13, TotalsAddUp
<1>15. Total(own, Agents) = Total(rest, Agents) + n * Total(credit, Agents)
  BY <1>1, <1>7, <1>9, <1>10, <1>13, TotalsAddUp
<1>16. Total(share, Agents) = n * p
  BY <1>1, <1>4, <1>8, TotalOfEqual DEF share
<1>17. n * p \in Int
  BY <1>8, <1>9
<1>18. Total(pooled, Agents) = Total(own, Agents)
  BY <1>8, <1>14, <1>15, <1>16, <1>17
<1> QED
  BY <1>18, UtilitiesAreATotal DEF pooled, own

(* Whatever is played under one accountability can be played, step by step, *)
(* under the other, with the same briefing, collective quality, effort and  *)
(* total utility: accountability redistributes credit and leaves the task   *)
(* as it is, for every behaviour, and not only for the eight profiles for   *)
(* which the certificate of study 001 computes it (certificate.py:11-18,    *)
(* 136-160, evidence_commons.py:470-511).                                   *)
THEOREM AccountabilityOnlyRedistributes ==
  CommonsSpec => /\ Conversely!CommonsSpec
                 /\ [](/\ Conversely!Briefing = Briefing /\ Conversely!Quality = Quality
                       /\ Conversely!TotalUtility = TotalUtility)
<1>1. Init => Conversely!Init
  <2> SUFFICES ASSUME Init PROVE Conversely!Init
    OBVIOUS
  <2>1. /\ Converse(institution) \in Conversely!Institutions
        /\ Converse(institution).topology = institution.topology
    BY DEF Init, Institutions, Conversely!Institutions, Converse
  <2> QED
    BY <2>1 DEF Init, Conversely!Init, Agents, Conversely!Agents
<1>2. ASSUME CommonsInv, [CommonsNext]_vars
      PROVE  [Conversely!CommonsNext]_(Conversely!vars)
  <2>1. Converse(institution).topology = institution.topology
    BY <1>2 DEF CommonsInv, TypeOK, Institutions, Converse
  <2>2. CASE ApplyAny
    <3>1. AnyAct(turn) => Conversely!AnyAct(turn)
      <4>1. \A a, e : Inspect(a, e) => Conversely!Inspect(a, e)
        BY DEF Inspect, MayInspect, CanAccess, Spend,
               Conversely!Inspect, Conversely!MayInspect, Conversely!CanAccess, Conversely!Spend
      <4>2. \A a, e : Share(a, e) => Conversely!Share(a, e)
        BY <2>1 DEF Share, MayShare, CanAccess, Spend, Agents, Conversely!Share,
                    Conversely!MayShare, Conversely!CanAccess, Conversely!Spend, Conversely!Agents
      <4>3. \A a, s, p, cited : Propose(a, s, p, cited) => Conversely!Propose(a, s, p, cited)
        BY DEF Propose, MayPropose, CanAccess, Spend, Conversely!Propose,
               Conversely!MayPropose, Conversely!CanAccess, Conversely!Spend
      <4>4. \A a, k : Verify(a, k) => Conversely!Verify(a, k)
        BY DEF Verify, MayVerify, Verifiers, Spend, Supported, Bears,
               Conversely!Verify, Conversely!MayVerify, Conversely!Verifiers, Conversely!Spend,
               Conversely!Supported, Conversely!Bears
      <4>5. \A a, k, cited : Challenge(a, k, cited) => Conversely!Challenge(a, k, cited)
        BY DEF Challenge, MayChallenge, Challengers, CanAccess, Spend, Contradicted, Bears,
               Conversely!Challenge, Conversely!MayChallenge, Conversely!Challengers,
               Conversely!CanAccess, Conversely!Spend, Conversely!Contradicted, Conversely!Bears
      <4>6. \A a : Withhold(a) => Conversely!Withhold(a)
        BY DEF Withhold, Conversely!Withhold
      <4>7. Propositions = Conversely!Propositions
        BY DEF Propositions, Conversely!Propositions
      <4> QED
        BY <4>1, <4>2, <4>3, <4>4, <4>5, <4>6, <4>7 DEF AnyAct, Conversely!AnyAct
    <3>2. UNCHANGED opening => UNCHANGED Conversely!opening
      BY DEF opening, Conversely!opening, Converse
    <3> QED
      BY <2>2, <3>1, <3>2 DEF ApplyAny, Conversely!ApplyAny, Conversely!CommonsNext
  <2>3. CASE CloseRound
    BY <2>3 DEF CloseRound, Conversely!CloseRound, Conversely!CommonsNext, Converse
  <2>4. CASE UNCHANGED vars
    BY <2>4 DEF vars, Conversely!vars, Converse
  <2> QED
    BY <1>2, <2>2, <2>3, <2>4 DEF CommonsNext
<1>3. CommonsSpec => Conversely!CommonsSpec
  BY <1>1, <1>2, CommonsAlways, PTL DEF CommonsSpec, Conversely!CommonsSpec
<1>4. \A s : Conversely!Winner(s) = Winner(s)
  BY DEF Winner, Contenders, NetSupport, Count, Cardinality, Conversely!Winner,
         Conversely!Contenders, Conversely!NetSupport, Conversely!Count, Conversely!Cardinality
<1>5. Conversely!Briefing = Briefing
  BY <1>4 DEF Briefing, Accepted, Conversely!Briefing, Conversely!Accepted
<1>6. Conversely!Quality = Quality
  BY DEF Quality, Filled, Winner, Contenders, NetSupport, Count, Accepted, Correct, Cardinality,
         MapThenSumSet, MapThenFoldSet, Conversely!Quality, Conversely!Filled,
         Conversely!Winner, Conversely!Contenders, Conversely!NetSupport, Conversely!Count,
         Conversely!Accepted, Conversely!Correct, Conversely!Cardinality,
         Conversely!MapThenSumSet, Conversely!MapThenFoldSet
<1>7. Conversely!TotalUtility = Utilities(Converse(institution).accountability)
  BY DEF Utilities, Utility, Credit, CreditFor, Quality, Filled, Winner, Contenders,
         NetSupport, Count, Accepted, Correct, Agents, Cardinality, MapThenSumSet,
         MapThenFoldSet, Conversely!TotalUtility, Conversely!Utility, Conversely!Credit,
         Conversely!CreditFor, Conversely!Quality, Conversely!Filled, Conversely!Winner,
         Conversely!Contenders, Conversely!NetSupport, Conversely!Count, Conversely!Accepted,
         Conversely!Correct, Conversely!Agents, Conversely!Cardinality,
         Conversely!MapThenSumSet, Conversely!MapThenFoldSet
<1>8. CommonsInv => Conversely!TotalUtility = TotalUtility
  <2> SUFFICES ASSUME CommonsInv PROVE Conversely!TotalUtility = TotalUtility
    OBVIOUS
  <2>1. TotalUtility = Utilities(institution.accountability)
    BY DEF TotalUtility, Utilities
  <2>2. \/ /\ institution.accountability = "aggregate"
           /\ Converse(institution).accountability = "attributable"
        \/ /\ institution.accountability = "attributable"
           /\ Converse(institution).accountability = "aggregate"
    BY DEF CommonsInv, TypeOK, Institutions, Converse
  <2> QED
    BY <1>7, <2>1, <2>2, TotalsAgree
<1> QED
  BY <1>3, <1>5, <1>6, <1>8, CommonsAlways, PTL

-----------------------------------------------------------------------------
(* What holds of all play holds when policies play, under audits or not:   *)
(* nobody supports a claim twice or its own, what is accepted has its      *)
(* provenance, a round is simultaneous but for shares, and private acts    *)
(* stay unobserved.                                                        *)
THEOREM PolicyPlayIsSound ==
  PlaySpec => /\ [](TypeOK /\ SupportIsNotInflated)
              /\ [](AcceptedClaimsHaveProvenance /\ OrderMattersOnlyThroughShares)
              /\ PrivateActsAreUnobserved
BY PoliciesPlayTheMechanism, TypeCorrect, SupportIsOneVotePerPeer, AcceptedClaimsAreSupported,
   RoundsAreSimultaneous, PrivateActsStayUnobserved, PTL

(* So does it of the free play of the mechanism alone. *)
THEOREM FreePlayIsSound ==
  Spec => /\ [](TypeOK /\ SupportIsNotInflated)
          /\ [](AcceptedClaimsHaveProvenance /\ OrderMattersOnlyThroughShares)
          /\ PrivateActsAreUnobserved
<1>1. [Next]_vars => [CommonsNext]_vars
  BY FreePlayIsPlay DEF Next, ApplyNext, CommonsNext, ApplyAny
<1>2. Spec => CommonsSpec
  BY <1>1, PTL DEF Spec, CommonsSpec
<1> QED
  BY <1>2, TypeCorrect, SupportIsOneVotePerPeer, AcceptedClaimsAreSupported,
     RoundsAreSimultaneous, PrivateActsStayUnobserved, PTL
=============================================================================
