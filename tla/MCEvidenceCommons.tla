-------------------------- MODULE MCEvidenceCommons --------------------------
(***************************************************************************)
(* One slot with a true and a false proposition; for and against the truth *)
(* there is fresh evidence in different hands, the truth has a second      *)
(* source, the falsehood a stale item and one a misled source calls fresh. *)
(***************************************************************************)
EXTENDS CommonsPolicies

MCCandidates == [s \in {"slot"} |-> {"true", "false"}]
MCTruth == [s \in {"slot"} |-> "true"]
Item(source, p, stance, freshness) == [source |-> source, slot |-> "slot", proposition |-> p,
                                       stance |-> stance, freshness |-> freshness]
MCFacts == <<Item("s1", "true", "supports", "fresh"), Item("s2", "true", "contradicts", "fresh"),
             Item("s3", "true", "supports", "fresh"), Item("s1", "false", "supports", "stale"),
             Item("s2", "false", "supports", "fresh")>>
MCHolders == <<{1}, {2}, {1, 3}, {3}, {2}>>

MCCost == [inspect |-> 1, share |-> 1, propose |-> 1, verify |-> 2, challenge |-> 1]
MCPay == [benefit |-> 12, penalty |-> 12, propose_correct |-> 3, propose_wrong |-> -3,
          verify_correct |-> 2, verify_wrong |-> -2]

Plain(rule) == [rule |-> rule, share |-> TRUE, warmup |-> 2, quorum |-> <<1, 2>>, min_sources |-> 1,
                screen |-> TRUE, contradictions |-> TRUE, challenge |-> TRUE, read_citation |-> TRUE]
Strict(rule) == [Plain(rule) EXCEPT !.min_sources = 2, !.quorum = <<1, 1>>, !.warmup = 3]
Half == [Plain("ablation") EXCEPT !.screen = FALSE, !.challenge = FALSE]
Secretive == [Plain("contributor") EXCEPT !.share = FALSE]

MCSettings == {Plain(r) : r \in Rules} \cup {Strict("ablation"), Half, Secretive}
Veto == Plain("audit_veto")
MCSchedule == {[slot |-> "slot", proposition |-> "false", at |-> 1],
               [slot |-> "slot", proposition |-> "true", at |-> 4]}
MostlyRight == <<9, 10>>
SometimesMissing == <<1, 10>>
MCAuditedCasts == {<<Veto, Veto, Veto>>, <<Veto, Plain("contributor"), Plain("misinformer")>>,
                   <<Plain("verifier"), Plain("misinformer"), Veto>>}
Scripted == {Plain(r) : r \in Rules \ {"ablation", "freerider", "audit_veto"}} \cup {Strict("skeptical"), Half, Secretive}
MCCasts ==
  {[a \in Agents |-> None]} \cup MCAuditedCasts \cup [Agents -> Scripted]
    \cup {<<None, p, q>> : p \in {Plain("skeptical"), Plain("misinformer")}, q \in {Plain("conditional"), Plain("verifier")}}

\* Whoever is free plays three rounds; only agent 1 inspects then, and once.
\* A second claim is not followed into the last of them.
Free(a) == cast[a] = None
Small ==
  \/ \A a \in Agents : ~Free(a)
  \/ /\ round < 3 \/ (round = 3 /\ turn = 1)
     /\ \A a \in Agents : Free(a) => budgets[a].inspect >= InspectBudget - (IF a = 1 THEN 1 ELSE 0)
     /\ Len(claims) >= 2 => round < 2 \/ (round = 2 /\ turn = 1)
=============================================================================
