-------------------------- MODULE SimultaneousGame --------------------------
(***************************************************************************)
(* What an episode promises, without a ledger: agents play whole rounds    *)
(* simultaneously, every move of a round is legal at the history the round *)
(* started from, and the game ends once, either complete or failed with    *)
(* the unfinished round leaving no trace in the history.                   *)
(***************************************************************************)
EXTENDS Naturals, Sequences

CONSTANTS Agents, Actions, MaxRounds, LegalMove(_, _, _)

VARIABLES history,  \* joint actions of the rounds played so far
          verdict   \* "open", "completed" or "failed"

GameInit == history = << >> /\ verdict = "open"

PlayRound ==
  /\ verdict = "open" /\ Len(history) < MaxRounds
  /\ \E profile \in [Agents -> Actions] :
       /\ \A i \in Agents : LegalMove(history, i, profile[i])
       /\ history' = Append(history, profile)
  /\ UNCHANGED verdict

Complete ==
  /\ verdict = "open" /\ Len(history) = MaxRounds
  /\ verdict' = "completed" /\ UNCHANGED history

Fail ==
  /\ verdict = "open" /\ Len(history) < MaxRounds
  /\ verdict' = "failed" /\ UNCHANGED history

GameNext == PlayRound \/ Complete \/ Fail

GameSpec == GameInit /\ [][GameNext]_<<history, verdict>>
=============================================================================
