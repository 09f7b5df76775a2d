------------------------- MODULE MCProviderRequests -------------------------
(***************************************************************************)
(* Small instances of ProviderRequests: limits that are reached in the     *)
(* middle of a completion, a repair and a later episode, and a deadline    *)
(* that a retry delay runs into.                                           *)
(***************************************************************************)
EXTENDS ProviderRequests

Limit(episode, run, deadline) == [episode |-> episode, run |-> run, deadline |-> deadline]

MCLimits == {Limit(3, 4, None), Limit(4, 6, None), Limit(1, None, None),
             Limit(None, 3, 1), Limit(None, MaxRequests + 1, None)}

\* The widest limit, which only the retries keep an episode from, for one episode.
WideOnce == limits.run = MaxRequests + 1 => Len(manifests) <= 1 /\ budget.scope = "episode"
=============================================================================
