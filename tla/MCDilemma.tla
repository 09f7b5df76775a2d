----------------------------- MODULE MCDilemma -----------------------------
(***************************************************************************)
(* Three agents on the complete graph, a path, and an edge with an         *)
(* isolate; four agents on a path, so that defection takes rounds to       *)
(* travel; and the declared cells of two experiments.                      *)
(***************************************************************************)
EXTENDS GraphTopology, ExactReciprocity

MCPay == [T |-> 5, R |-> 3, P |-> 1, S |-> 0]

Complete == <<{2, 3}, {1, 3}, {1, 2}>>
Path == <<{2}, {1, 3}, {2}>>
Isolate == <<{2}, {1}, {}>>
LongPath == <<{2}, {1, 3}, {2, 4}, {3}>>

World(kind, mode, aggregation, rounds, neighbours) ==
  [kind |-> kind, mode |-> mode, aggregation |-> aggregation, rounds |-> rounds,
   neighbours |-> neighbours]

Plain(name) ==
  [name |-> name, explores |-> FALSE, include_self |-> FALSE, num |-> 1, den |-> 2]

PairPolicies ==
  {Plain(n) : n \in {"allc", "alld", "random", "tft_pairwise", "tft_linked"}}
  \cup {[Plain("tft_pairwise") EXCEPT !.explores = TRUE]}

GroupPolicies ==
  {Plain(n) : n \in {"alld", "random", "ptft", "tft_threshold"}}
  \cup {[Plain("ptft") EXCEPT !.include_self = TRUE], [Plain("tft_threshold") EXCEPT !.num = 2]}

(* all casts with a bounded number of agents that have a choice of their own *)
Free(p) == p.explores \/ p.name = "random"
Casts(n, allowed, free) ==
  {c \in [1 .. n -> allowed] : Cardinality({a \in 1 .. n : Free(c[a])}) <= free}

With(free, w, allowed) ==
  {[world |-> w, policies |-> c] : c \in Casts(Len(w.neighbours), allowed, free)}
Of(w, allowed) == With(1, w, allowed)

(* the designs of the exact law, played for as many rounds as the law is   *)
(* computed for; the complete graphs in the legacy engine too              *)
Cast(n, fixed, includes) ==
  [a \in 1 .. n |-> IF a \in fixed THEN Plain("alld") ELSE [Plain("ptft") EXCEPT !.include_self = includes]]

Horizon(n, fixed) == IF n - Cardinality(fixed) = 4 THEN 3 ELSE 4

ExactSettings ==
  {[world |-> World("nipd_graph", "neighbourhood", "mean", Horizon(Len(d[1]), d[2]), d[1]),
    policies |-> Cast(Len(d[1]), d[2], includes)] : d \in Designs, includes \in BOOLEAN}

LegacyToo(settings) ==
  settings \cup {[s EXCEPT !.world.kind = "nipd"] :
                   s \in {x \in settings : x.world.neighbours = CompleteGraph(Len(x.world.neighbours))}}

MCSettings ==
  {Scenarios[cell] : cell \in Cells} \cup LegacyToo(ExactSettings)
  \cup With(2, World("nipd", "pairwise", "sum", 3, Complete), PairPolicies)
  \cup With(2, World("nipd", "neighbourhood", "mean", 3, Complete), GroupPolicies)
  \cup UNION {Of(World("nipd_graph", "pairwise", g, 3, Path), PairPolicies) : g \in {"sum", "mean"}}
  \cup UNION {Of(World("nipd_graph", "neighbourhood", "mean", 3, n), GroupPolicies) :
                n \in {Path, Isolate}}
  \cup Of(World("nipd_graph", "pairwise", "sum", 4, LongPath),
          {Plain(n) : n \in {"random", "tft_pairwise", "tft_linked"}})
  \cup Of(World("nipd_graph", "neighbourhood", "sum", 4, LongPath),
          {Plain(n) : n \in {"random", "ptft", "tft_threshold"}})
=============================================================================
