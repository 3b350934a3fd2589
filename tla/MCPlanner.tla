------------------------------ MODULE MCPlanner ------------------------------
(* Five checks.  Either three patterns contradict one another on the first *)
(* of them, under every shard count, or every check has a weight of its    *)
(* own and the last two may form a group.                                  *)
EXTENDS PlanQuality

Pattern(names, w, i, a) ==
  [matches |-> names, weight |-> w, isolate |-> i, affinity |-> a]

Contradictions ==
  {<<Pattern(A, 3, TRUE, Unset), Pattern(B, Unset, i, g), Pattern(C, w, Unset, h)>> :
     A \in SUBSET {1, 2, 3},
     B \in SUBSET {1, 2, 3}, C \in {{}, {1}, {2, 3}, {3, 4}},
     w \in {2, Unset}, i \in {FALSE, Unset}, g, h \in {1, Unset}}

Own(c, w, g) == Pattern({c}, w, Unset, g)

Weightings ==
  {<<Own(1, u, Unset), Own(2, v, Unset), Own(3, w, Unset), Own(4, x, g), Own(5, y, g)>> :
     u, v, w, x, y \in 1 .. 3, g \in {1, Unset}}

AllIsolated == {<<Pattern(Check, Unset, TRUE, Unset)>>}

MCInputs == [count : 1 .. 3, hints : Contradictions]
            \union [count : 2 .. 3, hints : Weightings]
            \union [count : 4 .. MaxShards, hints : AllIsolated]
=============================================================================
