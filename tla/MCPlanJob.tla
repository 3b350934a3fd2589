------------------------------- MODULE MCPlanJob -------------------------------
(* The planner's instance.  For one configuration Nix shows every graph    *)
(* over three derivations of checks and one in between, two of which may   *)
(* depend on themselves, and some that are not complete; for others it     *)
(* shows a single edge, or a graph in which a derivation is missing.       *)
EXTENDS MCPlanner, DerivationGraph

CONSTANTS a, b, c, d

MCNode == {a, b, c, d}

MCDrv == <<a, b, c, c, b>>

Shown(deps, keys) == [drv |-> MCDrv, keys |-> keys, deps |-> deps]

Once == [n \in MCNode |-> 1]

Every ==
  {[n \in MCNode |-> CASE n = a -> A [] n = b -> B [] n = c -> C [] n = d -> D] :
     A \in SUBSET MCNode, B \in SUBSET {a, c, d}, C \in SUBSET {a, b, d},
     D \in SUBSET MCNode}

Edge == [n \in MCNode |-> IF n = a THEN {b} ELSE {}]

(* The first two checks are isolated, the others share the third shard.    *)
Base == [count |-> 3,
         hints |-> <<Pattern({1, 2}, 3, TRUE, Unset), Pattern({}, Unset, Unset, Unset),
                     Pattern({}, Unset, Unset, Unset)>>]

Broken == {Shown(Edge, [Once EXCEPT ![n] = k]) : n \in MCNode, k \in {0, 2}}

MCGraphs(i) ==
  CASE i = Base -> {Shown(deps, Once) : deps \in Every} \union Broken
    [] i # Base /\ i.count = 2 /\ Len(i.hints) = 3 -> {Shown(Edge, Once)}
    [] OTHER -> {Shown(Edge, [Once EXCEPT ![b] = 0])}
=============================================================================
