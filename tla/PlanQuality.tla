----------------------------- MODULE PlanQuality -----------------------------
(***************************************************************************)
(* Reference definitions for the plans of CheckPlanner: what can be        *)
(* planned at all, what a unit weighs, and how good a plan can be.         *)
(***************************************************************************)
EXTENDS CheckPlanner, FiniteSetsExt, Functions

(* Some assignment of the checks to shards gives every isolated check a    *)
(* shard of its own.                                                       *)
Feasible ==
  \E f \in [Check -> 1 .. input.count] :
    \A c \in Isolated : \A d \in Check \ {c} : f[c] # f[d]

(* make_plan raises only when no plan could honour the hints; it neither   *)
(* rejects a possible plan nor runs out of shards half way.                *)
RejectsOnlyInfeasible == pc = "error" => Conflict \/ ~Feasible

(* The units that have to be placed, and what each weighs.                 *)
UnitKeys == {KeyOf(c) : c \in Rest}

Weights == [c \in Check |-> Weight(c)]

UnitWeight ==
  [k \in UnitKeys |-> SumFunctionOnSet(Weights, {c \in Rest : KeyOf(c) = k})]

Makespan(f) ==
  Max({SumFunctionOnSet(UnitWeight, {k \in UnitKeys : f[k] = s}) : s \in Available})

(* The least makespan of any assignment of the units to their shards.      *)
Optimum == Min({Makespan(f) : f \in [UnitKeys -> Available]})

(* Longest-processing-time-first: the slowest shard takes at most 4/3 -    *)
(* 1/(3m) of the best possible time on m shards (Graham's bound).          *)
WithinGrahamBound ==
  pc = "done" /\ Rest # {} =>
    LET m == Cardinality(Available)
    IN 3 * m * Max({load[s] : s \in Available}) <= (4 * m - 1) * Optimum
=============================================================================
