---------------------------- MODULE DerivationGraph ----------------------------
(***************************************************************************)
(* The plan job of the DAG backends after make_plan has returned: analyze  *)
(* of lib/flake-check-dag.py asks Nix for the recursive derivation graph   *)
(* of the planned checks, and graph_summary projects it on the checks.  A  *)
(* depth first search collects the ancestors of each check's derivation,   *)
(* with a memo and a set of nodes being visited; dependencies between      *)
(* checks and their waves follow.  partition of lib/flake-dag-stages.py    *)
(* then fans out the checks that depend on no other.                       *)
(***************************************************************************)
EXTENDS CheckPlanner

CONSTANTS
  Node,       \* derivations, in the form normalize() gives their paths
  Graphs(_)   \* what Nix may show for the checks of a configuration

(* drv: the derivation of each planned check.  keys: how many keys of the  *)
(* JSON object normalise to a node (absolute and store-relative paths).    *)
(* deps: the input derivations listed for it.                              *)
Graph == [drv : [Check -> Node], keys : [Node -> 0 .. 2], deps : [Node -> SUBSET Node]]

ASSUME GraphsAssumption == \A i \in Inputs : Graphs(i) \subseteq Graph

VARIABLES
  graph,   \* the graph that Nix showed
  stage,   \* the part of graph_summary that runs next, or how it ended
  stack,   \* calls of ancestors() in progress: `visiting`, outermost first
  known,   \* the keys of `memo`
  memo,    \* ... and its values
  waved,   \* the keys of `waves`
  wave     \* ... and its values

graphVars == <<graph, stage, stack, known, memo, waved, wave>>
planVars  == vars
jobVars   == <<vars, graphVars>>

GraphInit ==
  /\ graph = [drv |-> [c \in Check |-> CHOOSE n \in Node : TRUE],
              keys |-> [n \in Node |-> 0], deps |-> [n \in Node |-> {}]]
  /\ stage = "show"
  /\ stack = << >>
  /\ known = {}
  /\ memo = [n \in Node |-> {}]
  /\ waved = {}
  /\ wave = [c \in Check |-> 0]

-----------------------------------------------------------------------------
(* Validation.                                                             *)

Listed == {n \in Node : graph.keys[n] > 0}

Wellformed ==
  /\ \A n \in Node : graph.keys[n] # 2
  /\ \A n \in Listed : graph.deps[n] \subseteq Listed
  /\ \A c \in Check : graph.drv[c] \in Listed

(* `nix derivation show --recursive` on the planned checks.                *)
Show ==
  /\ stage = "show"
  /\ graph' \in Graphs(input)
  /\ stage' = "normalize"
  /\ UNCHANGED <<planVars, stack, known, memo, waved, wave>>

Normalize ==
  /\ stage = "normalize"
  /\ stage' = IF Wellformed THEN "search" ELSE "invalid"
  /\ UNCHANGED <<planVars, graph, stack, known, memo, waved, wave>>

-----------------------------------------------------------------------------
(* ancestors().                                                            *)

Visiting == {stack[i] : i \in DOMAIN stack}
Top      == stack[Len(stack)]

(* Checks whose ancestors are asked for: all, unless there is but one.     *)
Wanted == {c \in Check : Check # {c} /\ graph.drv[c] \notin known}

CallAncestors ==
  /\ stage = "search" /\ stack = << >>
  /\ \E c \in Wanted : IsLeast(c, Wanted) /\ stack' = <<graph.drv[c]>>
  /\ UNCHANGED <<planVars, graph, stage, known, memo, waved, wave>>

(* A dependency without a memo is visited, in no particular order.         *)
Descend ==
  /\ stage = "search" /\ stack # << >>
  /\ \E d \in graph.deps[Top] \ known :
       IF d \in Visiting THEN stage' = "cyclic" /\ UNCHANGED stack
                         ELSE stack' = Append(stack, d) /\ UNCHANGED stage
  /\ UNCHANGED <<planVars, graph, known, memo, waved, wave>>

(* Mutant: the memo of a node misses what its dependencies collected.      *)
CollectedMutant(n) == graph.deps[n]

Collected(n) == graph.deps[n] \union UNION {memo[d] : d \in graph.deps[n]}

Return ==
  /\ stage = "search" /\ stack # << >>
  /\ graph.deps[Top] \subseteq known
  /\ memo' = [memo EXCEPT ![Top] = Collected(Top)]
  /\ known' = known \union {Top}
  /\ stack' = SubSeq(stack, 1, Len(stack) - 1)
  /\ UNCHANGED <<planVars, graph, stage, waved, wave>>

SearchEnds ==
  /\ stage = "search" /\ stack = << >> /\ Wanted = {}
  /\ stage' = "waves"
  /\ UNCHANGED <<planVars, graph, stack, known, memo, waved, wave>>

-----------------------------------------------------------------------------
(* Dependencies between checks, and waves.                                 *)

(* Mutant: only direct inputs count, not those through other derivations.  *)
DependenciesMutant(c) == {d \in Check \ {c} : graph.drv[d] \in graph.deps[graph.drv[c]]}

(* checkDependencies.  Checks may share a derivation: that is no edge.     *)
Dependencies(c) == {d \in Check \ {c} : graph.drv[d] \in memo[graph.drv[c]]}

Ready == {c \in Check \ waved : Dependencies(c) \subseteq waved}

(* Mutant: the number of dependencies instead of the deepest one.          *)
DepthMutant(c) == Cardinality(Dependencies(c))

Depth(c) ==
  LET S == {0} \union {wave[d] + 1 : d \in Dependencies(c)}
  IN CHOOSE v \in S : \A u \in S : u <= v

WaveReturns ==
  /\ stage = "waves"
  /\ \E c \in Ready :
       /\ IsLeast(c, Ready)
       /\ wave' = [wave EXCEPT ![c] = Depth(c)]
       /\ waved' = waved \union {c}
  /\ UNCHANGED <<planVars, graph, stage, stack, known, memo>>

WavesEnd ==
  /\ stage = "waves" /\ waved = Check
  /\ stage' = "summary"
  /\ UNCHANGED <<planVars, graph, stack, known, memo, waved, wave>>

(* The second search, over checks, would raise where no check is ready: a  *)
(* deadlock here.                                                          *)
Summarised ==
  /\ stage \in {"invalid", "cyclic", "summary"}
  /\ UNCHANGED jobVars

AnalyzeStep == \/ Show \/ Normalize \/ CallAncestors \/ Descend \/ Return
               \/ SearchEnds \/ WaveReturns \/ WavesEnd \/ Summarised

JobInit == Init /\ GraphInit

JobNext == \/ pc # "done" /\ Next /\ UNCHANGED graphVars
           \/ pc = "done" /\ AnalyzeStep

JobSpec == JobInit /\ [][JobNext]_jobVars

-----------------------------------------------------------------------------
(* partition.                                                              *)

Initial == {c \in Check : Dependencies(c) = {}}

Leaf(s) == shards[s] \intersect Initial

-----------------------------------------------------------------------------
(* Reference definitions and properties.                                   *)

(* The least set with the dependencies of n that is closed under taking    *)
(* dependencies.                                                           *)
Closed(S)    == \A m \in S : graph.deps[m] \subseteq S
Ancestors(n) == {m \in Node : \A S \in SUBSET Node :
                                graph.deps[n] \subseteq S /\ Closed(S) => m \in S}

(* The search is exact although it stops at memoised nodes and at the      *)
(* first node met twice: every finished node has precisely its transitive  *)
(* dependencies, an error means a real cycle, and no graph with a cycle    *)
(* above a check gets through (ancestors).                                 *)
AncestorsExact ==
  /\ stage \in {"cyclic", "summary"} => \A n \in known : memo[n] = Ancestors(n)
  /\ stage = "cyclic" => \E n \in Node : n \in Ancestors(n)
  /\ stage = "summary" =>
       \A c \in Check : Check # {c} =>
         \A n \in {graph.drv[c]} \union Ancestors(graph.drv[c]) : n \notin Ancestors(n)

(* Checks of which any two depend on one another, below c.                 *)
IsChain(K, c) ==
  /\ K \subseteq Dependencies(c)
  /\ \A a, b \in K : a # b => a \in Dependencies(b) \/ b \in Dependencies(a)

(* The wave of a check is the length of the longest chain of checks below  *)
(* it: no wave is too early, none is wasted (checkWaves,                   *)
(* criticalCheckDepth).                                                    *)
WavesExact ==
  stage = "summary" =>
    \A c \in Check :
      /\ \E K \in SUBSET Dependencies(c) : IsChain(K, c) /\ Cardinality(K) = wave[c]
      /\ \A K \in SUBSET Dependencies(c) : IsChain(K, c) => Cardinality(K) <= wave[c]

(* What one program of the job writes the next one accepts: the leaves are *)
(* not empty, hold every check that may start and no two that depend on    *)
(* one another, and each delayed check depends on one of them (make_plan,  *)
(* graph_summary, partition).                                              *)
FanOutComplete ==
  stage = "summary" =>
    /\ Initial # {}
    /\ UNION {Leaf(s) : s \in Planned} = Initial
    /\ \A c, d \in Initial : c # d => graph.drv[c] \notin Ancestors(graph.drv[d])
    /\ \A c \in Check \ Initial : Dependencies(c) \intersect Initial # {}
=============================================================================
