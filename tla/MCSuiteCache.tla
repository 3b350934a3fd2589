----------------------------- MODULE MCSuiteCache -----------------------------
(* The declarations of MCSemanticCi without a cache; those with an         *)
(* unannotated chain of suites and every job in pull requests also with    *)
(* the cache, under every option.  Where the test needs no build, the two  *)
(* restore and end in any order, and either may be the writer.             *)
EXTENDS TLC, MCSemanticCi, SuiteCache

NoCache == [users |-> {}, writer |-> Unset, mainOnly |-> FALSE]

Options ==
  {[users |-> u, writer |-> w, mainOnly |-> m] :
     u \in {MCSuite, {build, test}}, w \in {Unset, build, test},
     m \in BOOLEAN}
  \union {[users |-> {test}, writer |-> w, mainOnly |-> FALSE] : w \in {build, typo}}

Cached ==
  {[needs |-> (test :> n[1] @@ product :> n[2] @@ build :> Unset),
    cargo |-> {}, prImpact |-> TRUE, prJobs |-> Unset] :
     n \in {<<Unset, {test}>>, <<{}, {test}>>}}

MCCaches(d) == {NoCache} \union (IF d \in Cached THEN Options ELSE {})
=============================================================================
