----------------------------- MODULE MCSemanticCi -----------------------------
(* A build, a test and a product suite under every annotation: with        *)
(* default, explicit, missing, cyclic and unknown needs.                   *)
EXTENDS SemanticCi

CONSTANTS build, test, product, typo

MCSuite == {build, test, product}
MCBuild == {build}
MCRef   == MCSuite \union {typo}

NeedsOf ==
  {[s \in MCSuite |-> CASE s = build -> b [] s = test -> t [] s = product -> p] :
     b \in {Unset, {product}}, t \in {Unset, {}, {test, product}},
     p \in {Unset, {test}, {typo}}}

MCDeclarations ==
  {[needs |-> n, cargo |-> c, prImpact |-> TRUE, prJobs |-> p] :
     n \in NeedsOf, c \in SUBSET MCSuite, p \in {Unset, {test}, {build, test}}}
  \union
  {[needs |-> n, cargo |-> {build}, prImpact |-> FALSE, prJobs |-> Unset] :
     n \in NeedsOf}

MCEvent == {"push", "pull", "draft"}
=============================================================================
