---------------------------- MODULE ExactHeadGate ----------------------------
(***************************************************************************)
(* What every flake backend of the repository promises its caller: the     *)
(* required check of a commit turns green only when each derivation of an  *)
(* inventory evaluated from that commit has been realised: some machine    *)
(* really built it, or found its output in its own store.  How plans,      *)
(* runners, caches, artifacts and re-runs bring that about is left to the  *)
(* modules that refine this one.                                           *)
(***************************************************************************)

CONSTANTS
  Drv,           \* derivations a check of this commit can evaluate to
  Inventories    \* the inventories (sets of derivations) Nix may evaluate

VARIABLES
  verdict,       \* what branch protection sees: "open", "green" or "red"
  inventory,     \* the inventory in force; {} until one is evaluated
  built          \* derivations some machine has realised for this commit

vars == <<verdict, inventory, built>>

TypeOK ==
  /\ verdict \in {"open", "green", "red"}
  /\ inventory \in Inventories \union {{}}
  /\ built \subseteq Drv

Init ==
  /\ verdict = "open"
  /\ inventory = {}
  /\ built = {}

(* Nix evaluates the check set; only an undecided commit is re-evaluated.  *)
Evaluate ==
  /\ verdict = "open"
  /\ inventory' \in Inventories
  /\ UNCHANGED <<verdict, built>>

(* A runner realises some derivations, whatever becomes of its job.        *)
Build ==
  /\ verdict = "open"
  /\ \E D \in SUBSET Drv : built' = built \union D
  /\ UNCHANGED <<verdict, inventory>>

(* The required check turns green: only over a complete, real inventory.   *)
Accept ==
  /\ verdict = "open"
  /\ inventory \in Inventories
  /\ inventory \subseteq built
  /\ verdict' = "green"
  /\ UNCHANGED <<inventory, built>>

Reject ==
  /\ verdict = "open"
  /\ verdict' = "red"
  /\ UNCHANGED <<inventory, built>>

(* Somebody asks for another attempt of the run.                           *)
Reopen ==
  /\ verdict # "open"
  /\ verdict' = "open"
  /\ UNCHANGED <<inventory, built>>

Next == Evaluate \/ Build \/ Accept \/ Reject \/ Reopen

Spec == Init /\ [][Next]_vars
=============================================================================
