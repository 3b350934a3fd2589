--------------------------- MODULE MCRunConcurrency ---------------------------
(* Pull requests from the main branches of forks, so that all their head   *)
(* branches have one name, and pushes to the main branch itself.           *)
EXTENDS RunConcurrency

Pull(n, a) == [pr |-> n, branch |-> "main", admitted |-> a]
Push       == [pr |-> 0, branch |-> "main", admitted |-> TRUE]

(* The generated pair, of which pull request 2 is by an approved author,   *)
(* and a caller of its own with the staged backend.                        *)
Callers       == {"trusted", "untrusted", "staged"}
CallersName   == [c \in Callers |-> c]
CallersEvents == [trusted   |-> {Pull(1, FALSE), Pull(2, TRUE)},
                  untrusted |-> {Pull(1, TRUE), Pull(2, FALSE), Pull(3, TRUE)},
                  staged    |-> {Pull(1, TRUE), Pull(2, TRUE), Push}]
CallersBackend == [trusted |-> "nix-remote", untrusted |-> "matrix", staged |-> "nix-dag"]

(* The pull request caller of a pair, with its default backend, and a      *)
(* single caller that runs on pushes.                                      *)
Defaults        == {"pulls", "pushes"}
DefaultsName    == [c \in Defaults |-> c]
DefaultsEvents  == [pulls |-> {Pull(1, TRUE), Pull(2, TRUE)}, pushes |-> {Push}]
DefaultsBackend == [pulls |-> "nix-dag", pushes |-> "matrix"]
=============================================================================
