------------------------------ MODULE MCRemoteRun ------------------------------
(* Two workers, and evaluations that differ: a check that appears, no test *)
(* at all, a test whose output changes, a second test.                     *)
EXTENDS RemoteRun, TLC

CONSTANTS d, e, x, y, smoke, load

MCCheckPlans == {{d}, {d, e}}

MCTestPlans == {<< >>, smoke :> x, (smoke :> y) @@ (load :> x)}

MCSymmetry == Permutations(Worker)
=============================================================================
