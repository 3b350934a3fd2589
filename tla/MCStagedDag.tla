----------------------------- MODULE MCStagedDag -----------------------------
(* Two evaluations of one commit.  In the first, "test" and "lint" fan out *)
(* and "ship" depends on both; in the second, "ship" is independent and    *)
(* everything is one leaf, which compiles against other shared outputs.    *)
EXTENDS StagedDag

MCInputs ==
  [d \in Drv |-> CASE d = "test.drv"  -> {"lib"}
                   [] d = "ship.drv"  -> {"test.drv", "lint.drv", "lib"}
                   [] d = "ship2.drv" -> {"lib2"}
                   [] OTHER           -> {}]

Plan(n, s, ship, out) ==
  [digest  |-> n,
   checks  |-> [c \in Check |-> CASE c = "test" -> "test.drv"
                                  [] c = "lint" -> "lint.drv"
                                  [] c = "ship" -> ship],
   shards  |-> s, targets |-> Target, outputs |-> [t \in Target |-> out]]

MCPlans ==
  {Plan(1, [s \in Shard |-> IF s = "shard-00" THEN {"test"} ELSE {"lint", "ship"}],
        "ship.drv", "lib"),
   Plan(2, [s \in Shard |-> IF s = "shard-00" THEN Check ELSE {}], "ship2.drv", "lib2")}
=============================================================================
