--------------------------- MODULE MCFlakeMatrix ----------------------------
(* A commit with two checks.  Its second evaluation changes one derivation *)
(* and lacks the other check, so it plans a single shard.                  *)
EXTENDS FlakeMatrix, TLC

CONSTANTS c1, c2, d1, d2, d3, s1, s2, t1

Planned == [digest |-> 1, checks |-> (c1 :> d1 @@ c2 :> d2),
            shards |-> (s1 :> {c1} @@ s2 :> {c2}), targets |-> {t1}]

Drifted == [digest |-> 2, checks |-> (c1 :> d3 @@ c2 :> None),
            shards |-> (s1 :> {c1} @@ s2 :> {}), targets |-> {t1}]

MCShard  == {s1, s2}
MCCheck  == {c1, c2}
MCDrv    == {d1, d2, d3}
MCTarget == {t1}
MCPlans  == {Planned, Drifted}
=============================================================================
