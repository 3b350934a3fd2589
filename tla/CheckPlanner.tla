----------------------------- MODULE CheckPlanner -----------------------------
(***************************************************************************)
(* make_plan of lib/flake-check-plan.py: how the evaluated checks of a     *)
(* flake are spread over the shards of the matrix.  Hints may give a check *)
(* a weight, a shard of its own, or an affinity group that stays together; *)
(* the remaining units go, heaviest first, to the lightest shard.          *)
(*                                                                         *)
(* A check name is represented by its place in sorted order, and so is a   *)
(* hint pattern; an affinity group by its place among the group names.     *)
(***************************************************************************)
EXTENDS Naturals, Sequences, FiniteSets

CONSTANTS
  Check,      \* the evaluated inventory
  Group,      \* names of affinity groups
  Inputs,     \* configurations: a shardCount and checkHints
  MaxShards,  \* the largest shardCount make_plan accepts
  Unset       \* a field that a hint does not mention

(* checkHints: each pattern with the names it matches and its fields.      *)
Hint == [matches  : SUBSET Check,       weight   : (Nat \ {0}) \union {Unset},
         isolate  : BOOLEAN \union {Unset}, affinity : Group \union {Unset}]

Configuration == [count : 1 .. MaxShards, hints : Seq(Hint)]

ASSUME InventoryAssumption ==
  Check \subseteq Nat /\ Check # {} /\ IsFiniteSet(Check)

ASSUME ConfigurationAssumption ==
  /\ MaxShards \in Nat \ {0}
  /\ Group \subseteq Nat
  /\ Unset \notin Nat /\ Unset \notin BOOLEAN
  /\ Inputs \subseteq Configuration

VARIABLES
  input,     \* the configuration of this call
  pc,        \* the part of make_plan that runs next
  todo,      \* checks the current loop has yet to visit, in sorted order
  reserved,  \* number of isolated checks that have got their shard
  units,     \* the dictionary of units: their checks, by key
  weight,    \* ... and their summed weights
  shards,    \* the checks of each shard
  load,      \* the weight of each shard
  last       \* history: weight of the unit each shard received last

vars == <<input, pc, todo, reserved, units, weight, shards, load, last>>

-----------------------------------------------------------------------------
(* hint_for: later patterns override the fields of earlier ones.           *)
Setters(c, field) ==
  {i \in DOMAIN input.hints : /\ c \in input.hints[i].matches
                              /\ input.hints[i][field] # Unset}

Field(c, field, default) ==
  IF Setters(c, field) = {} THEN default
  ELSE LET i == CHOOSE i \in Setters(c, field) :
                  \A k \in Setters(c, field) : k <= i
       IN input.hints[i][field]

Weight(c)   == Field(c, "weight", 1)
Isolated    == {c \in Check : Field(c, "isolate", FALSE)}
Rest        == Check \ Isolated
Affinity(c) == Field(c, "affinity", Unset)

(* Keys of the unit dictionary.  ("affinity", g) sorts before              *)
(* ("check", name), and pairs of one kind sort by their second component.  *)
Key == ({0} \X Group) \union ({1} \X Check)

KeyOf(c) == IF Affinity(c) # Unset THEN <<0, Affinity(c)>> ELSE <<1, c>>

KeyBefore(j, k) == j[1] < k[1] \/ (j[1] = k[1] /\ j[2] <= k[2])

Slot  == 1 .. MaxShards
Slots == IF input.count <= Cardinality(Check) THEN input.count
         ELSE Cardinality(Check)

(* Mutant: units may also use the reserved shards.                         *)
AvailableMutant == 1 .. Slots

(* The shards left for units: shards[len(isolated):].                      *)
Available == (Cardinality(Isolated) + 1) .. Slots

IsLeast(c, S) == c \in S /\ \A d \in S : c <= d

-----------------------------------------------------------------------------
TypeOK ==
  /\ input \in Inputs
  /\ pc \in {"resolve", "reserve", "group", "place", "done", "error"}
  /\ todo \subseteq Check
  /\ reserved \in Nat
  /\ units \in [Key -> SUBSET Check]
  /\ weight \in [Key -> Nat]
  /\ shards \in [Slot -> SUBSET Check]
  /\ load \in [Slot -> Nat]
  /\ last \in [Slot -> Nat]

Init ==
  /\ input \in Inputs
  /\ pc = "resolve"
  /\ todo = {}
  /\ reserved = 0
  /\ units = [k \in Key |-> {}]
  /\ weight = [k \in Key |-> 0]
  /\ shards = [s \in Slot |-> {}]
  /\ load = [s \in Slot |-> 0]
  /\ last = [s \in Slot |-> 0]

Conflict == \E c \in Isolated : Affinity(c) # Unset

(* Mutant: off by one, the isolated checks may not use every shard.        *)
NotEnoughShardsMutant == Cardinality(Isolated) >= input.count

NotEnoughShards ==
  \/ Cardinality(Isolated) > input.count
  \/ Rest # {} /\ Cardinality(Isolated) = input.count

(* The merged hints of a check contradict each other, or the shards do not *)
(* suffice for the isolated checks.                                        *)
Resolve ==
  /\ pc = "resolve"
  /\ IF Conflict \/ NotEnoughShards
       THEN pc' = "error" /\ UNCHANGED todo
       ELSE pc' = "reserve" /\ todo' = Isolated
  /\ UNCHANGED <<input, reserved, units, weight, shards, load, last>>

(* zip(shards, isolated): the next isolated check gets the next shard.     *)
Reserve ==
  /\ pc = "reserve"
  /\ reserved < Slots
  /\ \E c \in todo :
       /\ IsLeast(c, todo)
       /\ shards' = [shards EXCEPT ![reserved + 1] = {c}]
       /\ load' = [load EXCEPT ![reserved + 1] = Weight(c)]
       /\ todo' = todo \ {c}
  /\ reserved' = reserved + 1
  /\ UNCHANGED <<input, pc, units, weight, last>>

(* ... until either of the two sequences is exhausted.                     *)
ReserveEnds ==
  /\ pc = "reserve"
  /\ todo = {} \/ reserved = Slots
  /\ pc' = "group"
  /\ todo' = Rest
  /\ UNCHANGED <<input, reserved, units, weight, shards, load, last>>

(* Add the next check to its unit.                                         *)
GroupCheck ==
  /\ pc = "group"
  /\ \E c \in todo :
       /\ IsLeast(c, todo)
       /\ units' = [units EXCEPT ![KeyOf(c)] = @ \union {c}]
       /\ weight' = [weight EXCEPT ![KeyOf(c)] = @ + Weight(c)]
       /\ todo' = todo \ {c}
  /\ UNCHANGED <<input, pc, reserved, shards, load, last>>

GroupEnds ==
  /\ pc = "group"
  /\ todo = {}
  /\ pc' = "place"
  /\ UNCHANGED <<input, todo, reserved, units, weight, shards, load, last>>

Pending == {k \in Key : units[k] # {}}

(* Mutant: units are placed in the order of their keys.                    *)
HeaviestMutant(k) == k \in Pending /\ \A j \in Pending : KeyBefore(k, j)

(* Sorted by (-weight, key): the heaviest unit, the smaller key on a tie.  *)
Heaviest(k) ==
  /\ k \in Pending
  /\ \A j \in Pending : \/ weight[j] < weight[k]
                        \/ weight[j] = weight[k] /\ KeyBefore(k, j)

(* min by (weight, id) over the available shards.                          *)
Lightest(s) ==
  /\ s \in Available
  /\ \A t \in Available : load[s] < load[t] \/ (load[s] = load[t] /\ s <= t)

(* Mutant: the shard is given the unit instead of being extended by it.    *)
ExtendedMutant(s, k) == units[k]

Extended(s, k) == shards[s] \union units[k]

(* min() of no shards would raise: a unit without an available shard is a  *)
(* deadlock here.                                                          *)
Place ==
  /\ pc = "place"
  /\ \E k \in Pending, s \in Available :
       /\ Heaviest(k)
       /\ Lightest(s)
       /\ shards' = [shards EXCEPT ![s] = Extended(s, k)]
       /\ load' = [load EXCEPT ![s] = @ + weight[k]]
       /\ last' = [last EXCEPT ![s] = weight[k]]
       /\ units' = [units EXCEPT ![k] = {}]
  /\ UNCHANGED <<input, pc, todo, reserved, weight>>

(* Empty shards are dropped when the plan is written.                      *)
Finish ==
  /\ pc = "place"
  /\ Pending = {}
  /\ pc' = "done"
  /\ UNCHANGED <<input, todo, reserved, units, weight, shards, load, last>>

Returned == pc \in {"done", "error"} /\ UNCHANGED vars

Next == \/ Resolve \/ Reserve \/ ReserveEnds \/ GroupCheck \/ GroupEnds
        \/ Place \/ Finish \/ Returned

Spec == Init /\ [][Next]_vars

-----------------------------------------------------------------------------
(* The shards of the finished plan.                                        *)
Planned == {s \in Slot : shards[s] # {}}

(* A written plan always passes validate_plan: its shards partition the    *)
(* evaluated inventory, so no check is lost and none is built twice.       *)
PlanPartitions ==
  pc = "done" =>
    /\ \A c \in Check : \E s \in Planned : c \in shards[s]
    /\ \A s, t \in Planned : s # t => shards[s] \intersect shards[t] = {}

(* An isolated check shares its shard with no other check, also when the   *)
(* matrix has fewer shards than shardCount or hints overlap.               *)
IsolationKept ==
  pc = "done" =>
    \A c \in Isolated, s \in Planned : c \in shards[s] => shards[s] = {c}

(* Checks of one affinity group end up in one shard, however heavy they    *)
(* are together.                                                           *)
AffinityKept ==
  pc = "done" =>
    \A c, d \in Rest :
      Affinity(c) # Unset /\ Affinity(c) = Affinity(d) =>
        \A s \in Planned : c \in shards[s] <=> d \in shards[s]

(* Both kinds of hints survive the merge, the reservation of shards and    *)
(* the placement of units, in every written plan.                          *)
HintsKept == IsolationKept /\ AffinityKept

(* Greedy balance: no shard outweighs another by more than the last unit   *)
(* it received, so the slowest shard is late by one unit at most.          *)
Balanced ==
  \A s, t \in Available : load[s] <= load[t] + last[s]
=============================================================================
