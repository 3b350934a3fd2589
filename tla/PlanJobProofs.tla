----------------------------- MODULE PlanJobProofs -----------------------------
(***************************************************************************)
(* The plan job.  First, for every inventory, every configuration and      *)
(* every number of shards: the plan of CheckPlanner partitions the         *)
(* inventory, keeps isolated checks apart and affinity groups together,    *)
(* balances the shards greedily, within Graham's bound of the best plan,   *)
(* and is refused only when there is none.                                 *)
(*                                                                         *)
(* Then, for every derivation graph, however large: the depth first search *)
(* of DerivationGraph finds precisely the transitive dependencies and      *)
(* refuses precisely the graphs with a cycle above a check, the waves are  *)
(* exact, and the job as a whole still runs the planner.                   *)
(***************************************************************************)
EXTENDS PlanQuality, DerivationGraph, FiniteSetTheorems, SequenceTheorems,
        WellFoundedInduction, TLAPS

(* Non-empty sets of naturals have a least element ...                     *)
LEMMA NatLeast ==
  ASSUME NEW T \in SUBSET Nat, T # {}
  PROVE  \E x \in T : \A y \in T : x <= y
<1> DEFINE R == {p \in Nat \X Nat : p[1] < p[2]}
<1>1. IsWellFoundedOn(R, Nat)
  BY NatLessThanWellFounded DEF OpToRel
<1> HIDE DEF R
<1>2. PICK x \in T : \A y \in T : ~ (<<y, x>> \in R)
  BY <1>1, WFMin
<1>3. ASSUME NEW y \in T PROVE x <= y
  <2>1. ~ (<<y, x>> \in R) /\ x \in Nat /\ y \in Nat
    BY <1>2
  <2>2. y < x => <<y, x>> \in R
    BY <2>1 DEF R
  <2> QED
    BY <2>1, <2>2
<1> QED
  BY <1>3

(* ... and, when they are bounded, a greatest one.                         *)
LEMMA NatGreatest ==
  ASSUME NEW n \in Nat, NEW T \in SUBSET (0 .. n), T # {}
  PROVE  \E x \in T : \A y \in T : y <= x
<1> DEFINE U == {n - x : x \in T}
<1>1. U \in SUBSET Nat /\ U # {}
  <2>1. \A x \in T : x \in Nat /\ x <= n
    OBVIOUS
  <2>2. \A x \in T : n - x \in Nat
    BY <2>1
  <2> QED
    BY <2>2
<1>2. PICK u \in U : \A v \in U : u <= v
  BY <1>1, NatLeast
<1>3. PICK x \in T : u = n - x
  BY <1>2
<1>4. \A y \in T : n - x <= n - y
  BY <1>2, <1>3
<1> QED
  BY <1>3, <1>4

(* hint_for returns the default or what some pattern says.                 *)
LEMMA FieldValue ==
  ASSUME TypeOK, NEW c, NEW field, NEW default
  PROVE  \/ Field(c, field, default) = default
         \/ \E i \in DOMAIN input.hints :
              /\ Field(c, field, default) = input.hints[i][field]
              /\ input.hints[i][field] # Unset
<1> DEFINE S == Setters(c, field)
<1>1. CASE S = {}
  BY <1>1 DEF Field
<1>2. CASE S # {}
  <2>1. input.hints \in Seq(Hint)
    BY ConfigurationAssumption DEF TypeOK, Configuration
  <2>2. /\ Len(input.hints) \in Nat
        /\ DOMAIN input.hints = 1 .. Len(input.hints)
    BY <2>1
  <2>3. S \in SUBSET (0 .. Len(input.hints))
    BY <2>2 DEF Setters
  <2>4. \E x \in S : \A k \in S : k <= x
    BY <1>2, <2>2, <2>3, NatGreatest
  <2> DEFINE i == CHOOSE i \in S : \A k \in S : k <= i
  <2>5. i \in S
    BY <2>4
  <2>6. Field(c, field, default) = input.hints[i][field]
    BY <1>2 DEF Field
  <2> QED
    BY <2>5, <2>6 DEF Setters
<1> QED
  BY <1>1, <1>2

LEMMA WeightType == ASSUME TypeOK, NEW c PROVE Weight(c) \in Nat
<1>1. \A i \in DOMAIN input.hints : input.hints[i] \in Hint
  <2>1. input.hints \in Seq(Hint)
    BY ConfigurationAssumption DEF TypeOK, Configuration
  <2> QED
    BY <2>1
<1>2. \A i \in DOMAIN input.hints : input.hints[i].weight \in (Nat \ {0}) \union {Unset}
  BY <1>1 DEF Hint
<1>3. \/ Weight(c) = 1
      \/ \E i \in DOMAIN input.hints :
           Weight(c) = input.hints[i]["weight"] /\ input.hints[i]["weight"] # Unset
  BY FieldValue DEF Weight
<1> QED
  BY <1>2, <1>3

LEMMA KeyType == ASSUME TypeOK, NEW c \in Check PROVE KeyOf(c) \in Key
<1>1. \A i \in DOMAIN input.hints : input.hints[i] \in Hint
  <2>1. input.hints \in Seq(Hint)
    BY ConfigurationAssumption DEF TypeOK, Configuration
  <2> QED
    BY <2>1
<1>2. \A i \in DOMAIN input.hints : input.hints[i].affinity \in Group \union {Unset}
  BY <1>1 DEF Hint
<1>3. \/ Affinity(c) = Unset
      \/ \E i \in DOMAIN input.hints :
           Affinity(c) = input.hints[i]["affinity"] /\ input.hints[i]["affinity"] # Unset
  BY FieldValue DEF Affinity
<1> QED
  BY <1>2, <1>3 DEF KeyOf, Key

(* The isolated checks can be counted, and so can the shards.              *)
LEMMA Counts ==
  ASSUME TypeOK
  PROVE  /\ IsFiniteSet(Isolated) /\ Cardinality(Isolated) \in Nat
         /\ Slots \in Nat /\ Slots <= MaxShards /\ MaxShards \in Nat
         /\ Slots <= Cardinality(Check) /\ Slots <= input.count
         /\ Slots = input.count \/ Slots = Cardinality(Check)
         /\ Cardinality(Isolated) <= Cardinality(Check)
         /\ Available \subseteq Slot
<1>1. /\ IsFiniteSet(Isolated) /\ Cardinality(Isolated) \in Nat
      /\ Cardinality(Isolated) <= Cardinality(Check)
      /\ Cardinality(Check) \in Nat
  <2>1. Isolated \in SUBSET Check
    BY DEF Isolated
  <2> QED
    BY <2>1, InventoryAssumption, FS_Subset, FS_CardinalityType
<1>2. input.count \in 1 .. MaxShards /\ MaxShards \in Nat
  BY ConfigurationAssumption DEF TypeOK, Configuration
<1>3. /\ Slots \in Nat /\ Slots <= MaxShards
      /\ Slots <= Cardinality(Check) /\ Slots <= input.count
      /\ Slots = input.count \/ Slots = Cardinality(Check)
  BY <1>1, <1>2 DEF Slots
<1>4. Available \subseteq Slot
  BY <1>1, <1>2, <1>3 DEF Available, Slot
<1> QED
  BY <1>1, <1>2, <1>3, <1>4

(* The configuration is read only, and so are the tables made of it.       *)
LEMMA Fixed ==
  ASSUME [Next]_vars
  PROVE  /\ input' = input
         /\ Isolated' = Isolated /\ Rest' = Rest /\ Slots' = Slots
         /\ Available' = Available
         /\ \A c : KeyOf(c)' = KeyOf(c) /\ Affinity(c)' = Affinity(c)
         /\ \A c : Weight(c)' = Weight(c)
<1>1. input' = input
  BY DEF Next, vars, Resolve, Reserve, ReserveEnds, GroupCheck, GroupEnds,
         Place, Finish, Returned
<1>2. \A c, f, d : Field(c, f, d)' = Field(c, f, d)
  BY <1>1 DEF Field, Setters
<1>3. Isolated' = Isolated
  BY <1>2 DEF Isolated
<1>4. \A c : Affinity(c)' = Affinity(c) /\ Weight(c)' = Weight(c)
  BY <1>2 DEF Affinity, Weight
<1>5. \A c : KeyOf(c)' = KeyOf(c)
  BY <1>4 DEF KeyOf
<1>6. Slots' = Slots
  BY <1>1 DEF Slots
<1> QED
  BY <1>1, <1>3, <1>4, <1>5, <1>6 DEF Rest, Available

-----------------------------------------------------------------------------
(* The inductive invariant, part by part.                                  *)

Planning == pc \in {"reserve", "group", "place", "done"}
Placing  == pc \in {"place", "done"}

(* Every isolated check has a shard to reserve, and gets one.              *)
Counted ==
  /\ pc = "resolve" => reserved = 0
  /\ pc = "reserve" =>
       todo \subseteq Isolated /\ Cardinality(todo) + reserved = Cardinality(Isolated)
  /\ pc = "group" => todo \subseteq Rest
  /\ Planning => Cardinality(Isolated) <= Slots
  /\ Planning /\ pc # "reserve" => reserved = Cardinality(Isolated)

(* The first shards belong to isolated checks, the others to units.        *)
Solo ==
  \A s \in Slot : s <= Cardinality(Isolated) =>
    shards[s] = {} \/ \E c \in Isolated : shards[s] = {c}

Shared == \A s \in Slot : s > Cardinality(Isolated) => shards[s] \subseteq Rest

Idle ==
  ~Placing => \A s \in Slot : s > Cardinality(Isolated) =>
                shards[s] = {} /\ load[s] = 0

(* A unit holds checks of its key only.                                    *)
Keyed == \A k \in Key : \A c \in units[k] : c \in Rest /\ KeyOf(c) = k

(* No check is lost: it is still to be visited, in its unit or in a shard. *)
IsolatedFound ==
  Planning => \A c \in Isolated :
    \/ pc = "reserve" /\ c \in todo
    \/ \E s \in Slot : s <= reserved /\ c \in shards[s]

RestFound ==
  /\ pc = "group" => \A c \in Rest : c \in todo \/ c \in units[KeyOf(c)]
  /\ Placing => \A c \in Rest : c \in units[KeyOf(c)] \/ \E s \in Slot : c \in shards[s]
  /\ pc = "done" => \A k \in Key : units[k] = {}

(* No check is in two places.                                              *)
Apart ==
  /\ \A s, t \in Slot : s # t => shards[s] \intersect shards[t] = {}
  /\ \A k \in Key, s \in Slot : units[k] \intersect shards[s] = {}
  /\ pc = "resolve" => \A s \in Slot : shards[s] = {}
  /\ pc = "reserve" => \A s \in Slot : shards[s] \intersect todo = {}

(* A unit moves as a whole.                                                *)
Whole ==
  Placing => \A c, d \in Rest : KeyOf(c) = KeyOf(d) =>
    /\ \A k \in Key : c \in units[k] <=> d \in units[k]
    /\ \A s \in Slot : c \in shards[s] <=> d \in shards[s]

IInv ==
  /\ TypeOK /\ Counted /\ Solo /\ Shared /\ Idle /\ Keyed
  /\ IsolatedFound /\ RestFound /\ Apart /\ Whole /\ Balanced

LEMMA Initially == ASSUME Init PROVE IInv
<1>1. TypeOK
  <2>1. units \in [Key -> SUBSET Check] /\ weight \in [Key -> Nat]
    BY DEF Init
  <2>2. shards \in [Slot -> SUBSET Check] /\ load \in [Slot -> Nat] /\ last \in [Slot -> Nat]
    BY DEF Init
  <2> QED
    BY <2>1, <2>2 DEF Init, TypeOK
<1>2. Counted /\ Solo /\ Shared /\ Idle /\ Keyed /\ IsolatedFound /\ RestFound
  BY DEF Init, Counted, Solo, Shared, Idle, Keyed, IsolatedFound, RestFound,
         Planning, Placing
<1>3. Apart /\ Whole
  BY DEF Init, Apart, Whole, Placing
<1>4. Balanced
  <2>1. Available \subseteq Slot
    BY <1>1, Counts
  <2> QED
    BY <2>1 DEF Init, Balanced
<1> QED
  BY <1>1, <1>2, <1>3, <1>4 DEF IInv

LEMMA TypeStep == ASSUME IInv, [Next]_vars PROVE TypeOK'
<1> USE DEF IInv, TypeOK
<1>1. CASE Resolve
  BY <1>1 DEF Resolve, Isolated
<1>2. CASE Reserve
  <2>1. \A c \in Check : Weight(c) \in Nat
    BY WeightType
  <2>2. PICK c \in todo :
          /\ shards' = [shards EXCEPT ![reserved + 1] = {c}]
          /\ load' = [load EXCEPT ![reserved + 1] = Weight(c)]
          /\ todo' = todo \ {c}
    BY <1>2 DEF Reserve
  <2>3. shards' \in [Slot -> SUBSET Check] /\ load' \in [Slot -> Nat]
    BY <2>1, <2>2
  <2> QED
    BY <1>2, <2>2, <2>3 DEF Reserve
<1>3. CASE ReserveEnds
  BY <1>3 DEF ReserveEnds, Rest
<1>4. CASE GroupCheck
  <2>1. PICK c \in todo :
          /\ units' = [units EXCEPT ![KeyOf(c)] = @ \union {c}]
          /\ weight' = [weight EXCEPT ![KeyOf(c)] = @ + Weight(c)]
          /\ todo' = todo \ {c}
    BY <1>4 DEF GroupCheck
  <2>2. KeyOf(c) \in Key /\ Weight(c) \in Nat /\ c \in Check
    BY <2>1, KeyType, WeightType
  <2>3. units' \in [Key -> SUBSET Check] /\ weight' \in [Key -> Nat]
    BY <2>1, <2>2
  <2> QED
    BY <1>4, <2>1, <2>3 DEF GroupCheck
<1>5. CASE GroupEnds
  BY <1>5 DEF GroupEnds
<1>6. CASE Place
  <2>1. PICK k \in Pending, s \in Available :
          /\ shards' = [shards EXCEPT ![s] = Extended(s, k)]
          /\ load' = [load EXCEPT ![s] = @ + weight[k]]
          /\ last' = [last EXCEPT ![s] = weight[k]]
          /\ units' = [units EXCEPT ![k] = {}]
    BY <1>6 DEF Place
  <2>2. k \in Key /\ s \in Slot
    BY <2>1, Counts DEF Pending
  <2>3. shards' \in [Slot -> SUBSET Check]
    BY <2>1, <2>2 DEF Extended
  <2>4. load' \in [Slot -> Nat] /\ last' \in [Slot -> Nat]
    BY <2>1, <2>2
  <2>5. units' \in [Key -> SUBSET Check]
    BY <2>1, <2>2
  <2> QED
    BY <1>6, <2>3, <2>4, <2>5 DEF Place
<1>7. CASE Finish
  BY <1>7 DEF Finish
<1>8. CASE UNCHANGED vars
  BY <1>8 DEF vars
<1> QED
  BY <1>1, <1>2, <1>3, <1>4, <1>5, <1>6, <1>7, <1>8 DEF Next, Returned

(* Steps that only change pc and todo leave most parts as they are.        *)
LEMMA ResolveStep == ASSUME IInv, Resolve PROVE IInv'
<1>1. TypeOK'
  BY TypeStep DEF Next
<1>2. /\ Isolated' = Isolated /\ Rest' = Rest /\ Slots' = Slots
      /\ Available' = Available /\ \A c : KeyOf(c)' = KeyOf(c)
  BY Fixed DEF Next
<1>3. Counted'
  <2>1. Cardinality(Isolated) \in Nat
    BY Counts DEF IInv
  <2>2. pc' = "reserve" => Cardinality(Isolated) <= Slots
    <3>1. pc' = "reserve" => ~ Cardinality(Isolated) > input.count
      BY DEF Resolve, NotEnoughShards
    <3>2. input.count \in Nat
      BY ConfigurationAssumption DEF IInv, TypeOK, Configuration
    <3> QED
      BY <2>1, <3>1, <3>2, Counts DEF IInv
  <2> QED
    BY <1>2, <2>1, <2>2 DEF Resolve, Counted, Planning, IInv
<1>4. Solo' /\ Shared' /\ Idle' /\ Keyed'
  BY <1>2 DEF IInv, Resolve, Solo, Shared, Idle, Keyed, Placing
<1>5. IsolatedFound' /\ RestFound'
  BY <1>2 DEF Resolve, IsolatedFound, RestFound, Planning, Placing
<1>6. Apart'
  BY <1>2 DEF IInv, Resolve, Apart
<1>7. Whole' /\ Balanced'
  BY <1>2 DEF IInv, Resolve, Whole, Balanced, Placing
<1> QED
  BY <1>1, <1>3, <1>4, <1>5, <1>6, <1>7 DEF IInv

LEMMA ReserveStep == ASSUME IInv, Reserve PROVE IInv'
<1>1. TypeOK'
  BY TypeStep DEF Next
<1>2. /\ Isolated' = Isolated /\ Rest' = Rest /\ Slots' = Slots
      /\ Available' = Available /\ \A c : KeyOf(c)' = KeyOf(c)
  BY Fixed DEF Next
<1>3. PICK c \in todo :
        /\ shards' = [shards EXCEPT ![reserved + 1] = {c}]
        /\ load' = [load EXCEPT ![reserved + 1] = Weight(c)]
        /\ todo' = todo \ {c}
  BY DEF Reserve
<1> DEFINE r == reserved + 1
<1>4. /\ pc = "reserve" /\ pc' = "reserve" /\ reserved' = r
      /\ units' = units /\ last' = last
  BY DEF Reserve
<1>5. /\ shards \in [Slot -> SUBSET Check] /\ load \in [Slot -> Nat]
      /\ units \in [Key -> SUBSET Check] /\ reserved \in Nat
  BY DEF IInv, TypeOK
<1>6. c \in Isolated /\ todo \subseteq Isolated
  BY <1>3, <1>4 DEF IInv, Counted
<1>7. /\ Cardinality(todo') + r = Cardinality(Isolated)
      /\ r <= Cardinality(Isolated) /\ r \in Nat
  <2>1. IsFiniteSet(todo) /\ Cardinality(todo) \in Nat
    BY <1>6, Counts, FS_Subset, FS_CardinalityType DEF IInv
  <2>2. Cardinality(todo') = Cardinality(todo) - 1 /\ IsFiniteSet(todo')
    BY <1>3, <2>1, FS_RemoveElement
  <2>3. Cardinality(todo') \in Nat
    BY <2>2, FS_CardinalityType
  <2>4. Cardinality(todo) + reserved = Cardinality(Isolated)
    BY <1>4 DEF IInv, Counted
  <2> QED
    BY <1>5, <2>1, <2>2, <2>3, <2>4
<1>8. r \in Slot
  <2>1. reserved < Slots
    BY DEF Reserve
  <2> QED
    BY <1>5, <2>1, Counts DEF IInv, Slot
<1> HIDE DEF r
<1>9. /\ shards'[r] = {c}
      /\ \A s \in Slot : s # r => shards'[s] = shards[s] /\ load'[s] = load[s]
  BY <1>3, <1>5, <1>8 DEF r
<1>10. Counted'
  BY <1>2, <1>3, <1>4, <1>6, <1>7 DEF IInv, Counted, Planning
<1>11. Solo'
  BY <1>2, <1>6, <1>9 DEF IInv, Solo
<1>12. Shared' /\ Idle' /\ Keyed'
  <2>1. \A s \in Slot : s > Cardinality(Isolated) => s # r
    BY <1>7, Counts DEF IInv, Slot
  <2>2. Shared'
    BY <1>2, <1>9, <2>1 DEF IInv, Shared
  <2>3. Idle'
    BY <1>2, <1>4, <1>9, <2>1 DEF IInv, Idle, Placing
  <2>4. Keyed'
    BY <1>2, <1>4 DEF IInv, Keyed
  <2> QED
    BY <2>2, <2>3, <2>4
<1>13. IsolatedFound'
  <2> SUFFICES ASSUME NEW d \in Isolated
               PROVE  d \in todo' \/ \E s \in Slot : s <= r /\ d \in shards'[s]
    BY <1>2, <1>4 DEF IsolatedFound
  <2>1. CASE d = c
    BY <1>7, <1>8, <1>9, <2>1
  <2>2. CASE d # c /\ d \in todo
    BY <1>3, <2>2
  <2>3. CASE d \notin todo
    <3>1. PICK s \in Slot : s <= reserved /\ d \in shards[s]
      BY <1>4, <2>3 DEF IInv, IsolatedFound, Planning
    <3>2. s <= r /\ s # r
      BY <1>5, <3>1 DEF r, Slot
    <3> QED
      BY <1>9, <3>1, <3>2
  <2> QED
    BY <2>1, <2>2, <2>3
<1>14. RestFound' /\ Whole'
  BY <1>4 DEF RestFound, Whole, Placing
<1>15. Apart'
  <2>1. \A s \in Slot : c \notin shards[s] /\ shards[s] \intersect todo = {}
    BY <1>3, <1>4 DEF IInv, Apart
  <2>2. \A s, t \in Slot : s # t => shards'[s] \intersect shards'[t] = {}
    BY <1>9, <2>1 DEF IInv, Apart
  <2>3. \A k \in Key, s \in Slot : units[k] \intersect shards'[s] = {}
    BY <1>6, <1>9 DEF IInv, Apart, Keyed, Rest
  <2>4. \A s \in Slot : shards'[s] \intersect todo' = {}
    BY <1>3, <1>9, <2>1
  <2> QED
    BY <1>4, <2>2, <2>3, <2>4 DEF Apart
<1>16. Balanced'
  <2>1. \A s \in Available : s \in Slot /\ s # r
    BY <1>7, Counts DEF IInv, Available
  <2> QED
    BY <1>2, <1>4, <1>9, <2>1 DEF IInv, Balanced
<1> QED
  BY <1>1, <1>10, <1>11, <1>12, <1>13, <1>14, <1>15, <1>16 DEF IInv

LEMMA ReserveEndsStep == ASSUME IInv, ReserveEnds PROVE IInv'
<1>1. TypeOK'
  BY TypeStep DEF Next
<1>2. /\ Isolated' = Isolated /\ Rest' = Rest /\ Slots' = Slots
      /\ Available' = Available /\ \A c : KeyOf(c)' = KeyOf(c)
  BY Fixed DEF Next
<1>3. /\ pc = "reserve" /\ pc' = "group" /\ todo' = Rest
      /\ todo = {} \/ reserved = Slots
      /\ UNCHANGED <<input, reserved, units, weight, shards, load, last>>
  BY DEF ReserveEnds
<1>4. todo = {} /\ reserved = Cardinality(Isolated)
  <2>1. todo \subseteq Isolated /\ IsFiniteSet(Isolated)
    BY <1>3, Counts DEF IInv, Counted
  <2>2. IsFiniteSet(todo) /\ Cardinality(todo) \in Nat
    BY <2>1, FS_Subset, FS_CardinalityType
  <2>3. /\ Cardinality(todo) + reserved = Cardinality(Isolated)
        /\ Cardinality(Isolated) <= Slots
    BY <1>3 DEF IInv, Counted, Planning
  <2>4. reserved \in Nat /\ Cardinality(Isolated) \in Nat /\ Slots \in Nat
    BY Counts DEF IInv, TypeOK
  <2>5. Cardinality(todo) = 0
    <3>1. todo = {} => Cardinality(todo) = 0
      BY FS_EmptySet
    <3>2. reserved = Slots => Cardinality(todo) = 0
      BY <2>2, <2>3, <2>4
    <3> QED
      BY <1>3, <3>1, <3>2
  <2>6. todo = {}
    BY <2>2, <2>5, FS_EmptySet
  <2> QED
    BY <2>3, <2>4, <2>5, <2>6
<1>5. Counted'
  BY <1>2, <1>3, <1>4 DEF IInv, Counted, Planning
<1>6. Solo' /\ Shared' /\ Idle' /\ Keyed'
  BY <1>2, <1>3 DEF IInv, Solo, Shared, Idle, Keyed, Placing
<1>7. IsolatedFound' /\ RestFound'
  BY <1>2, <1>3, <1>4 DEF IInv, IsolatedFound, RestFound, Planning, Placing
<1>8. Apart' /\ Whole' /\ Balanced'
  BY <1>2, <1>3 DEF IInv, Apart, Whole, Balanced, Placing
<1> QED
  BY <1>1, <1>5, <1>6, <1>7, <1>8 DEF IInv

LEMMA GroupCheckStep == ASSUME IInv, GroupCheck PROVE IInv'
<1>1. TypeOK'
  BY TypeStep DEF Next
<1>2. /\ Isolated' = Isolated /\ Rest' = Rest /\ Slots' = Slots
      /\ Available' = Available /\ \A c : KeyOf(c)' = KeyOf(c)
  BY Fixed DEF Next
<1>3. PICK c \in todo :
        /\ units' = [units EXCEPT ![KeyOf(c)] = @ \union {c}]
        /\ todo' = todo \ {c}
  BY DEF GroupCheck
<1>4. /\ pc = "group" /\ pc' = "group"
      /\ UNCHANGED <<input, reserved, shards, load, last>>
  BY DEF GroupCheck
<1>5. /\ units \in [Key -> SUBSET Check] /\ shards \in [Slot -> SUBSET Check]
      /\ c \in Rest /\ c \in Check /\ todo \subseteq Rest
  BY <1>3, <1>4 DEF IInv, TypeOK, Counted
<1>6. KeyOf(c) \in Key
  BY <1>5, KeyType DEF IInv
<1>7. /\ units'[KeyOf(c)] = units[KeyOf(c)] \union {c}
      /\ \A k \in Key : k # KeyOf(c) => units'[k] = units[k]
  BY <1>3, <1>5, <1>6
<1>8. Counted' /\ Solo' /\ Shared' /\ Idle'
  BY <1>2, <1>3, <1>4 DEF IInv, Counted, Solo, Shared, Idle, Planning, Placing
<1>9. Keyed'
  <2> SUFFICES ASSUME NEW k \in Key, NEW d \in units'[k]
               PROVE  d \in Rest /\ KeyOf(d) = k
    BY <1>2 DEF Keyed
  <2>1. d \in units[k] \/ (d = c /\ k = KeyOf(c))
    BY <1>7
  <2> QED
    BY <1>5, <2>1 DEF IInv, Keyed
<1>10. IsolatedFound'
  BY <1>2, <1>4 DEF IInv, IsolatedFound, Planning
<1>11. RestFound'
  <2>1. ASSUME NEW d \in Rest PROVE d \in todo' \/ d \in units'[KeyOf(d)]
    <3>1. KeyOf(d) \in Key
      BY <2>1, KeyType DEF Rest, IInv
    <3>2. d \in todo \/ d \in units[KeyOf(d)]
      BY <1>4, <2>1 DEF IInv, RestFound
    <3> QED
      BY <1>3, <1>7, <3>1, <3>2
  <2> QED
    BY <1>2, <1>4, <2>1 DEF RestFound, Placing
<1>12. Apart'
  <2>1. \A s \in Slot : c \notin shards[s]
    <3> SUFFICES ASSUME NEW s \in Slot PROVE c \notin shards[s]
      OBVIOUS
    <3>1. CASE s <= Cardinality(Isolated)
      BY <1>5, <3>1 DEF IInv, Solo, Rest
    <3>2. CASE s > Cardinality(Isolated)
      BY <1>4, <3>2 DEF IInv, Idle, Placing
    <3> QED
      BY <3>1, <3>2, Counts DEF IInv, Slot
  <2>2. \A k \in Key, s \in Slot : units'[k] \intersect shards[s] = {}
    BY <1>7, <2>1 DEF IInv, Apart
  <2> QED
    BY <1>4, <2>2 DEF IInv, Apart
<1>13. Whole' /\ Balanced'
  BY <1>2, <1>4 DEF IInv, Whole, Balanced, Placing
<1> QED
  BY <1>1, <1>8, <1>9, <1>10, <1>11, <1>12, <1>13 DEF IInv

LEMMA GroupEndsStep == ASSUME IInv, GroupEnds PROVE IInv'
<1>1. TypeOK'
  BY TypeStep DEF Next
<1>2. /\ Isolated' = Isolated /\ Rest' = Rest /\ Slots' = Slots
      /\ Available' = Available /\ \A c : KeyOf(c)' = KeyOf(c)
  BY Fixed DEF Next
<1>3. /\ pc = "group" /\ pc' = "place" /\ todo = {}
      /\ UNCHANGED <<input, todo, reserved, units, weight, shards, load, last>>
  BY DEF GroupEnds
<1>4. \A s \in Slot : shards[s] \intersect Rest = {}
  <2> SUFFICES ASSUME NEW s \in Slot PROVE shards[s] \intersect Rest = {}
    OBVIOUS
  <2>1. CASE s <= Cardinality(Isolated)
    BY <2>1 DEF IInv, Solo, Rest
  <2>2. CASE s > Cardinality(Isolated)
    BY <1>3, <2>2 DEF IInv, Idle, Placing
  <2> QED
    BY <2>1, <2>2, Counts DEF IInv, Slot
<1>5. Counted' /\ Solo' /\ Shared' /\ Idle' /\ Keyed'
  BY <1>2, <1>3 DEF IInv, Counted, Solo, Shared, Idle, Keyed, Planning, Placing
<1>6. IsolatedFound' /\ RestFound' /\ Apart' /\ Balanced'
  BY <1>2, <1>3 DEF IInv, IsolatedFound, RestFound, Apart, Balanced, Planning, Placing
<1>7. Whole'
  <2>1. \A c \in Rest : c \in units[KeyOf(c)]
    BY <1>3 DEF IInv, RestFound
  <2>2. \A c \in Rest, k \in Key : c \in units[k] <=> KeyOf(c) = k
    BY <2>1 DEF IInv, Keyed
  <2> QED
    BY <1>2, <1>3, <1>4, <2>2 DEF Whole
<1> QED
  BY <1>1, <1>5, <1>6, <1>7 DEF IInv

LEMMA PlaceStep == ASSUME IInv, Place PROVE IInv'
<1>1. TypeOK'
  BY TypeStep DEF Next
<1>2. /\ Isolated' = Isolated /\ Rest' = Rest /\ Slots' = Slots
      /\ Available' = Available /\ \A c : KeyOf(c)' = KeyOf(c)
  BY Fixed DEF Next
<1>3. PICK k \in Pending, s \in Available :
        /\ Lightest(s)
        /\ shards' = [shards EXCEPT ![s] = shards[s] \union units[k]]
        /\ load' = [load EXCEPT ![s] = @ + weight[k]]
        /\ last' = [last EXCEPT ![s] = weight[k]]
        /\ units' = [units EXCEPT ![k] = {}]
  BY DEF Place, Extended
<1>4. pc = "place" /\ pc' = "place" /\ UNCHANGED <<input, todo, reserved, weight>>
  BY DEF Place
<1>5. /\ k \in Key /\ s \in Slot /\ s > Cardinality(Isolated)
      /\ Cardinality(Isolated) \in Nat /\ Available \subseteq Slot
  BY <1>3, Counts DEF IInv, Pending, Available, Slot
<1>6. /\ units \in [Key -> SUBSET Check] /\ shards \in [Slot -> SUBSET Check]
      /\ load \in [Slot -> Nat] /\ last \in [Slot -> Nat] /\ weight \in [Key -> Nat]
  BY DEF IInv, TypeOK
<1>7. /\ shards'[s] = shards[s] \union units[k]
      /\ \A t \in Slot : t # s => shards'[t] = shards[t]
  BY <1>3, <1>5, <1>6
<1>8. /\ units'[k] = {}
      /\ \A j \in Key : j # k => units'[j] = units[j]
  BY <1>3, <1>5, <1>6
<1>9. \A c \in units[k] : c \in Rest /\ KeyOf(c) = k
  BY <1>5 DEF IInv, Keyed
<1>10. Counted' /\ Idle'
  BY <1>2, <1>4 DEF IInv, Counted, Idle, Planning, Placing
<1>11. Solo' /\ Shared'
  <2>1. \A t \in Slot : t <= Cardinality(Isolated) => t # s
    BY <1>5 DEF Slot
  <2>2. Solo'
    BY <1>2, <1>7, <2>1 DEF IInv, Solo
  <2>3. Shared'
    BY <1>2, <1>5, <1>7, <1>9 DEF IInv, Shared
  <2> QED
    BY <2>2, <2>3
<1>12. Keyed'
  BY <1>2, <1>8 DEF IInv, Keyed
<1>13. IsolatedFound' /\ RestFound'
  <2>1. \A t \in Slot : shards[t] \subseteq shards'[t]
    BY <1>7
  <2>2. IsolatedFound'
    BY <1>2, <1>4, <2>1 DEF IInv, IsolatedFound, Planning
  <2>3. ASSUME NEW c \in Rest
        PROVE  c \in units'[KeyOf(c)] \/ \E t \in Slot : c \in shards'[t]
    <3>1. KeyOf(c) \in Key
      BY KeyType DEF IInv, Rest
    <3>2. c \in units[KeyOf(c)] \/ \E t \in Slot : c \in shards[t]
      BY <1>4 DEF IInv, RestFound, Placing
    <3>3. CASE KeyOf(c) = k /\ c \in units[k]
      BY <1>5, <1>7, <3>3
    <3> QED
      BY <1>8, <2>1, <3>1, <3>2, <3>3
  <2>4. RestFound'
    BY <1>2, <1>4, <2>3 DEF RestFound
  <2> QED
    BY <2>2, <2>4
<1>14. Apart'
  <2>1. \A t \in Slot : units[k] \intersect shards[t] = {}
    BY <1>5 DEF IInv, Apart
  <2>2. \A t, u \in Slot : t # u => shards'[t] \intersect shards'[u] = {}
    BY <1>5, <1>7, <2>1 DEF IInv, Apart
  <2>3. \A j \in Key : j # k => units[j] \intersect units[k] = {}
    BY <1>9 DEF IInv, Keyed
  <2>4. \A j \in Key, t \in Slot : units'[j] \intersect shards'[t] = {}
    BY <1>7, <1>8, <2>3 DEF IInv, Apart
  <2> QED
    BY <1>4, <2>2, <2>4 DEF Apart
<1>15. Whole'
  <2> SUFFICES ASSUME NEW c \in Rest, NEW d \in Rest, KeyOf(c) = KeyOf(d)
               PROVE  /\ \A j \in Key : c \in units'[j] <=> d \in units'[j]
                      /\ \A t \in Slot : c \in shards'[t] <=> d \in shards'[t]
    BY <1>2 DEF Whole
  <2>1. /\ \A j \in Key : c \in units[j] <=> d \in units[j]
        /\ \A t \in Slot : c \in shards[t] <=> d \in shards[t]
    BY <1>4 DEF IInv, Whole, Placing
  <2> QED
    BY <1>5, <1>7, <1>8, <2>1
<1>16. Balanced'
  <2>1. /\ load'[s] = load[s] + weight[k] /\ last'[s] = weight[k]
        /\ \A t \in Slot : t # s => load'[t] = load[t] /\ last'[t] = last[t]
    BY <1>3, <1>5, <1>6
  <2>2. \A t \in Available : load[s] <= load[t]
    BY <1>3, <1>5, <1>6 DEF Lightest
  <2>3. weight[k] \in Nat /\ \A t \in Available : load[t] \in Nat /\ last[t] \in Nat
    BY <1>5, <1>6
  <2> SUFFICES ASSUME NEW t \in Available, NEW u \in Available
               PROVE  load'[t] <= load'[u] + last'[t]
    BY <1>2 DEF Balanced
  <2>4. load[t] <= load[u] + last[t]
    BY DEF IInv, Balanced
  <2> QED
    BY <1>5, <2>1, <2>2, <2>3, <2>4
<1> QED
  BY <1>1, <1>10, <1>11, <1>12, <1>13, <1>14, <1>15, <1>16 DEF IInv

LEMMA FinishStep == ASSUME IInv, Finish PROVE IInv'
<1>1. TypeOK'
  BY TypeStep DEF Next
<1>2. /\ Isolated' = Isolated /\ Rest' = Rest /\ Slots' = Slots
      /\ Available' = Available /\ \A c : KeyOf(c)' = KeyOf(c)
  BY Fixed DEF Next
<1>3. /\ pc = "place" /\ pc' = "done"
      /\ UNCHANGED <<input, todo, reserved, units, weight, shards, load, last>>
      /\ \A k \in Key : units[k] = {}
  BY DEF Finish, Pending
<1>4. Counted' /\ Solo' /\ Shared' /\ Idle' /\ Keyed'
  BY <1>2, <1>3 DEF IInv, Counted, Solo, Shared, Idle, Keyed, Planning, Placing
<1>5. IsolatedFound' /\ RestFound' /\ Apart' /\ Whole' /\ Balanced'
  BY <1>2, <1>3 DEF IInv, IsolatedFound, RestFound, Apart, Whole, Balanced,
                    Planning, Placing
<1> QED
  BY <1>1, <1>4, <1>5 DEF IInv

LEMMA StutterStep == ASSUME IInv, UNCHANGED vars PROVE IInv'
<1>1. TypeOK'
  BY TypeStep
<1>2. /\ Isolated' = Isolated /\ Rest' = Rest /\ Slots' = Slots
      /\ Available' = Available /\ \A c : KeyOf(c)' = KeyOf(c)
  BY Fixed
<1>3. Counted' /\ Solo' /\ Shared' /\ Idle' /\ Keyed'
  BY <1>2 DEF vars, IInv, Counted, Solo, Shared, Idle, Keyed, Planning, Placing
<1>4. IsolatedFound' /\ RestFound' /\ Apart' /\ Whole' /\ Balanced'
  BY <1>2 DEF vars, IInv, IsolatedFound, RestFound, Apart, Whole, Balanced,
              Planning, Placing
<1> QED
  BY <1>1, <1>3, <1>4 DEF IInv

(* The conjunction of all parts is inductive.                              *)
THEOREM Invariance == Spec => []IInv
<1>1. Init => IInv
  BY Initially
<1>2. IInv /\ [Next]_vars => IInv'
  BY ResolveStep, ReserveStep, ReserveEndsStep, GroupCheckStep, GroupEndsStep,
     PlaceStep, FinishStep, StutterStep DEF Next, Returned
<1> QED
  BY <1>1, <1>2, PTL DEF Spec

(* The planner's variables keep their types.                               *)
THEOREM PlannerTypeCorrect == Spec => []TypeOK
<1>1. IInv => TypeOK
  BY DEF IInv
<1> QED
  BY <1>1, Invariance, PTL

(* For every configuration a finished plan contains each evaluated check   *)
(* in exactly one shard.                                                   *)
THEOREM PlanIsPartition == Spec => []PlanPartitions
<1>1. IInv => PlanPartitions
  <2> SUFFICES ASSUME IInv, pc = "done" PROVE PlanPartitions
    BY DEF PlanPartitions
  <2>1. ASSUME NEW c \in Check PROVE \E s \in Slot : c \in shards[s]
    <3>1. CASE c \in Isolated
      BY <3>1 DEF IInv, IsolatedFound, Planning
    <3>2. CASE c \in Rest
      <4>1. KeyOf(c) \in Key
        BY KeyType DEF IInv
      <4> QED
        BY <3>2, <4>1 DEF IInv, RestFound, Placing
    <3> QED
      BY <3>1, <3>2 DEF Rest
  <2>2. \A s, t \in Slot : s # t => shards[s] \intersect shards[t] = {}
    BY DEF IInv, Apart
  <2> QED
    BY <2>1, <2>2 DEF PlanPartitions, Planned
<1> QED
  BY <1>1, Invariance, PTL

(* An isolated check has its shard for itself.                             *)
THEOREM IsolatedAlone == Spec => []IsolationKept
<1>1. IInv => IsolationKept
  <2> SUFFICES ASSUME IInv, NEW c \in Isolated, NEW s \in Slot, c \in shards[s]
               PROVE  shards[s] = {c}
    BY DEF IsolationKept, Planned
  <2>1. s <= Cardinality(Isolated)
    BY Counts DEF IInv, Shared, Rest, Slot
  <2> QED
    BY <2>1 DEF IInv, Solo
<1> QED
  BY <1>1, Invariance, PTL

(* The checks of an affinity group are in the same shard.                  *)
THEOREM GroupsTogether == Spec => []AffinityKept
<1>1. IInv => AffinityKept
  <2> SUFFICES ASSUME IInv, pc = "done", NEW c \in Rest, NEW d \in Rest,
                      Affinity(c) # Unset, Affinity(c) = Affinity(d),
                      NEW s \in Slot
               PROVE  c \in shards[s] <=> d \in shards[s]
    BY DEF AffinityKept, Planned
  <2>1. KeyOf(c) = KeyOf(d)
    BY DEF KeyOf
  <2> QED
    BY <2>1 DEF IInv, Whole, Placing
<1> QED
  BY <1>1, Invariance, PTL

(* A written plan honours the merged hints, isolation and affinity alike.   *)
THEOREM HintsHonoured == Spec => []HintsKept
<1>1. IsolationKept /\ AffinityKept => HintsKept
  BY DEF HintsKept
<1> QED
  BY <1>1, IsolatedAlone, GroupsTogether, PTL

(* No shard outweighs another by more than its last unit.                  *)
THEOREM GreedyBalance == Spec => []Balanced
<1>1. IInv => Balanced
  BY DEF IInv
<1> QED
  BY <1>1, Invariance, PTL

(* The error of make_plan has its reason in the configuration.             *)
ErrorReason == pc = "error" => Conflict \/ NotEnoughShards

(* Isolated checks, and one more if there is one, need shards that differ. *)
LEMMA NeedsShards ==
  ASSUME TypeOK, NotEnoughShards
  PROVE  ~Feasible
<1> SUFFICES ASSUME NEW f \in [Check -> 1 .. input.count],
                    \A c \in Isolated : \A d \in Check \ {c} : f[c] # f[d]
             PROVE  FALSE
  BY DEF Feasible
<1>1. input.count \in Nat /\ IsFiniteSet(Isolated) /\ Cardinality(Isolated) \in Nat
  <2>1. input.count \in Nat
    BY ConfigurationAssumption DEF TypeOK, Configuration
  <2>2. Isolated \in SUBSET Check
    BY DEF Isolated
  <2> QED
    BY <2>1, <2>2, InventoryAssumption, FS_Subset, FS_CardinalityType
<1>2. IsFiniteSet(1 .. input.count) /\ Cardinality(1 .. input.count) = input.count
  <2>1. input.count \in Int /\ 1 \in Int
    BY <1>1
  <2>2. /\ IsFiniteSet(1 .. input.count)
        /\ Cardinality(1 .. input.count) =
             IF 1 > input.count THEN 0 ELSE input.count - 1 + 1
    BY <2>1, FS_Interval
  <2> QED
    BY <1>1, <2>2
<1>3. ASSUME NEW S \in SUBSET Check, IsFiniteSet(S), Cardinality(S) > input.count,
             NEW r, S \subseteq Isolated \union {r}
      PROVE  FALSE
  <2> DEFINE g == [c \in S |-> f[c]]
             T == 1 .. input.count
  <2>1. g \in [S -> T]
    OBVIOUS
  <2>2. IsFiniteSet(T) /\ Cardinality(T) < Cardinality(S)
    <3>1. Cardinality(S) \in Nat
      BY <1>3, FS_CardinalityType
    <3> QED
      BY <3>1, <1>1, <1>2, <1>3
  <2> HIDE DEF g, T
  <2>3. \E x, y \in S : x # y /\ g[x] = g[y]
    BY <1>3, <2>1, <2>2, FS_PigeonHole
  <2> PICK x \in S, y \in S : x # y /\ g[x] = g[y]
    BY <2>3
  <2>4. f[x] = f[y] /\ (x \in Isolated \/ y \in Isolated)
    BY <1>3 DEF g
  <2> QED
    BY <1>3, <2>4
<1>4. CASE Cardinality(Isolated) > input.count
  <2>1. Isolated \in SUBSET Check
    BY DEF Isolated
  <2> QED
    BY <1>1, <1>3, <1>4, <2>1
<1>5. CASE Rest # {} /\ Cardinality(Isolated) = input.count
  <2>1. PICK r \in Rest : TRUE
    BY <1>5
  <2>2. r \in Check /\ r \notin Isolated /\ Isolated \union {r} \in SUBSET Check
    BY <2>1 DEF Rest, Isolated
  <2>3. /\ IsFiniteSet(Isolated \union {r})
        /\ Cardinality(Isolated \union {r}) = Cardinality(Isolated) + 1
    BY <1>1, <2>2, FS_AddElement
  <2>4. Cardinality(Isolated \union {r}) > input.count
    BY <1>1, <1>5, <2>3
  <2> QED
    BY <1>3, <2>2, <2>3, <2>4
<1> QED
  BY <1>4, <1>5 DEF NotEnoughShards

(* make_plan refuses a configuration only if no assignment of the checks   *)
(* to its shards could honour the hints, whatever their number.            *)
THEOREM RejectsNothingElse == Spec => []RejectsOnlyInfeasible
<1>1. Init => ErrorReason
  BY DEF Init, ErrorReason
<1>2. ErrorReason /\ [Next]_vars => ErrorReason'
  <2> SUFFICES ASSUME ErrorReason, [Next]_vars, pc' = "error"
               PROVE  (Conflict \/ NotEnoughShards)'
    BY DEF ErrorReason
  <2>1. Conflict \/ NotEnoughShards
    BY DEF ErrorReason, Next, Resolve, Reserve, ReserveEnds, GroupCheck, GroupEnds,
           Place, Finish, Returned, vars
  <2>2. UNCHANGED Conflict /\ UNCHANGED NotEnoughShards
    <3>1. UNCHANGED <<input, Isolated, Rest>> /\ \A c : Affinity(c)' = Affinity(c)
      BY Fixed
    <3> QED
      BY <3>1 DEF Conflict, NotEnoughShards
  <2> QED
    BY <2>1, <2>2
<1>3. TypeOK /\ ErrorReason => RejectsOnlyInfeasible
  BY NeedsShards DEF ErrorReason, RejectsOnlyInfeasible
<1> QED
  BY <1>1, <1>2, <1>3, PlannerTypeCorrect, PTL DEF Spec

-----------------------------------------------------------------------------
(* Among some subsets of a finite set there is one with no smaller.        *)
LEMMA LeastSet ==
  ASSUME NEW D, IsFiniteSet(D), NEW B, B \subseteq SUBSET D, B # {}
  PROVE  \E T \in B : \A V \in B : V \subseteq T => V = T
<1> DEFINE R == StrictSubsetOrdering(D)
<1>1. IsWellFoundedOn(R, SUBSET D)
  BY FS_StrictSubsetOrderingWellFounded, FS_FiniteSubsetsOfFinite
<1> HIDE DEF R
<1>2. PICK T \in B : \A V \in B : ~ (<<V, T>> \in R)
  BY <1>1, WFMin
<1>3. ASSUME NEW V \in B, V \subseteq T, V # T PROVE FALSE
  <2>1. <<V, T>> \in R
    BY <1>3 DEF R, StrictSubsetOrdering
  <2> QED
    BY <1>2, <2>1
<1> QED
  BY <1>2, <1>3

-----------------------------------------------------------------------------
(* A sum is computed by taking one element after the other out of the set, *)
(* and h holds the sums of all sets of a family that is closed under this. *)
First(S) == CHOOSE x \in S : TRUE

Sums(h, g, F) ==
  h = [S \in F |-> IF S = {} THEN 0 ELSE g[First(S)] + h[S \ {First(S)}]]

LEMMA FirstIn == ASSUME NEW S, S # {} PROVE First(S) \in S
BY DEF First

(* There are such tables of sums ...                                       *)
LEMMA SumsExist ==
  ASSUME NEW g, NEW D, IsFiniteSet(D)
  PROVE  \E h : Sums(h, g, SUBSET D)
<1> DEFINE Upto(n) == {S \in SUBSET D : Cardinality(S) <= n}
           Bad     == {n \in Nat : ~ \E h : Sums(h, g, Upto(n))}
<1>1. \A S \in SUBSET D : /\ IsFiniteSet(S) /\ Cardinality(S) \in Nat
                          /\ Cardinality(S) <= Cardinality(D)
  BY FS_Subset, FS_CardinalityType
<1>2. ASSUME Bad # {} PROVE FALSE
  <2>1. PICK n \in Bad : \A k \in Bad : n <= k
    BY <1>2, NatLeast
  <2>2. \E h : Sums(h, g, Upto(n))
    <3>1. CASE n = 0
      <4> DEFINE h == [S \in Upto(0) |-> 0]
      <4>1. \A S \in Upto(0) : S = {}
        BY <1>1, FS_EmptySet
      <4>2. Sums(h, g, Upto(0))
        BY <4>1 DEF Sums
      <4> QED
        BY <3>1, <4>2
    <3>2. CASE n # 0
      <4>1. n - 1 \in Nat /\ n - 1 \notin Bad
        <5>1. n \in Nat /\ n - 1 \in Nat /\ ~ n <= n - 1
          BY <2>1, <3>2
        <5> HIDE DEF Bad
        <5> QED
          BY <2>1, <5>1
      <4>2. PICK p : Sums(p, g, Upto(n - 1))
        BY <4>1
      <4> DEFINE h == [S \in Upto(n) |-> IF S = {} THEN 0
                                         ELSE g[First(S)] + p[S \ {First(S)}]]
      <4>3. ASSUME NEW S \in Upto(n), S # {}
            PROVE  h[S \ {First(S)}] = p[S \ {First(S)}]
        <5> DEFINE V == S \ {First(S)}
        <5>1. First(S) \in S
          BY <4>3, FirstIn
        <5>2. V \in SUBSET D /\ Cardinality(V) = Cardinality(S) - 1
          BY <1>1, <5>1, FS_RemoveElement
        <5>3. V \in Upto(n - 1) /\ V \in Upto(n)
          BY <1>1, <4>1, <5>2
        <5> HIDE DEF V
        <5>4. p[V] = IF V = {} THEN 0 ELSE g[First(V)] + p[V \ {First(V)}]
          BY <4>2, <5>3 DEF Sums
        <5>5. h[V] = IF V = {} THEN 0 ELSE g[First(V)] + p[V \ {First(V)}]
          BY <5>3
        <5> QED
          BY <5>4, <5>5 DEF V
      <4>4. h = [S \in Upto(n) |-> IF S = {} THEN 0
                                   ELSE g[First(S)] + h[S \ {First(S)}]]
        BY <4>3
      <4> QED
        BY <4>4 DEF Sums
    <3> QED
      BY <3>1, <3>2
  <2> QED
    BY <2>1, <2>2
<1>3. Cardinality(D) \in Nat /\ Upto(Cardinality(D)) = SUBSET D
  BY <1>1
<1>4. \E h : Sums(h, g, Upto(Cardinality(D)))
  BY <1>2, <1>3
<1> QED
  BY <1>3, <1>4

(* ... and two of them agree where they are both defined.                  *)
LEMMA SumsAgree ==
  ASSUME NEW g, NEW E, IsFiniteSet(E), NEW F, NEW G,
         \A S \in SUBSET E : S \in F /\ S \in G,
         NEW h, Sums(h, g, F), NEW p, Sums(p, g, G)
  PROVE  h[E] = p[E]
<1> DEFINE Bad == {S \in SUBSET E : h[S] # p[S]}
<1>1. ASSUME Bad # {} PROVE FALSE
  <2>1. PICK S \in Bad : \A V \in Bad : V \subseteq S => V = S
    <3>1. Bad \subseteq SUBSET E
      OBVIOUS
    <3> HIDE DEF Bad
    <3> QED
      BY <1>1, <3>1, LeastSet
  <2>2. /\ h[S] = IF S = {} THEN 0 ELSE g[First(S)] + h[S \ {First(S)}]
        /\ p[S] = IF S = {} THEN 0 ELSE g[First(S)] + p[S \ {First(S)}]
    BY <2>1 DEF Sums
  <2>3. S # {}
    BY <2>1, <2>2
  <2>4. S \ {First(S)} \notin Bad /\ S \ {First(S)} \in SUBSET E
    BY <2>1, <2>3, FirstIn
  <2> QED
    BY <2>1, <2>2, <2>4
<1> QED
  BY <1>1

LEMMA SumUnfolds ==
  ASSUME NEW g, NEW D, IsFiniteSet(D)
  PROVE  \E h : Sums(h, g, SUBSET D) /\ SumFunctionOnSet(g, D) = h[D]
<1> DEFINE h == CHOOSE h : Sums(h, g, SUBSET D)
<1>1. Sums(h, g, SUBSET D)
  BY SumsExist
<1>2. SumFunctionOnSet(g, D) = h[D]
  BY DEF SumFunctionOnSet, FoldFunctionOnSet, MapThenFoldSet, Sums, First
<1> QED
  BY <1>1, <1>2

LEMMA SumEmpty == ASSUME NEW g PROVE SumFunctionOnSet(g, {}) = 0
<1>1. PICK h : Sums(h, g, SUBSET {}) /\ SumFunctionOnSet(g, {}) = h[{}]
  BY SumUnfolds, FS_EmptySet
<1> QED
  BY <1>1 DEF Sums

LEMMA SumFirst ==
  ASSUME NEW g, NEW S, IsFiniteSet(S), S # {}
  PROVE  SumFunctionOnSet(g, S) =
           g[First(S)] + SumFunctionOnSet(g, S \ {First(S)})
<1> DEFINE V == S \ {First(S)}
<1>1. IsFiniteSet(V) /\ V \subseteq S
  BY FS_Subset
<1>2. PICK h : Sums(h, g, SUBSET S) /\ SumFunctionOnSet(g, S) = h[S]
  BY SumUnfolds
<1>3. PICK p : Sums(p, g, SUBSET V) /\ SumFunctionOnSet(g, V) = p[V]
  BY <1>1, SumUnfolds
<1> HIDE DEF V
<1>4. h[V] = p[V]
  <2> DEFINE F == SUBSET S
             G == SUBSET V
  <2>1. Sums(h, g, F) /\ Sums(p, g, G)
    BY <1>2, <1>3
  <2>2. \A W \in SUBSET V : W \in F /\ W \in G
    BY <1>1
  <2> HIDE DEF F, G
  <2> QED
    BY <1>1, <2>1, <2>2, SumsAgree
<1>5. h[S] = g[First(S)] + h[V]
  BY <1>2 DEF Sums, V
<1> QED
  BY <1>2, <1>3, <1>4, <1>5 DEF V

-----------------------------------------------------------------------------
(* Sums of natural numbers.                                                *)
Weighs(g, S) == IsFiniteSet(S) /\ \A x \in S : g[x] \in Nat

LEMMA WeighsPart ==
  ASSUME NEW g, NEW S, Weighs(g, S), NEW V, V \subseteq S
  PROVE  Weighs(g, V)
BY FS_Subset DEF Weighs

LEMMA SumType ==
  ASSUME NEW g, NEW S, Weighs(g, S) PROVE SumFunctionOnSet(g, S) \in Nat
<1> DEFINE Bad == {V \in SUBSET S : SumFunctionOnSet(g, V) \notin Nat}
<1>1. ASSUME Bad # {} PROVE FALSE
  <2>1. PICK V \in Bad : \A W \in Bad : W \subseteq V => W = V
    <3>1. Bad \subseteq SUBSET S /\ IsFiniteSet(S)
      BY DEF Weighs
    <3> HIDE DEF Bad
    <3> QED
      BY <1>1, <3>1, LeastSet
  <2>2. V # {}
    <3>1. SumFunctionOnSet(g, {}) = 0 /\ SumFunctionOnSet(g, V) \notin Nat
      BY <2>1, SumEmpty
    <3> QED
      BY <3>1
  <2>3. First(V) \in V
    BY <2>2, FirstIn
  <2>4. V \ {First(V)} \in SUBSET S /\ V \ {First(V)} \notin Bad
    BY <2>1, <2>3
  <2>5. SumFunctionOnSet(g, V) = g[First(V)] + SumFunctionOnSet(g, V \ {First(V)})
    BY <2>1, <2>2, SumFirst, FS_Subset DEF Weighs
  <2> QED
    BY <2>1, <2>3, <2>4, <2>5 DEF Weighs
<1> QED
  BY <1>1

(* A sum does not depend on the order: any element can be taken out first. *)
LEMMA SumRemove ==
  ASSUME NEW g, NEW S, Weighs(g, S), NEW x \in S
  PROVE  SumFunctionOnSet(g, S) = g[x] + SumFunctionOnSet(g, S \ {x})
<1> DEFINE Bad == {V \in SUBSET S : \E y \in V :
                     SumFunctionOnSet(g, V) # g[y] + SumFunctionOnSet(g, V \ {y})}
<1>1. ASSUME Bad # {} PROVE FALSE
  <2>1. PICK V \in Bad : \A W \in Bad : W \subseteq V => W = V
    <3>1. Bad \subseteq SUBSET S /\ IsFiniteSet(S)
      BY DEF Weighs
    <3> HIDE DEF Bad
    <3> QED
      BY <1>1, <3>1, LeastSet
  <2>2. PICK y \in V : SumFunctionOnSet(g, V) # g[y] + SumFunctionOnSet(g, V \ {y})
    BY <2>1
  <2>3. PICK z \in V : SumFunctionOnSet(g, V) = g[z] + SumFunctionOnSet(g, V \ {z})
    BY <2>1, <2>2, FirstIn, SumFirst, FS_Subset DEF Weighs
  <2>4. y # z
    BY <2>2, <2>3
  <2> DEFINE P == V \ {y}
             Q == V \ {z}
             N == (V \ {y}) \ {z}
  <2>5. Weighs(g, P) /\ Weighs(g, Q) /\ Weighs(g, N)
    BY <2>1, WeighsPart
  <2>6. P \notin Bad /\ Q \notin Bad /\ z \in P /\ y \in Q
        /\ P \in SUBSET S /\ Q \in SUBSET S
    BY <2>1, <2>2, <2>3, <2>4
  <2>7. SumFunctionOnSet(g, P) = g[z] + SumFunctionOnSet(g, N)
    BY <2>6
  <2>8. N = Q \ {y}
    OBVIOUS
  <2>9. SumFunctionOnSet(g, Q) = g[y] + SumFunctionOnSet(g, N)
    BY <2>6, <2>8
  <2>10. SumFunctionOnSet(g, N) \in Nat /\ g[y] \in Nat /\ g[z] \in Nat
    BY <2>1, <2>5, SumType DEF Weighs
  <2> HIDE DEF P, Q, N
  <2>11. SumFunctionOnSet(g, V) = g[z] + (g[y] + SumFunctionOnSet(g, N))
    BY <2>3, <2>9 DEF Q
  <2>12. SumFunctionOnSet(g, V) # g[y] + (g[z] + SumFunctionOnSet(g, N))
    BY <2>2, <2>7 DEF P
  <2> QED
    BY <2>10, <2>11, <2>12
<1> QED
  BY <1>1

(* A sum depends on the values in its set only.                            *)
LEMMA SumSame ==
  ASSUME NEW g, NEW h, NEW S, IsFiniteSet(S), \A x \in S : g[x] = h[x]
  PROVE  SumFunctionOnSet(g, S) = SumFunctionOnSet(h, S)
<1> DEFINE Bad == {V \in SUBSET S : SumFunctionOnSet(g, V) # SumFunctionOnSet(h, V)}
<1>1. ASSUME Bad # {} PROVE FALSE
  <2>1. PICK V \in Bad : \A W \in Bad : W \subseteq V => W = V
    <3>1. Bad \subseteq SUBSET S
      OBVIOUS
    <3> HIDE DEF Bad
    <3> QED
      BY <1>1, <3>1, LeastSet
  <2>2. V # {}
    <3>1. SumFunctionOnSet(g, {}) = 0 /\ SumFunctionOnSet(h, {}) = 0
      BY SumEmpty
    <3>2. SumFunctionOnSet(g, V) # SumFunctionOnSet(h, V)
      BY <2>1
    <3> QED
      BY <3>1, <3>2
  <2>3. First(V) \in V /\ IsFiniteSet(V)
    BY <2>1, <2>2, FirstIn, FS_Subset
  <2> DEFINE N == V \ {First(V)}
  <2>4. N \in SUBSET S /\ N \notin Bad
    BY <2>1, <2>3
  <2>5. SumFunctionOnSet(g, N) = SumFunctionOnSet(h, N)
    BY <2>4
  <2>6. /\ SumFunctionOnSet(g, V) = g[First(V)] + SumFunctionOnSet(g, N)
        /\ SumFunctionOnSet(h, V) = h[First(V)] + SumFunctionOnSet(h, N)
    BY <2>2, <2>3, SumFirst
  <2> QED
    BY <2>1, <2>3, <2>5, <2>6
<1> QED
  BY <1>1

LEMMA SumAdd ==
  ASSUME NEW g, NEW S, Weighs(g, S), NEW x, x \notin S, g[x] \in Nat
  PROVE  /\ SumFunctionOnSet(g, S \union {x}) = g[x] + SumFunctionOnSet(g, S)
         /\ Weighs(g, S \union {x})
<1> DEFINE V == S \union {x}
<1>1. Weighs(g, V)
  BY FS_AddElement DEF Weighs
<1>2. x \in V /\ V \ {x} = S
  OBVIOUS
<1> HIDE DEF V
<1>3. SumFunctionOnSet(g, V) = g[x] + SumFunctionOnSet(g, S)
  BY <1>1, <1>2, SumRemove
<1> QED
  BY <1>1, <1>3 DEF V

LEMMA SumUnion ==
  ASSUME NEW g, NEW S, Weighs(g, S), NEW A, A \subseteq S
  PROVE  SumFunctionOnSet(g, S) = SumFunctionOnSet(g, A) + SumFunctionOnSet(g, S \ A)
<1> DEFINE Bad == {V \in SUBSET A : SumFunctionOnSet(g, (S \ A) \union V)
                     # SumFunctionOnSet(g, V) + SumFunctionOnSet(g, S \ A)}
<1>1. ASSUME Bad # {} PROVE FALSE
  <2>1. PICK V \in Bad : \A W \in Bad : W \subseteq V => W = V
    <3>1. Bad \subseteq SUBSET A /\ IsFiniteSet(A)
      BY FS_Subset DEF Weighs
    <3> HIDE DEF Bad
    <3> QED
      BY <1>1, <3>1, LeastSet
  <2>2. SumFunctionOnSet(g, S \ A) \in Nat /\ Weighs(g, V)
    BY <2>1, SumType, WeighsPart
  <2>3. V # {}
    <3>1. SumFunctionOnSet(g, {}) = 0 /\ (S \ A) \union {} = S \ A
      BY SumEmpty
    <3>2. SumFunctionOnSet(g, (S \ A) \union V)
            # SumFunctionOnSet(g, V) + SumFunctionOnSet(g, S \ A)
      BY <2>1
    <3>3. SumFunctionOnSet(g, S \ A) = 0 + SumFunctionOnSet(g, S \ A)
      BY <2>2
    <3> QED
      BY <3>1, <3>2, <3>3
  <2>4. PICK x \in V : TRUE
    BY <2>3
  <2> DEFINE N == V \ {x}
             P == (S \ A) \union V
             Q == (S \ A) \union N
  <2>5. N \in SUBSET A /\ N \notin Bad
    BY <2>1, <2>4
  <2>6. Q = P \ {x} /\ x \in P /\ P \subseteq S /\ Q \subseteq S /\ N \subseteq S
    BY <2>1, <2>4
  <2>7. SumFunctionOnSet(g, Q) = SumFunctionOnSet(g, N) + SumFunctionOnSet(g, S \ A)
    BY <2>5
  <2>8. SumFunctionOnSet(g, P) # SumFunctionOnSet(g, V) + SumFunctionOnSet(g, S \ A)
    BY <2>1
  <2> HIDE DEF P, Q
  <2>9. Weighs(g, P) /\ Weighs(g, N)
    BY <2>6, WeighsPart
  <2>10. SumFunctionOnSet(g, P) = g[x] + SumFunctionOnSet(g, Q)
    BY <2>6, <2>9, SumRemove
  <2>11. SumFunctionOnSet(g, V) = g[x] + SumFunctionOnSet(g, N)
    BY <2>2, <2>4, SumRemove
  <2>12. g[x] \in Nat /\ SumFunctionOnSet(g, N) \in Nat
    BY <2>2, <2>4, <2>9, SumType DEF Weighs
  <2> HIDE DEF N
  <2> QED
    BY <2>2, <2>7, <2>8, <2>10, <2>11, <2>12
<1>2. A \notin Bad
  BY <1>1
<1>3. (S \ A) \union A = S
  OBVIOUS
<1> QED
  BY <1>2, <1>3

LEMMA SumPart ==
  ASSUME NEW g, NEW S, Weighs(g, S), NEW A, A \subseteq S
  PROVE  SumFunctionOnSet(g, A) <= SumFunctionOnSet(g, S)
<1>1. SumFunctionOnSet(g, S) = SumFunctionOnSet(g, A) + SumFunctionOnSet(g, S \ A)
  BY SumUnion
<1>2. Weighs(g, A) /\ Weighs(g, S \ A)
  BY WeighsPart
<1>3. SumFunctionOnSet(g, A) \in Nat /\ SumFunctionOnSet(g, S \ A) \in Nat
  BY <1>2, SumType
<1> QED
  BY <1>1, <1>3

(* A sum is at least the sum of one, two or three of its terms.            *)
LEMMA SumTerms ==
  ASSUME NEW g, NEW S, Weighs(g, S), NEW x \in S
  PROVE  /\ g[x] <= SumFunctionOnSet(g, S)
         /\ \A y \in S : y # x => g[x] + g[y] <= SumFunctionOnSet(g, S)
         /\ \A y, z \in S : y # x /\ z # x /\ y # z =>
              g[x] + g[y] + g[z] <= SumFunctionOnSet(g, S)
<1>1. ASSUME NEW V, V \subseteq S, NEW y \in V
      PROVE  /\ SumFunctionOnSet(g, V) = g[y] + SumFunctionOnSet(g, V \ {y})
             /\ SumFunctionOnSet(g, V \ {y}) \in Nat /\ g[y] \in Nat
  <2>1. Weighs(g, V) /\ Weighs(g, V \ {y})
    BY <1>1, WeighsPart
  <2>2. SumFunctionOnSet(g, V) = g[y] + SumFunctionOnSet(g, V \ {y})
    BY <2>1, SumRemove
  <2>3. SumFunctionOnSet(g, V \ {y}) \in Nat
    BY <2>1, SumType
  <2> QED
    BY <2>1, <2>2, <2>3 DEF Weighs
<1> DEFINE N == S \ {x}
<1>2. SumFunctionOnSet(g, S) = g[x] + SumFunctionOnSet(g, N)
      /\ SumFunctionOnSet(g, N) \in Nat /\ g[x] \in Nat
  BY <1>1
<1>3. ASSUME NEW y \in S, y # x
      PROVE  /\ g[x] + g[y] <= SumFunctionOnSet(g, S)
             /\ \A z \in S : z # x /\ y # z => g[x] + g[y] + g[z] <= SumFunctionOnSet(g, S)
  <2> DEFINE P == N \ {y}
  <2>1. y \in N /\ N \subseteq S /\ P \subseteq S
    BY <1>3
  <2>2. SumFunctionOnSet(g, N) = g[y] + SumFunctionOnSet(g, P)
        /\ SumFunctionOnSet(g, P) \in Nat /\ g[y] \in Nat
    BY <1>1, <2>1
  <2>3. ASSUME NEW z \in S, z # x, y # z
        PROVE  g[x] + g[y] + g[z] <= SumFunctionOnSet(g, S)
    <3>1. z \in P
      BY <2>3
    <3>2. SumFunctionOnSet(g, P) = g[z] + SumFunctionOnSet(g, P \ {z})
          /\ SumFunctionOnSet(g, P \ {z}) \in Nat /\ g[z] \in Nat
      BY <1>1, <2>1, <3>1
    <3> HIDE DEF N, P
    <3> QED
      BY <1>2, <2>2, <3>2
  <2> HIDE DEF N, P
  <2> QED
    BY <1>2, <2>2, <2>3
<1> HIDE DEF N
<1> QED
  BY <1>2, <1>3

(* The sum over disjoint parts is the sum of the sums of the parts.        *)
LEMMA SumOfParts ==
  ASSUME NEW g, NEW S, Weighs(g, S), NEW M, IsFiniteSet(M), NEW part, NEW h,
         \A s \in M : part[s] \subseteq S /\ h[s] = SumFunctionOnSet(g, part[s]),
         \A s, t \in M : s # t => part[s] \intersect part[t] = {}
  PROVE  /\ Weighs(h, M)
         /\ SumFunctionOnSet(h, M) = SumFunctionOnSet(g, UNION {part[s] : s \in M})
<1> DEFINE Over(N) == UNION {part[s] : s \in N}
           Bad == {N \in SUBSET M : SumFunctionOnSet(h, N) # SumFunctionOnSet(g, Over(N))}
<1>1. \A s \in M : h[s] \in Nat
  <2> TAKE s \in M
  <2>1. Weighs(g, part[s])
    BY WeighsPart
  <2> QED
    BY <2>1, SumType
<1>2. ASSUME Bad # {} PROVE FALSE
  <2>1. PICK N \in Bad : \A W \in Bad : W \subseteq N => W = N
    <3>1. Bad \subseteq SUBSET M
      OBVIOUS
    <3> HIDE DEF Bad
    <3> QED
      BY <1>2, <3>1, LeastSet
  <2>2. N # {}
    <3>1. SumFunctionOnSet(h, {}) = 0 /\ SumFunctionOnSet(g, {}) = 0 /\ Over({}) = {}
      BY SumEmpty
    <3>2. SumFunctionOnSet(h, N) # SumFunctionOnSet(g, Over(N))
      BY <2>1
    <3> HIDE DEF Over
    <3> QED
      BY <3>1, <3>2
  <2>3. PICK s \in N : TRUE
    BY <2>2
  <2> DEFINE P == N \ {s}
             A == Over(N)
             B == Over(P)
  <2>4. P \in SUBSET M /\ P \notin Bad /\ s \in M /\ N \subseteq M
    BY <2>1, <2>3
  <2>5. SumFunctionOnSet(h, P) = SumFunctionOnSet(g, B)
    BY <2>4
  <2>6. SumFunctionOnSet(h, N) # SumFunctionOnSet(g, A)
    BY <2>1
  <2>7. A \subseteq S
    BY <2>4
  <2>8. part[s] \subseteq A
    BY <2>3
  <2>9. B = A \ part[s]
    BY <2>3, <2>4
  <2> HIDE DEF A, B
  <2>10. Weighs(g, A) /\ Weighs(h, N)
    BY <1>1, <2>4, <2>7, WeighsPart, FS_Subset DEF Weighs
  <2>11. SumFunctionOnSet(g, A) = SumFunctionOnSet(g, part[s]) + SumFunctionOnSet(g, B)
    BY <2>8, <2>9, <2>10, SumUnion
  <2>12. SumFunctionOnSet(h, N) = h[s] + SumFunctionOnSet(h, P)
    BY <2>3, <2>10, SumRemove
  <2> QED
    BY <2>4, <2>5, <2>6, <2>11, <2>12
<1>3. M \notin Bad
  BY <1>2
<1> QED
  BY <1>1, <1>3 DEF Weighs

(* A sum of terms of at most, or of at least, b.                           *)
LEMMA SumBounds ==
  ASSUME NEW h, NEW M, Weighs(h, M), NEW b \in Nat
  PROVE  /\ (\A s \in M : h[s] <= b) => SumFunctionOnSet(h, M) <= Cardinality(M) * b
         /\ (\A s \in M : b <= h[s]) => Cardinality(M) * b <= SumFunctionOnSet(h, M)
<1> DEFINE Fits(N) ==
             /\ (\A s \in N : h[s] <= b) => SumFunctionOnSet(h, N) <= Cardinality(N) * b
             /\ (\A s \in N : b <= h[s]) => Cardinality(N) * b <= SumFunctionOnSet(h, N)
           Bad == {N \in SUBSET M : ~ Fits(N)}
<1>1. ASSUME Bad # {} PROVE FALSE
  <2>1. PICK N \in Bad : \A W \in Bad : W \subseteq N => W = N
    <3>1. Bad \subseteq SUBSET M /\ IsFiniteSet(M)
      BY DEF Weighs
    <3> HIDE DEF Bad
    <3> QED
      BY <1>1, <3>1, LeastSet
  <2>2. N # {}
    <3>1. SumFunctionOnSet(h, {}) = 0 /\ Cardinality({}) = 0
      BY SumEmpty, FS_EmptySet
    <3>2. Fits({})
      BY <3>1
    <3> HIDE DEF Fits
    <3> QED
      BY <2>1, <3>2
  <2>3. PICK s \in N : TRUE
    BY <2>2
  <2> DEFINE P == N \ {s}
  <2>4. P \in SUBSET M /\ P \notin Bad /\ N \subseteq M
    BY <2>1, <2>3
  <2>5. Fits(P) /\ ~ Fits(N)
    BY <2>1, <2>4
  <2>6. Weighs(h, N) /\ Weighs(h, P)
    BY <2>4, WeighsPart
  <2>7. SumFunctionOnSet(h, N) = h[s] + SumFunctionOnSet(h, P)
    BY <2>3, <2>6, SumRemove
  <2>8. SumFunctionOnSet(h, P) \in Nat /\ h[s] \in Nat
    BY <2>3, <2>6, SumType DEF Weighs
  <2>9. Cardinality(N) = Cardinality(P) + 1 /\ Cardinality(P) \in Nat
    <3>1. IsFiniteSet(N) /\ IsFiniteSet(P)
      BY <2>6 DEF Weighs
    <3>2. Cardinality(P) = Cardinality(N) - 1
      BY <2>3, <3>1, FS_RemoveElement
    <3> QED
      BY <3>1, <3>2, FS_CardinalityType
  <2>10. Cardinality(N) * b = Cardinality(P) * b + b /\ Cardinality(P) * b \in Nat
    BY <2>9
  <2>11. (\A r \in N : h[r] <= b) =>
           SumFunctionOnSet(h, P) <= Cardinality(P) * b /\ h[s] <= b
    BY <2>3, <2>5
  <2>12. (\A r \in N : b <= h[r]) =>
           Cardinality(P) * b <= SumFunctionOnSet(h, P) /\ b <= h[s]
    BY <2>3, <2>5
  <2> DEFINE cp == Cardinality(P) * b
             cn == Cardinality(N) * b
  <2>13. cn = cp + b /\ cp \in Nat
    BY <2>10
  <2>14. (\A r \in N : h[r] <= b) => SumFunctionOnSet(h, P) <= cp /\ h[s] <= b
    BY <2>11
  <2>15. (\A r \in N : b <= h[r]) => cp <= SumFunctionOnSet(h, P) /\ b <= h[s]
    BY <2>12
  <2>16. ~ (/\ (\A r \in N : h[r] <= b) => SumFunctionOnSet(h, N) <= cn
            /\ (\A r \in N : b <= h[r]) => cn <= SumFunctionOnSet(h, N))
    BY <2>5
  <2> HIDE DEF P, cp, cn
  <2> QED
    BY <2>7, <2>8, <2>13, <2>14, <2>15, <2>16
<1>2. M \notin Bad
  BY <1>1
<1> QED
  BY <1>2

-----------------------------------------------------------------------------
(* Graham's argument for one step of the greedy placement of units U of    *)
(* weights w on machines M.                                                *)

(* Some assignment of all the units loads no machine by more than b.       *)
Assignment(f, b, w, U, M) ==
  /\ f \in [U -> M]
  /\ \A s \in M : SumFunctionOnSet(w, {k \in U : f[k] = s}) <= b

(* So far each machine s holds the units on[s], of weight held[s].         *)
Holding(on, held, w, U, M) ==
  /\ \A s \in M : on[s] \subseteq U /\ held[s] = SumFunctionOnSet(w, on[s])
  /\ \A s, t \in M : s # t => on[s] \intersect on[t] = {}

(* Unit j comes next: it is on no machine, no unit placed before weighs    *)
(* less, and it goes to a machine r that no other is lighter than.         *)
ComesNext(j, r, on, held, w, U, M) ==
  /\ j \in U /\ r \in M
  /\ \A s \in M : held[r] <= held[s]
  /\ \A s \in M : \A k \in on[s] : k # j /\ w[j] <= w[k]

(* All the units fit in M machines of size b.                              *)
LEMMA TotalFits ==
  ASSUME NEW M, IsFiniteSet(M), NEW U, NEW w, Weighs(w, U), NEW b \in Nat,
         NEW f, Assignment(f, b, w, U, M), NEW Q, Q \subseteq U
  PROVE  SumFunctionOnSet(w, Q) <= Cardinality(M) * b
<1> DEFINE part == [s \in M |-> {k \in U : f[k] = s}]
           h    == [s \in M |-> SumFunctionOnSet(w, part[s])]
<1>1. /\ \A s \in M : part[s] \subseteq U /\ h[s] = SumFunctionOnSet(w, part[s])
      /\ \A s, t \in M : s # t => part[s] \intersect part[t] = {}
  OBVIOUS
<1>2. UNION {part[s] : s \in M} = U
  BY DEF Assignment
<1>3. \A s \in M : h[s] <= b
  BY DEF Assignment
<1> HIDE DEF part, h
<1>4. Weighs(h, M) /\ SumFunctionOnSet(h, M) = SumFunctionOnSet(w, U)
  BY <1>1, <1>2, SumOfParts
<1>5. SumFunctionOnSet(h, M) <= Cardinality(M) * b
  BY <1>3, <1>4, SumBounds
<1>6. SumFunctionOnSet(w, Q) <= SumFunctionOnSet(w, U)
  BY SumPart
<1>7. /\ SumFunctionOnSet(w, Q) \in Nat /\ SumFunctionOnSet(w, U) \in Nat
      /\ Cardinality(M) * b \in Nat
  <2>1. Cardinality(M) \in Nat
    BY FS_CardinalityType
  <2>2. Weighs(w, Q)
    BY WeighsPart
  <2> QED
    BY <2>1, <2>2, SumType
<1> QED
  BY <1>4, <1>5, <1>6, <1>7

(* A light unit: the lightest machine is no heavier than the average one,  *)
(* and what is placed still fits the optimum together with this unit.      *)
LEMMA LightUnit ==
  ASSUME NEW M, IsFiniteSet(M), NEW U, NEW w, Weighs(w, U), NEW b \in Nat,
         NEW f, Assignment(f, b, w, U, M),
         NEW on, NEW held, Holding(on, held, w, U, M),
         NEW j, NEW r, ComesNext(j, r, on, held, w, U, M)
  PROVE  /\ held[r] \in Nat /\ w[j] \in Nat
         /\ Cardinality(M) * held[r] + w[j] <= Cardinality(M) * b
<1> DEFINE P == UNION {on[s] : s \in M}
<1>1. P \subseteq U /\ j \notin P /\ j \in U
  BY DEF Holding, ComesNext
<1>2. Weighs(w, P) /\ w[j] \in Nat
  BY <1>1, WeighsPart DEF Weighs
<1>3. held[r] \in Nat
  <2>1. on[r] \subseteq U /\ held[r] = SumFunctionOnSet(w, on[r])
    BY DEF Holding, ComesNext
  <2>2. Weighs(w, on[r])
    BY <2>1, WeighsPart
  <2> QED
    BY <2>1, <2>2, SumType
<1>4. Cardinality(M) * held[r] <= SumFunctionOnSet(w, P)
  <2> DEFINE a == held[r]
  <2>1. a \in Nat /\ \A s \in M : a <= held[s]
    BY <1>3 DEF ComesNext
  <2> HIDE DEF a
  <2>2. Weighs(held, M) /\ SumFunctionOnSet(held, M) = SumFunctionOnSet(w, P)
    BY SumOfParts DEF Holding
  <2>3. Cardinality(M) * a <= SumFunctionOnSet(held, M)
    BY <2>1, <2>2, SumBounds
  <2> QED
    BY <2>2, <2>3 DEF a
<1> HIDE DEF P
<1>5. SumFunctionOnSet(w, P \union {j}) = w[j] + SumFunctionOnSet(w, P)
  BY <1>1, <1>2, SumAdd
<1>6. SumFunctionOnSet(w, P \union {j}) <= Cardinality(M) * b
  <2>1. P \union {j} \subseteq U
    BY <1>1
  <2> QED
    BY <2>1, TotalFits
<1>7. /\ SumFunctionOnSet(w, P) \in Nat
      /\ Cardinality(M) * b \in Nat /\ Cardinality(M) * held[r] \in Nat
  BY <1>2, <1>3, SumType, FS_CardinalityType
<1> QED
  BY <1>2, <1>3, <1>4, <1>5, <1>6, <1>7

(* A heavy unit, of more than a third of the optimum, still fits into the  *)
(* lightest machine.  Otherwise give two tokens to each unit that does not *)
(* fit with the new one, and one to the others: each machine already holds *)
(* two, but no machine can hold more than two in any optimal assignment.   *)
LEMMA HeavyUnit ==
  ASSUME NEW M, IsFiniteSet(M), NEW U, NEW w, Weighs(w, U), NEW b \in Nat,
         NEW f, Assignment(f, b, w, U, M),
         NEW on, NEW held, Holding(on, held, w, U, M),
         NEW j, NEW r, ComesNext(j, r, on, held, w, U, M),
         3 * w[j] > b
  PROVE  held[r] + w[j] <= b
<1> DEFINE v == w[j]
           l == held[r]
           P == UNION {on[s] : s \in M}
           Q == P \union {j}
           token == [k \in U |-> IF w[k] + v > b THEN 2 ELSE 1]
<1>1. P \subseteq U /\ j \notin P /\ j \in U /\ Q \subseteq U /\ IsFiniteSet(U)
  BY DEF Holding, ComesNext, Weighs
<1>2. l \in Nat /\ v \in Nat
  BY LightUnit
<1>3. \A k \in U : w[k] \in Nat /\ token[k] \in Nat /\ token[k] \in {1, 2}
  BY DEF Weighs
<1>4. Weighs(token, U)
  BY <1>1, <1>3 DEF Weighs
<1>5. \A k \in Q : v <= w[k] /\ w[k] \in Nat
  BY <1>1, <1>2, <1>3 DEF ComesNext
<1>6. \A k \in U : token[k] = IF w[k] + v > b THEN 2 ELSE 1
  OBVIOUS
<1> HIDE DEF v, l, token
<1> SUFFICES ASSUME l + v > b PROVE FALSE
  BY <1>2 DEF l, v
<1>7. v <= b
  <2> DEFINE F == {k \in U : f[k] = f[j]}
  <2>1. j \in F /\ F \subseteq U
    BY <1>1
  <2>2. SumFunctionOnSet(w, F) <= b
    BY <1>1 DEF Assignment
  <2> HIDE DEF F
  <2>3. Weighs(w, F)
    BY <2>1, WeighsPart
  <2>4. w[j] <= SumFunctionOnSet(w, F) /\ SumFunctionOnSet(w, F) \in Nat
    BY <2>1, <2>3, SumTerms, SumType
  <2> QED
    BY <1>2, <2>2, <2>4 DEF v
<1>8. ASSUME NEW A, A \subseteq Q, SumFunctionOnSet(w, A) <= b
      PROVE  SumFunctionOnSet(token, A) <= 2
  <2>1. A \subseteq U /\ Weighs(w, A) /\ Weighs(token, A)
    BY <1>1, <1>4, <1>8, WeighsPart
  <2>2. SumFunctionOnSet(w, A) \in Nat
    BY <2>1, SumType
  <2>3. CASE A = {}
    BY <2>3, SumEmpty
  <2>4. CASE A # {}
    <3>1. PICK x \in A : TRUE
      BY <2>4
    <3>2. SumFunctionOnSet(token, A) = token[x] + SumFunctionOnSet(token, A \ {x})
      BY <2>1, <3>1, SumRemove
    <3>3. CASE A \ {x} = {}
      <4>1. SumFunctionOnSet(token, A \ {x}) = 0
        BY <3>3, SumEmpty
      <4> QED
        BY <1>3, <2>1, <3>1, <3>2, <4>1
    <3>4. CASE A \ {x} # {}
      <4>1. PICK y \in A : y # x
        BY <3>4
      <4>2. w[x] + w[y] <= SumFunctionOnSet(w, A)
        BY <2>1, <3>1, <4>1, SumTerms
      <4>3. /\ v <= w[x] /\ w[x] \in Nat
            /\ v <= w[y] /\ w[y] \in Nat
        BY <1>5, <1>8, <3>1, <4>1
      <4>4. token[x] = 1 /\ token[y] = 1
        BY <1>2, <1>6, <1>8, <2>1, <2>2, <3>1, <4>1, <4>2, <4>3
      <4>5. (A \ {x}) \ {y} = {}
        <5> SUFFICES ASSUME NEW z \in (A \ {x}) \ {y} PROVE FALSE
          OBVIOUS
        <5>1. z \in A /\ z # x /\ z # y
          OBVIOUS
        <5>2. w[x] + w[y] + w[z] <= SumFunctionOnSet(w, A)
          BY <2>1, <3>1, <4>1, <5>1, SumTerms
        <5>3. v <= w[z] /\ w[z] \in Nat
          BY <1>5, <1>8, <5>1
        <5>4. 3 * v > b
          BY DEF v
        <5> QED
          BY <1>2, <1>8, <2>2, <4>3, <5>2, <5>3, <5>4
      <4>6. SumFunctionOnSet(token, A \ {x})
              = token[y] + SumFunctionOnSet(token, (A \ {x}) \ {y})
        <5>1. Weighs(token, A \ {x}) /\ y \in A \ {x}
          BY <2>1, <4>1, WeighsPart
        <5> QED
          BY <5>1, SumRemove
      <4>7. SumFunctionOnSet(token, (A \ {x}) \ {y}) = 0
        BY <4>5, SumEmpty
      <4> QED
        BY <3>2, <4>4, <4>6, <4>7
    <3> QED
      BY <3>3, <3>4
  <2> QED
    BY <2>3, <2>4
<1>9. SumFunctionOnSet(token, Q) <= Cardinality(M) * 2
  <2> DEFINE part == [s \in M |-> {k \in Q : f[k] = s}]
             h    == [s \in M |-> SumFunctionOnSet(token, part[s])]
  <2>1. /\ \A s \in M : part[s] \subseteq U /\ h[s] = SumFunctionOnSet(token, part[s])
        /\ \A s, t \in M : s # t => part[s] \intersect part[t] = {}
    BY <1>1
  <2>2. UNION {part[s] : s \in M} = Q
    BY <1>1 DEF Assignment
  <2>3. ASSUME NEW s \in M PROVE h[s] <= 2
    <3> DEFINE F == {k \in U : f[k] = s}
               A == part[s]
    <3>1. A \subseteq F /\ F \subseteq U /\ A \subseteq Q
      BY <1>1
    <3>2. SumFunctionOnSet(w, F) <= b
      BY DEF Assignment
    <3>3. h[s] = SumFunctionOnSet(token, A)
      OBVIOUS
    <3> HIDE DEF F, A, part, h
    <3>4. Weighs(w, F) /\ Weighs(w, A)
      BY <3>1, WeighsPart
    <3>5. SumFunctionOnSet(w, A) <= SumFunctionOnSet(w, F)
      BY <3>1, <3>4, SumPart
    <3>6. SumFunctionOnSet(w, A) \in Nat /\ SumFunctionOnSet(w, F) \in Nat
      BY <3>4, SumType
    <3>7. SumFunctionOnSet(w, A) <= b
      BY <3>2, <3>5, <3>6
    <3> QED
      BY <1>8, <3>1, <3>3, <3>7
  <2> HIDE DEF part, h, P, Q
  <2>4. Weighs(h, M) /\ SumFunctionOnSet(h, M) = SumFunctionOnSet(token, Q)
    BY <1>4, <2>1, <2>2, SumOfParts
  <2> QED
    BY <2>3, <2>4, SumBounds
<1>10. ASSUME NEW s \in M PROVE 2 <= SumFunctionOnSet(token, on[s])
  <2> DEFINE A == on[s]
  <2>1. A \subseteq P /\ A \subseteq U
    BY <1>1
  <2>2. held[s] = SumFunctionOnSet(w, A) /\ l <= held[s]
    BY DEF Holding, ComesNext, l
  <2> HIDE DEF A
  <2>3. Weighs(w, A) /\ Weighs(token, A)
    BY <1>4, <2>1, WeighsPart
  <2>4. A # {}
    <3>1. A = {} => held[s] = 0
      BY <2>2, SumEmpty
    <3> QED
      BY <1>2, <1>7, <2>2, <3>1
  <2>5. PICK x \in A : TRUE
    BY <2>4
  <2>6. CASE A \ {x} = {}
    <3>1. /\ SumFunctionOnSet(w, A) = w[x] + SumFunctionOnSet(w, A \ {x})
          /\ SumFunctionOnSet(token, A) = token[x] + SumFunctionOnSet(token, A \ {x})
      BY <2>3, <2>5, SumRemove
    <3>2. SumFunctionOnSet(w, A \ {x}) = 0 /\ SumFunctionOnSet(token, A \ {x}) = 0
      BY <2>6, SumEmpty
    <3>3. w[x] \in Nat /\ x \in U
      BY <1>3, <2>1, <2>5
    <3>4. l <= w[x]
      BY <2>2, <3>1, <3>2, <3>3
    <3>5. token[x] = 2
      BY <1>2, <1>6, <3>3, <3>4
    <3> QED
      BY <3>1, <3>2, <3>5 DEF A
  <2>7. CASE A \ {x} # {}
    <3>1. PICK y \in A : y # x
      BY <2>7
    <3>2. token[x] + token[y] <= SumFunctionOnSet(token, A)
      BY <2>3, <2>5, <3>1, SumTerms
    <3>3. token[x] \in {1, 2} /\ token[y] \in {1, 2}
      BY <1>3, <2>1, <2>5, <3>1
    <3>4. SumFunctionOnSet(token, A) \in Nat
      BY <2>3, SumType
    <3> QED
      BY <3>2, <3>3, <3>4 DEF A
  <2> QED
    BY <2>6, <2>7
<1>11. Cardinality(M) * 2 <= SumFunctionOnSet(token, P)
  <2> DEFINE h == [s \in M |-> SumFunctionOnSet(token, on[s])]
  <2>1. /\ \A s \in M : on[s] \subseteq U /\ h[s] = SumFunctionOnSet(token, on[s])
        /\ \A s, t \in M : s # t => on[s] \intersect on[t] = {}
        /\ \A s \in M : 2 <= h[s]
    BY <1>10 DEF Holding
  <2> HIDE DEF h
  <2>2. Weighs(h, M) /\ SumFunctionOnSet(h, M) = SumFunctionOnSet(token, P)
    BY <1>4, <2>1, SumOfParts
  <2> QED
    BY <2>1, <2>2, SumBounds
<1>12. SumFunctionOnSet(token, Q) = token[j] + SumFunctionOnSet(token, P)
  <2> HIDE DEF P
  <2>1. Weighs(token, P)
    BY <1>1, <1>4, WeighsPart
  <2> QED
    BY <1>1, <1>3, <2>1, SumAdd
<1>13. SumFunctionOnSet(token, P) \in Nat /\ token[j] \in {1, 2}
  BY <1>1, <1>3, <1>4, SumType, WeighsPart
<1>14. Cardinality(M) * 2 \in Nat
  BY FS_CardinalityType
<1> HIDE DEF P, Q
<1> QED
  BY <1>9, <1>11, <1>12, <1>13, <1>14

(* Either way the unit leaves its machine within the bound.                *)
LEMMA GrahamStep ==
  ASSUME NEW M, IsFiniteSet(M), NEW U, NEW w, Weighs(w, U), NEW b \in Nat,
         NEW f, Assignment(f, b, w, U, M),
         NEW on, NEW held, Holding(on, held, w, U, M),
         NEW j, NEW r, ComesNext(j, r, on, held, w, U, M)
  PROVE  3 * Cardinality(M) * (held[r] + w[j]) <= (4 * Cardinality(M) - 1) * b
<1> DEFINE m == Cardinality(M)
           v == w[j]
           l == held[r]
<1>1. m \in Nat /\ m >= 1 /\ l \in Nat /\ v \in Nat
  <2>1. m \in Nat /\ l \in Nat /\ v \in Nat
    BY LightUnit, FS_CardinalityType
  <2>2. M # {}
    BY DEF ComesNext
  <2>3. m # 0
    BY <2>2, FS_EmptySet
  <2> QED
    BY <2>1, <2>3
<1>2. m * l + v <= m * b
  BY LightUnit
<1>3. 3 * v > b => l + v <= b
  BY HeavyUnit
<1> HIDE DEF m, v, l
<1> DEFINE n == m - 1
           ml == m * l
           mb == m * b
           mv == m * v
           nb == n * b
           nv == n * v
<1>4. /\ n \in Nat /\ ml \in Nat /\ mb \in Nat /\ mv \in Nat /\ nb \in Nat /\ nv \in Nat
      /\ mb = nb + b /\ mv = nv + v
  BY <1>1
<1>5. 3 * m * (l + v) = 3 * ml + 3 * mv /\ (4 * m - 1) * b = 3 * mb + nb
  BY <1>1
<1>6. CASE 3 * v <= b
  <2> DEFINE d == b - 3 * v
  <2>1. d \in Nat /\ n * d \in Nat
    BY <1>1, <1>4, <1>6
  <2>2. n * d = nb - 3 * nv
    BY <1>1, <1>4
  <2>3. 3 * nv <= nb
    <3> HIDE DEF nb, nv, d
    <3> QED
      BY <1>4, <2>1, <2>2
  <2>4. ml + v <= mb
    BY <1>2
  <2> HIDE DEF ml, mb, mv, nb, nv, n
  <2>5. 3 * ml + 3 * mv <= 3 * mb + nb
    BY <1>1, <1>4, <2>3, <2>4
  <2> QED
    BY <1>5, <2>5 DEF m, v, l
<1>7. CASE 3 * v > b
  <2> DEFINE d == b - (l + v)
  <2>1. d \in Nat /\ m * d \in Nat
    BY <1>1, <1>3, <1>7
  <2>2. m * d = mb - (ml + mv)
    BY <1>1
  <2>3. ml + mv <= mb
    <3> HIDE DEF mb, ml, mv, d
    <3> QED
      BY <1>4, <2>1, <2>2
  <2> HIDE DEF ml, mb, mv, nb, nv, n
  <2>4. 3 * ml + 3 * mv <= 3 * mb + nb
    BY <1>4, <2>3
  <2> QED
    BY <1>5, <2>4 DEF m, v, l
<1> QED
  BY <1>1, <1>6, <1>7

-----------------------------------------------------------------------------
(* The greedy placement is an instance of Graham's argument.               *)

OnShard == [s \in Available |-> {KeyOf(c) : c \in shards[s]}]

(* make_plan goes on only with shards for the units.                       *)
Enough == Planning => ~ NotEnoughShards

(* No check is in a unit before its turn.                                  *)
Unvisited ==
  /\ pc \in {"resolve", "reserve"} => \A k \in Key : units[k] = {}
  /\ pc = "group" => \A k \in Key : units[k] \intersect todo = {}

(* The weight of a unit is the sum of the weights of its checks: of those  *)
(* grouped so far, and, when units are placed, of all of them.             *)
Weighed ==
  /\ ~ Placing => \A k \in Key : weight[k] = SumFunctionOnSet(Weights, units[k])
  /\ Placing => \A k \in UnitKeys : weight[k] = UnitWeight[k]

(* The load of a shard is the sum of the weights of the units on it.       *)
Carried == \A s \in Available : load[s] = SumFunctionOnSet(UnitWeight, OnShard[s])

(* No unit that waits is heavier than one that has been placed.            *)
Descending ==
  \A s \in Available, k \in Pending : \A j \in OnShard[s] : weight[k] <= weight[j]

GrahamBound ==
  \A s \in Available :
    3 * Cardinality(Available) * load[s] <= (4 * Cardinality(Available) - 1) * Optimum

QualityInv ==
  Enough /\ Unvisited /\ Weighed /\ Carried /\ Descending /\ GrahamBound

(* Checks and units are finite in number and weigh a natural number each.  *)
LEMMA WeightsWeigh ==
  ASSUME TypeOK
  PROVE  /\ Weighs(Weights, Check) /\ Weighs(UnitWeight, UnitKeys)
         /\ UnitKeys \subseteq Key
         /\ IsFiniteSet(Available) /\ Cardinality(Available) \in Nat
<1>1. Rest \subseteq Check /\ IsFiniteSet(Rest)
  BY InventoryAssumption, FS_Subset DEF Rest
<1>2. Weighs(Weights, Check)
  BY InventoryAssumption, WeightType DEF Weighs, Weights
<1>3. IsFiniteSet(UnitKeys)
  <2> DEFINE g == [c \in Rest |-> KeyOf(c)]
  <2>1. g \in Surjection(Rest, UnitKeys)
    BY DEF Surjection, UnitKeys
  <2> HIDE DEF g
  <2> QED
    BY <1>1, <2>1, FS_Surjection
<1>4. \A k \in UnitKeys : UnitWeight[k] \in Nat
  <2> TAKE k \in UnitKeys
  <2> DEFINE C == {c \in Rest : KeyOf(c) = k}
  <2>1. UnitWeight[k] = SumFunctionOnSet(Weights, C) /\ C \subseteq Check
    BY <1>1 DEF UnitWeight
  <2> HIDE DEF C
  <2>2. Weighs(Weights, C)
    BY <1>2, <2>1, WeighsPart
  <2> QED
    BY <2>1, <2>2, SumType
<1>5. UnitKeys \subseteq Key
  BY <1>1, KeyType DEF UnitKeys
<1>6. IsFiniteSet(Available) /\ Cardinality(Available) \in Nat
  <2>1. 1 \in Int /\ MaxShards \in Int
    BY Counts
  <2>2. IsFiniteSet(Slot)
    BY <2>1, FS_Interval DEF Slot
  <2> QED
    BY <2>2, Counts, FS_Subset, FS_CardinalityType
<1> QED
  BY <1>2, <1>3, <1>4, <1>5, <1>6 DEF Weighs

(* Some assignment of the units attains the optimum.                       *)
LEMMA OptimumAttained ==
  ASSUME TypeOK, Available # {}
  PROVE  /\ Optimum \in Nat
         /\ \E f : Assignment(f, Optimum, UnitWeight, UnitKeys, Available)
<1> DEFINE Sum(f, s) == SumFunctionOnSet(UnitWeight, {k \in UnitKeys : f[k] = s})
           Total     == SumFunctionOnSet(UnitWeight, UnitKeys)
           Spans     == {Makespan(f) : f \in [UnitKeys -> Available]}
<1>1. ASSUME NEW f PROVE Makespan(f) \in Nat /\ \A s \in Available : Sum(f, s) <= Makespan(f)
  <2> DEFINE Loads == {Sum(f, s) : s \in Available}
  <2>1. ASSUME NEW s \in Available PROVE Sum(f, s) \in 0 .. Total
    <3> DEFINE A == {k \in UnitKeys : f[k] = s}
    <3>1. A \subseteq UnitKeys
      OBVIOUS
    <3> HIDE DEF A
    <3>2. Weighs(UnitWeight, A)
      BY <3>1, WeightsWeigh, WeighsPart
    <3>3. SumFunctionOnSet(UnitWeight, A) <= Total
      BY <3>1, WeightsWeigh, SumPart
    <3>4. SumFunctionOnSet(UnitWeight, A) \in Nat /\ Total \in Nat
      BY <3>2, WeightsWeigh, SumType
    <3> QED
      BY <3>3, <3>4 DEF A
  <2>2. Total \in Nat
    BY WeightsWeigh, SumType
  <2>3. Loads \in SUBSET (0 .. Total) /\ Loads # {}
    BY <2>1
  <2>4. Makespan(f) = Max(Loads)
    BY DEF Makespan
  <2> HIDE DEF Loads, Total
  <2>5. PICK x \in Loads : \A y \in Loads : y <= x
    BY <2>2, <2>3, NatGreatest
  <2>6. \A y \in Loads : x >= y
    BY <2>2, <2>3, <2>5
  <2>7. Max(Loads) \in Loads /\ \A y \in Loads : Max(Loads) >= y
    BY <2>6 DEF Max
  <2>8. Max(Loads) \in Nat /\ \A y \in Loads : y <= Max(Loads)
    <3> DEFINE top == Max(Loads)
    <3>1. top \in Loads /\ \A y \in Loads : top >= y
      BY <2>7
    <3> HIDE DEF top
    <3>2. \A y \in Loads : y \in Nat
      BY <2>2, <2>3
    <3> QED
      BY <3>1, <3>2 DEF top
  <2> QED
    BY <2>4, <2>8 DEF Loads
<1>2. Spans \subseteq Nat
  BY <1>1
<1>3. Spans # {}
  <2>1. PICK s \in Available : TRUE
    OBVIOUS
  <2>2. [k \in UnitKeys |-> s] \in [UnitKeys -> Available]
    OBVIOUS
  <2> QED
    BY <2>2
<1>4. Optimum = Min(Spans)
  BY DEF Optimum
<1>5. Min(Spans) \in Spans
  <2> HIDE DEF Spans
  <2>1. PICK x \in Spans : \A y \in Spans : x <= y
    BY <1>2, <1>3, NatLeast
  <2> QED
    BY <2>1 DEF Min
<1>6. PICK f \in [UnitKeys -> Available] : Optimum = Makespan(f)
  BY <1>4, <1>5
<1>7. Assignment(f, Optimum, UnitWeight, UnitKeys, Available)
  BY <1>1, <1>6 DEF Assignment
<1> QED
  BY <1>1, <1>6, <1>7

(* The reference values depend on the configuration only.                  *)
LEMMA FixedQuality ==
  ASSUME [Next]_vars
  PROVE  /\ UnitKeys' = UnitKeys /\ Weights' = Weights /\ UnitWeight' = UnitWeight
         /\ Available' = Available /\ Optimum' = Optimum
         /\ NotEnoughShards' = NotEnoughShards
<1>1. /\ input' = input /\ Rest' = Rest /\ Available' = Available /\ Isolated' = Isolated
      /\ \A c : KeyOf(c)' = KeyOf(c) /\ Weight(c)' = Weight(c)
  BY Fixed
<1>2. UnitKeys' = UnitKeys /\ Weights' = Weights
  BY <1>1 DEF UnitKeys, Weights
<1>3. UnitWeight' = UnitWeight
  BY <1>1, <1>2 DEF UnitWeight
<1>4. \A f : Makespan(f)' = Makespan(f)
  BY <1>1, <1>2, <1>3 DEF Makespan
<1>5. Optimum' = Optimum
  BY <1>1, <1>2, <1>4 DEF Optimum
<1>6. NotEnoughShards' = NotEnoughShards
  BY <1>1 DEF NotEnoughShards
<1> QED
  BY <1>1, <1>2, <1>3, <1>5, <1>6

-----------------------------------------------------------------------------
(* An empty shard is within the bound.                                     *)
LEMMA NoLoad ==
  ASSUME TypeOK, NEW s \in Available, load[s] = 0
  PROVE  3 * Cardinality(Available) * load[s] <= (4 * Cardinality(Available) - 1) * Optimum
<1> DEFINE m == Cardinality(Available)
<1>1. m \in Nat /\ Optimum \in Nat
  BY WeightsWeigh, OptimumAttained
<1>2. m # 0
  BY WeightsWeigh, FS_EmptySet
<1> HIDE DEF m
<1>3. 4 * m - 1 \in Nat /\ 3 * m \in Nat
  BY <1>1, <1>2
<1>4. (4 * m - 1) * Optimum \in Nat /\ 3 * m * load[s] = 0
  BY <1>1, <1>3
<1> QED
  BY <1>4 DEF m

LEMMA QualityInitially == ASSUME Init PROVE QualityInv
<1>1. TypeOK
  BY Initially DEF IInv
<1>2. Enough /\ Unvisited
  BY DEF Init, Enough, Unvisited, Planning
<1>3. Weighed
  BY SumEmpty DEF Init, Weighed, Placing
<1>4. \A s \in Available : load[s] = 0 /\ OnShard[s] = {}
  <2>1. Available \subseteq Slot
    BY <1>1, Counts
  <2> QED
    BY <2>1 DEF Init, OnShard
<1>5. Carried /\ Descending
  BY <1>4, SumEmpty DEF Carried, Descending
<1>6. GrahamBound
  BY <1>1, <1>4, NoLoad DEF GrahamBound
<1> QED
  BY <1>2, <1>3, <1>5, <1>6 DEF QualityInv

(* While no unit has been placed, no shard for units has any.              *)
LEMMA NothingPlaced ==
  ASSUME IInv, ~ Placing
  PROVE  \A s \in Available : load[s] = 0 /\ shards[s] = {} /\ OnShard[s] = {}
<1>1. \A s \in Available : s \in Slot /\ s > Cardinality(Isolated)
  BY Counts DEF IInv, Available, Slot
<1>2. \A s \in Available : load[s] = 0 /\ shards[s] = {}
  BY <1>1 DEF IInv, Idle
<1> QED
  BY <1>2 DEF OnShard

(* Until then every part that speaks of shards holds.                      *)
LEMMA QualityOfNothing ==
  ASSUME IInv, QualityInv, [Next]_vars, IInv', ~ Placing, ~ Placing'
  PROVE  Carried' /\ Descending' /\ GrahamBound'
<1>1. /\ UnitWeight' = UnitWeight /\ Available' = Available /\ Optimum' = Optimum
      /\ Isolated' = Isolated
  BY FixedQuality, Fixed
<1>2. \A s \in Available : s \in Slot /\ s > Cardinality(Isolated)
  BY Counts DEF IInv, Available, Slot
<1>3. \A s \in Available : load'[s] = 0 /\ shards'[s] = {}
  BY <1>1, <1>2 DEF IInv, Idle
<1>4. \A s \in Available : OnShard'[s] = {}
  BY <1>1, <1>3 DEF OnShard
<1>5. Carried'
  BY <1>1, <1>3, <1>4, SumEmpty DEF Carried
<1>6. Descending'
  BY <1>1, <1>4 DEF Descending
<1>7. GrahamBound'
  BY <1>1, <1>3, NothingPlaced DEF QualityInv, GrahamBound
<1> QED
  BY <1>5, <1>6, <1>7

(* Steps that move no check and no weight.                                 *)
LEMMA QuietQuality ==
  ASSUME IInv, QualityInv, [Next]_vars, UNCHANGED <<units, weight, shards, load>>,
         Enough', Unvisited', Placing' <=> Placing
  PROVE  QualityInv'
<1>1. /\ UnitKeys' = UnitKeys /\ Weights' = Weights /\ UnitWeight' = UnitWeight
      /\ Available' = Available /\ Optimum' = Optimum
  BY FixedQuality
<1>2. OnShard' = OnShard /\ Pending' = Pending
  <2>1. \A c : KeyOf(c)' = KeyOf(c)
    BY Fixed
  <2> QED
    BY <1>1, <2>1 DEF OnShard, Pending
<1>3. Weighed'
  BY <1>1 DEF QualityInv, Weighed
<1>4. Carried' /\ Descending'
  BY <1>1, <1>2 DEF QualityInv, Carried, Descending
<1>5. GrahamBound'
  BY <1>1 DEF QualityInv, GrahamBound
<1> QED
  BY <1>3, <1>4, <1>5 DEF QualityInv

LEMMA ReserveQuality ==
  ASSUME IInv, QualityInv, Reserve, IInv' PROVE QualityInv'
<1>1. /\ Weights' = Weights /\ NotEnoughShards' = NotEnoughShards
      /\ pc = "reserve" /\ pc' = "reserve" /\ units' = units /\ weight' = weight
  BY FixedQuality DEF Next, Reserve
<1>2. Enough' /\ Unvisited'
  BY <1>1 DEF QualityInv, Enough, Unvisited, Planning
<1>3. ~ Placing /\ ~ Placing'
  BY <1>1 DEF Placing
<1>4. Weighed'
  BY <1>1, <1>3 DEF QualityInv, Weighed
<1>5. [Next]_vars
  BY DEF Next
<1> QED
  BY <1>2, <1>3, <1>4, <1>5, QualityOfNothing DEF QualityInv

LEMMA GroupCheckQuality ==
  ASSUME IInv, QualityInv, GroupCheck, IInv' PROVE QualityInv'
<1>1. /\ Weights' = Weights /\ NotEnoughShards' = NotEnoughShards
      /\ pc = "group" /\ pc' = "group"
  BY FixedQuality DEF Next, GroupCheck
<1>2. PICK c \in todo :
        /\ units' = [units EXCEPT ![KeyOf(c)] = @ \union {c}]
        /\ weight' = [weight EXCEPT ![KeyOf(c)] = @ + Weight(c)]
        /\ todo' = todo \ {c}
  BY DEF GroupCheck
<1>3. /\ units \in [Key -> SUBSET Check] /\ weight \in [Key -> Nat]
      /\ c \in Check /\ c \in todo /\ TypeOK
  BY <1>2 DEF IInv, TypeOK
<1> DEFINE k == KeyOf(c)
           S == units[k]
<1>4. k \in Key
  BY <1>3, KeyType
<1>5. c \notin S
  BY <1>1, <1>3, <1>4 DEF QualityInv, Unvisited
<1>6. /\ weight'[k] = weight[k] + Weight(c) /\ units'[k] = S \union {c}
      /\ \A j \in Key : j # k => weight'[j] = weight[j] /\ units'[j] = units[j]
  BY <1>2, <1>3, <1>4
<1>7. \A j \in Key : weight[j] = SumFunctionOnSet(Weights, units[j])
  BY <1>1 DEF QualityInv, Weighed, Placing
<1>8. Weights[c] = Weight(c) /\ Weights[c] \in Nat /\ S \subseteq Check
  BY <1>3, <1>4, WeightType DEF Weights
<1>13. Unvisited'
  BY <1>1, <1>2, <1>6 DEF QualityInv, Unvisited
<1> HIDE DEF k, S
<1>9. weight'[k] = SumFunctionOnSet(Weights, units'[k])
  <2>1. Weighs(Weights, S)
    BY <1>3, <1>8, WeightsWeigh, WeighsPart
  <2>2. SumFunctionOnSet(Weights, S \union {c}) = Weights[c] + SumFunctionOnSet(Weights, S)
    BY <1>5, <1>8, <2>1, SumAdd
  <2>3. weight[k] = SumFunctionOnSet(Weights, S) /\ SumFunctionOnSet(Weights, S) \in Nat
    BY <1>4, <1>7, <2>1, SumType DEF S
  <2> QED
    BY <1>6, <1>8, <2>2, <2>3
<1>10. Weighed'
  BY <1>1, <1>6, <1>7, <1>9 DEF Weighed, Placing
<1>11. Enough'
  BY <1>1 DEF QualityInv, Enough, Planning
<1>12. ~ Placing /\ ~ Placing' /\ [Next]_vars
  BY <1>1 DEF Placing, Next
<1> QED
  BY <1>10, <1>11, <1>12, <1>13, QualityOfNothing DEF QualityInv

(* When grouping ends, each unit holds all the checks of its key.          *)
LEMMA GroupEndsQuality ==
  ASSUME IInv, QualityInv, GroupEnds PROVE QualityInv'
<1>1. /\ UnitKeys' = UnitKeys /\ UnitWeight' = UnitWeight
      /\ Available' = Available /\ Optimum' = Optimum
      /\ NotEnoughShards' = NotEnoughShards
      /\ \A c : KeyOf(c)' = KeyOf(c)
  BY FixedQuality, Fixed DEF Next
<1>2. /\ pc = "group" /\ pc' = "place" /\ todo = {}
      /\ UNCHANGED <<units, weight, shards, load>>
  BY DEF GroupEnds
<1>3. ASSUME NEW k \in UnitKeys PROVE weight[k] = UnitWeight[k]
  <2>1. k \in Key
    BY WeightsWeigh DEF IInv
  <2>2. units[k] = {c \in Rest : KeyOf(c) = k}
    BY <1>2, <2>1 DEF IInv, RestFound, Keyed
  <2>3. weight[k] = SumFunctionOnSet(Weights, units[k])
    BY <1>2, <2>1 DEF QualityInv, Weighed, Placing
  <2> QED
    BY <2>2, <2>3 DEF UnitWeight
<1>4. Enough' /\ Unvisited' /\ Weighed'
  BY <1>1, <1>2, <1>3 DEF QualityInv, Enough, Unvisited, Weighed, Planning, Placing
<1>5. \A s \in Available : OnShard'[s] = OnShard[s] /\ OnShard[s] = {} /\ load[s] = 0
  BY <1>1, <1>2, NothingPlaced DEF OnShard, Placing
<1>6. Carried' /\ Descending' /\ GrahamBound'
  BY <1>1, <1>2, <1>5 DEF QualityInv, Carried, Descending, GrahamBound
<1> QED
  BY <1>4, <1>6 DEF QualityInv

(* The placed units lie apart on the shards.                               *)
LEMMA ShardsHold ==
  ASSUME IInv, QualityInv, Placing
  PROVE  /\ Holding(OnShard, load, UnitWeight, UnitKeys, Available)
         /\ \A k \in Pending : k \in UnitKeys /\ \A s \in Available : k \notin OnShard[s]
<1>1. \A s \in Available : s \in Slot /\ shards[s] \subseteq Rest
  <2>1. \A s \in Available : s \in Slot /\ s > Cardinality(Isolated)
    BY Counts DEF IInv, Available, Slot
  <2> QED
    BY <2>1 DEF IInv, Shared
<1>2. \A s \in Available : OnShard[s] \subseteq UnitKeys
  BY <1>1 DEF OnShard, UnitKeys
<1>3. ASSUME NEW s \in Available, NEW t \in Available, s # t
      PROVE  OnShard[s] \intersect OnShard[t] = {}
  <2> SUFFICES ASSUME NEW c \in shards[s], NEW d \in shards[t], KeyOf(c) = KeyOf(d)
               PROVE  FALSE
    BY DEF OnShard
  <2>1. c \in Rest /\ d \in Rest /\ s \in Slot /\ t \in Slot
    BY <1>1
  <2>2. d \in shards[s]
    BY <2>1 DEF IInv, Whole
  <2> QED
    BY <1>3, <2>1, <2>2 DEF IInv, Apart
<1>4. ASSUME NEW k \in Pending
      PROVE  k \in UnitKeys /\ \A s \in Available : k \notin OnShard[s]
  <2>1. k \in Key /\ units[k] # {}
    BY DEF Pending
  <2>2. PICK d \in units[k] : d \in Rest /\ KeyOf(d) = k
    BY <2>1 DEF IInv, Keyed
  <2>3. ASSUME NEW s \in Available, k \in OnShard[s] PROVE FALSE
    <3>1. PICK c \in shards[s] : KeyOf(c) = k
      BY <2>3 DEF OnShard
    <3>2. c \in Rest /\ s \in Slot
      BY <1>1, <3>1
    <3>3. c \in units[k]
      BY <2>1, <2>2, <3>1, <3>2 DEF IInv, Whole
    <3> QED
      BY <2>1, <3>1, <3>2, <3>3 DEF IInv, Apart
  <2> QED
    BY <2>2, <2>3 DEF UnitKeys
<1>5. \A s \in Available : load[s] = SumFunctionOnSet(UnitWeight, OnShard[s])
  BY DEF QualityInv, Carried
<1> QED
  BY <1>2, <1>3, <1>4, <1>5 DEF Holding

LEMMA PlaceQuality ==
  ASSUME IInv, QualityInv, Place PROVE QualityInv'
<1>1. /\ UnitKeys' = UnitKeys /\ UnitWeight' = UnitWeight
      /\ Available' = Available /\ Optimum' = Optimum
      /\ NotEnoughShards' = NotEnoughShards
      /\ \A c : KeyOf(c)' = KeyOf(c)
  BY FixedQuality, Fixed DEF Next
<1>2. pc = "place" /\ pc' = "place" /\ weight' = weight
  BY DEF Place
<1>3. PICK k \in Pending, s \in Available :
        /\ Heaviest(k) /\ Lightest(s)
        /\ shards' = [shards EXCEPT ![s] = shards[s] \union units[k]]
        /\ load' = [load EXCEPT ![s] = @ + weight[k]]
        /\ units' = [units EXCEPT ![k] = {}]
  BY DEF Place, Extended
<1>4. /\ units \in [Key -> SUBSET Check] /\ shards \in [Slot -> SUBSET Check]
      /\ load \in [Slot -> Nat] /\ weight \in [Key -> Nat]
      /\ Available \subseteq Slot /\ k \in Key
  BY <1>3, Counts DEF IInv, TypeOK, Pending
<1>5. /\ shards'[s] = shards[s] \union units[k] /\ load'[s] = load[s] + weight[k]
      /\ \A t \in Available : t # s => shards'[t] = shards[t] /\ load'[t] = load[t]
  BY <1>3, <1>4
<1>6. /\ Holding(OnShard, load, UnitWeight, UnitKeys, Available)
      /\ k \in UnitKeys /\ \A t \in Available : k \notin OnShard[t]
  BY <1>2, <1>3, ShardsHold DEF Placing
<1>7. \A j \in UnitKeys : weight[j] = UnitWeight[j] /\ j \in Key
  BY <1>2, WeightsWeigh DEF QualityInv, Weighed, Placing, IInv
<1>8. \A t \in Available : OnShard[t] \subseteq UnitKeys
  BY <1>6 DEF Holding
<1>9. /\ OnShard'[s] = OnShard[s] \union {k}
      /\ \A t \in Available : t # s => OnShard'[t] = OnShard[t]
  <2>1. units[k] # {} /\ \A c \in units[k] : KeyOf(c) = k
    BY <1>3, <1>4 DEF Pending, IInv, Keyed
  <2>2. \A t \in Available : OnShard'[t] = {KeyOf(c) : c \in shards'[t]}
    BY <1>1 DEF OnShard
  <2>3. {KeyOf(c) : c \in shards[s] \union units[k]} = {KeyOf(c) : c \in shards[s]} \union {k}
    BY <2>1
  <2> QED
    BY <1>5, <2>2, <2>3 DEF OnShard
<1>10. Pending' \subseteq Pending /\ \A j \in Pending : weight[j] <= weight[k]
  <2>1. Pending' \subseteq Pending
    BY <1>3, <1>4 DEF Pending
  <2>2. \A j \in Pending : j \in Key /\ (weight[j] < weight[k] \/ weight[j] = weight[k])
    BY <1>3 DEF Heaviest, Pending
  <2>3. \A j \in Key : weight[j] \in Nat
    BY <1>4
  <2> QED
    BY <1>4, <2>1, <2>2, <2>3
<1>11. Enough' /\ Unvisited' /\ Weighed'
  BY <1>1, <1>2 DEF QualityInv, Enough, Unvisited, Weighed, Planning, Placing
<1>12. Carried'
  <2>1. load'[s] = SumFunctionOnSet(UnitWeight, OnShard[s] \union {k})
    <3> DEFINE S == OnShard[s]
    <3>1. S \subseteq UnitKeys /\ k \notin S /\ UnitWeight[k] \in Nat /\ weight[k] = UnitWeight[k]
      BY <1>6, <1>7, <1>8, WeightsWeigh DEF IInv, Weighs
    <3>2. load[s] = SumFunctionOnSet(UnitWeight, S)
      BY DEF QualityInv, Carried
    <3> HIDE DEF S
    <3>3. Weighs(UnitWeight, S)
      BY <3>1, WeightsWeigh, WeighsPart DEF IInv
    <3>4. SumFunctionOnSet(UnitWeight, S \union {k}) = UnitWeight[k] + SumFunctionOnSet(UnitWeight, S)
      BY <3>1, <3>3, SumAdd
    <3>5. SumFunctionOnSet(UnitWeight, S) \in Nat
      BY <3>3, SumType
    <3> QED
      BY <1>5, <3>1, <3>2, <3>4, <3>5 DEF S
  <2>2. \A t \in Available : t # s => load'[t] = SumFunctionOnSet(UnitWeight, OnShard'[t])
    BY <1>5, <1>9 DEF QualityInv, Carried
  <2>3. load'[s] = SumFunctionOnSet(UnitWeight, OnShard'[s])
    BY <1>9, <2>1
  <2> QED
    BY <1>1, <2>2, <2>3 DEF Carried
<1>13. Descending'
  <2> SUFFICES ASSUME NEW t \in Available, NEW i \in Pending, NEW j \in OnShard'[t]
               PROVE  weight[i] <= weight[j]
    BY <1>1, <1>2, <1>10 DEF Descending
  <2>1. j \in OnShard[t] \/ j = k
    BY <1>9
  <2> QED
    BY <1>10, <2>1 DEF QualityInv, Descending
<1>14. ComesNext(k, s, OnShard, load, UnitWeight, UnitKeys, Available)
  <2>1. \A t \in Available : load[s] <= load[t]
    BY <1>3, <1>4 DEF Lightest
  <2>2. ASSUME NEW t \in Available, NEW j \in OnShard[t]
        PROVE  j # k /\ UnitWeight[k] <= UnitWeight[j]
    <3>1. j \in UnitKeys /\ weight[k] <= weight[j]
      BY <1>3, <1>8 DEF QualityInv, Descending
    <3> QED
      BY <1>6, <1>7, <3>1
  <2> QED
    BY <1>6, <2>1, <2>2 DEF ComesNext
<1>15. GrahamBound'
  <2>1. Available # {} /\ TypeOK
    BY <1>3 DEF IInv
  <2>2. Optimum \in Nat
    BY <2>1, OptimumAttained
  <2>3. PICK f : Assignment(f, Optimum, UnitWeight, UnitKeys, Available)
    BY <2>1, OptimumAttained
  <2>4. 3 * Cardinality(Available) * (load[s] + UnitWeight[k])
          <= (4 * Cardinality(Available) - 1) * Optimum
    BY <1>6, <1>14, <2>1, <2>2, <2>3, WeightsWeigh, GrahamStep
  <2>5. load'[s] = load[s] + UnitWeight[k]
    BY <1>5, <1>6, <1>7
  <2> QED
    BY <1>1, <1>5, <2>4, <2>5 DEF QualityInv, GrahamBound
<1> QED
  BY <1>11, <1>12, <1>13, <1>15 DEF QualityInv

LEMMA QualityStep == ASSUME IInv, QualityInv, [Next]_vars, IInv' PROVE QualityInv'
<1>1. NotEnoughShards' = NotEnoughShards /\ \A c : KeyOf(c)' = KeyOf(c)
  BY FixedQuality, Fixed
<1>2. CASE Resolve
  <2>1. UNCHANGED <<units, weight, shards, load>> /\ (Placing' <=> Placing)
    BY <1>2 DEF Resolve, Placing
  <2>2. Enough' /\ Unvisited'
    BY <1>1, <1>2 DEF Resolve, QualityInv, Enough, Unvisited, Planning
  <2> QED
    BY <2>1, <2>2, QuietQuality
<1>3. CASE Reserve
  BY <1>3, ReserveQuality
<1>4. CASE ReserveEnds
  <2>1. UNCHANGED <<units, weight, shards, load>> /\ (Placing' <=> Placing)
    BY <1>4 DEF ReserveEnds, Placing
  <2>2. Enough' /\ Unvisited'
    BY <1>1, <1>4 DEF ReserveEnds, QualityInv, Enough, Unvisited, Planning
  <2> QED
    BY <2>1, <2>2, QuietQuality
<1>5. CASE GroupCheck
  BY <1>5, GroupCheckQuality
<1>6. CASE GroupEnds
  BY <1>6, GroupEndsQuality
<1>7. CASE Place
  BY <1>7, PlaceQuality
<1>8. CASE Finish
  <2>1. UNCHANGED <<units, weight, shards, load>> /\ (Placing' <=> Placing)
    BY <1>8 DEF Finish, Placing
  <2>2. Enough' /\ Unvisited'
    BY <1>1, <1>8 DEF Finish, QualityInv, Enough, Unvisited, Planning
  <2> QED
    BY <2>1, <2>2, QuietQuality
<1>9. CASE UNCHANGED vars
  <2>1. UNCHANGED <<units, weight, shards, load>> /\ (Placing' <=> Placing)
    BY <1>9 DEF vars, Placing
  <2>2. Enough' /\ Unvisited'
    BY <1>1, <1>9 DEF vars, QualityInv, Enough, Unvisited, Planning
  <2> QED
    BY <2>1, <2>2, QuietQuality
<1> QED
  BY <1>2, <1>3, <1>4, <1>5, <1>6, <1>7, <1>8, <1>9 DEF Next, Returned

(* With checks that are not isolated there are shards for them.            *)
LEMMA SomeAvailable ==
  ASSUME TypeOK, ~ NotEnoughShards, Rest # {} PROVE Available # {}
<1>1. Cardinality(Isolated) < Cardinality(Check)
  <2>1. Isolated \in SUBSET Check /\ Isolated # Check
    BY DEF Isolated, Rest
  <2>2. Cardinality(Isolated) # Cardinality(Check)
    BY <2>1, InventoryAssumption, FS_Subset
  <2>3. Cardinality(Check) \in Nat
    BY InventoryAssumption, FS_CardinalityType
  <2> QED
    BY <2>2, <2>3, Counts
<1>2. Cardinality(Isolated) < input.count
  <2>1. input.count \in Nat
    BY ConfigurationAssumption DEF TypeOK, Configuration
  <2> QED
    BY <2>1, Counts DEF NotEnoughShards
<1>3. Cardinality(Isolated) + 1 <= Slots /\ Cardinality(Isolated) + 1 \in Nat
  BY <1>1, <1>2, Counts
<1>4. Cardinality(Isolated) + 1 \in Available
  BY <1>3, Counts DEF Available
<1> QED
  BY <1>4

(* The parts of QualityInv hold on top of those of IInv.                   *)
LEMMA QualityInvariance == Spec => [](IInv /\ QualityInv)
<1>1. Init => QualityInv
  BY QualityInitially
<1>2. IInv /\ QualityInv /\ [Next]_vars /\ IInv' => QualityInv'
  BY QualityStep
<1> QED
  BY <1>1, <1>2, Invariance, PTL DEF Spec

(* Longest processing time first: whatever the checks, the weights, the    *)
(* groups and the number m of shards for units, the slowest shard of the   *)
(* finished plan takes at most 4/3 - 1/(3m) times as long as the slowest   *)
(* shard of the best assignment.                                           *)
THEOREM GreedyWithinGraham == Spec => []WithinGrahamBound
<1>1. IInv /\ QualityInv => WithinGrahamBound
  <2> SUFFICES ASSUME IInv, QualityInv, pc = "done", Rest # {}
               PROVE  3 * Cardinality(Available) * Max({load[s] : s \in Available})
                        <= (4 * Cardinality(Available) - 1) * Optimum
    BY DEF WithinGrahamBound
  <2> DEFINE Loads == {load[s] : s \in Available}
  <2>1. Available # {}
    BY SomeAvailable DEF IInv, QualityInv, Enough, Planning
  <2>2. load \in [Slot -> Nat] /\ Available \subseteq Slot
    BY Counts DEF IInv, TypeOK
  <2>3. PICK s \in Available : \A t \in Available : load[t] <= load[s]
    <3> DEFINE Total == SumFunctionOnSet(UnitWeight, UnitKeys)
    <3>1. ASSUME NEW t \in Available PROVE load[t] \in 0 .. Total
      <4> DEFINE S == OnShard[t]
      <4>1. S \subseteq UnitKeys /\ load[t] = SumFunctionOnSet(UnitWeight, S)
        BY ShardsHold DEF Holding, Placing
      <4> HIDE DEF S
      <4>2. SumFunctionOnSet(UnitWeight, S) <= Total
        BY <4>1, WeightsWeigh, SumPart DEF IInv
      <4>3. Total \in Nat /\ load[t] \in Nat
        BY <2>2, WeightsWeigh, SumType DEF IInv
      <4> QED
        BY <4>1, <4>2, <4>3
    <3>2. Total \in Nat
      BY WeightsWeigh, SumType DEF IInv
    <3>3. Loads \in SUBSET (0 .. Total) /\ Loads # {}
      BY <2>1, <3>1
    <3> HIDE DEF Loads, Total
    <3>4. PICK x \in Loads : \A y \in Loads : y <= x
      BY <3>2, <3>3, NatGreatest
    <3> QED
      BY <3>4 DEF Loads
  <2>4. Max(Loads) = load[s]
    <3>1. load[s] \in Loads /\ \A y \in Loads : y \in Nat /\ y <= load[s]
      BY <2>2, <2>3
    <3> HIDE DEF Loads
    <3>2. \A y \in Loads : load[s] >= y
      BY <3>1
    <3>3. Max(Loads) \in Loads /\ Max(Loads) >= load[s]
      BY <3>1, <3>2 DEF Max
    <3> QED
      BY <3>1, <3>3
  <2> HIDE DEF Loads
  <2>5. 3 * Cardinality(Available) * load[s] <= (4 * Cardinality(Available) - 1) * Optimum
    BY DEF QualityInv, GrahamBound
  <2> QED
    BY <2>4, <2>5 DEF Loads
<1> QED
  BY <1>1, QualityInvariance, PTL

-----------------------------------------------------------------------------
(* make_plan terminates: it can always go on until it returns, and every   *)
(* step brings it closer to that.                                          *)

(* zip() leaves no isolated check without a shard, the loops find a next   *)
(* check, and max and min are never taken of nothing.                      *)
NeverStuck ==
  /\ pc = "reserve" /\ todo # {} => reserved < Slots
  /\ pc \in {"reserve", "group"} /\ todo # {} => \E c \in todo : IsLeast(c, todo)
  /\ pc = "place" /\ Pending # {} =>
       \E k \in Pending, s \in Available : Heaviest(k) /\ Lightest(s)

LEMMA PendingUnits ==
  ASSUME TypeOK, Keyed
  PROVE  /\ Pending \subseteq UnitKeys /\ IsFiniteSet(Pending)
         /\ Cardinality(Pending) \in Nat /\ Cardinality(Pending) <= Cardinality(Check)
<1>1. Pending \subseteq UnitKeys
  BY DEF Pending, Keyed, UnitKeys
<1>2. IsFiniteSet(UnitKeys)
  BY WeightsWeigh DEF Weighs
<1>3. /\ Cardinality(UnitKeys) <= Cardinality(Rest)
      /\ Cardinality(Rest) <= Cardinality(Check)
      /\ Cardinality(Rest) \in Nat /\ Cardinality(Check) \in Nat
  <2> DEFINE g == [c \in Rest |-> KeyOf(c)]
  <2>1. g \in Surjection(Rest, UnitKeys)
    BY DEF Surjection, UnitKeys
  <2>2. Rest \subseteq Check /\ IsFiniteSet(Rest)
    BY InventoryAssumption, FS_Subset DEF Rest
  <2> HIDE DEF g
  <2>3. Cardinality(UnitKeys) <= Cardinality(Rest)
    BY <2>1, <2>2, FS_Surjection
  <2> QED
    BY <2>2, <2>3, InventoryAssumption, FS_Subset, FS_CardinalityType
<1>4. /\ IsFiniteSet(Pending) /\ Cardinality(Pending) <= Cardinality(UnitKeys)
      /\ Cardinality(Pending) \in Nat /\ Cardinality(UnitKeys) \in Nat
  BY <1>1, <1>2, FS_Subset, FS_CardinalityType
<1> QED
  BY <1>1, <1>3, <1>4

(* Of units that wait one comes first: by weight, kind and name.           *)
LEMMA SomeHeaviest ==
  ASSUME IInv, QualityInv, pc = "place", Pending # {}
  PROVE  \E k \in Pending : Heaviest(k)
<1>1. \A k \in Pending : /\ k \in Key /\ weight[k] \in Nat
                         /\ k[1] \in Nat /\ k[2] \in Nat
  <2>1. \A k \in Key : k[1] \in Nat /\ k[2] \in Nat
    <3> SUFFICES ASSUME NEW k \in Key PROVE k[1] \in Nat /\ k[2] \in Nat
      OBVIOUS
    <3>1. ASSUME NEW g \in Group, k = <<0, g>> PROVE k[1] \in Nat /\ k[2] \in Nat
      <4>1. k[1] = 0 /\ k[2] = g
        BY <3>1
      <4> QED
        BY <4>1, ConfigurationAssumption
    <3>2. ASSUME NEW c \in Check, k = <<1, c>> PROVE k[1] \in Nat /\ k[2] \in Nat
      <4>1. k[1] = 1 /\ k[2] = c
        BY <3>2
      <4> QED
        BY <4>1, InventoryAssumption
    <3> QED
      BY <3>1, <3>2 DEF Key
  <2> QED
    BY <2>1 DEF IInv, TypeOK, Pending
<1>2. PICK k1 \in Pending : \A j \in Pending : weight[j] <= weight[k1]
  <2> DEFINE Total == SumFunctionOnSet(UnitWeight, UnitKeys)
             W     == {weight[k] : k \in Pending}
  <2>1. Total \in Nat
    BY WeightsWeigh, SumType DEF IInv
  <2>2. \A k \in Pending : weight[k] <= Total
    <3> TAKE k \in Pending
    <3>1. k \in UnitKeys
      BY PendingUnits DEF IInv
    <3>2. UnitWeight[k] <= Total
      BY <3>1, WeightsWeigh, SumTerms DEF IInv
    <3> QED
      BY <3>1, <3>2 DEF QualityInv, Weighed, Placing
  <2>3. W \in SUBSET (0 .. Total) /\ W # {}
    BY <1>1, <2>1, <2>2
  <2> HIDE DEF W, Total
  <2>4. PICK x \in W : \A y \in W : y <= x
    BY <2>1, <2>3, NatGreatest
  <2> QED
    BY <2>4 DEF W
<1> DEFINE A == {k \in Pending : weight[k] = weight[k1]}
           F == {k[1] : k \in A}
<1>3. PICK k2 \in A : \A j \in A : k2[1] <= j[1]
  <2>1. F \in SUBSET Nat /\ F # {}
    BY <1>1
  <2> HIDE DEF F
  <2>2. PICK x \in F : \A y \in F : x <= y
    BY <2>1, NatLeast
  <2> QED
    BY <2>2 DEF F
<1> DEFINE B == {k \in A : k[1] = k2[1]}
           G == {k[2] : k \in B}
<1>4. PICK k3 \in B : \A j \in B : k3[2] <= j[2]
  <2>1. G \in SUBSET Nat /\ G # {}
    BY <1>1, <1>3
  <2> HIDE DEF G
  <2>2. PICK x \in G : \A y \in G : x <= y
    BY <2>1, NatLeast
  <2> QED
    BY <2>2 DEF G
<1>5. k3 \in Pending /\ weight[k3] = weight[k1] /\ k3[1] = k2[1]
  BY <1>4
<1>6. ASSUME NEW j \in Pending
      PROVE  weight[j] < weight[k3] \/ (weight[j] = weight[k3] /\ KeyBefore(k3, j))
  <2>1. CASE weight[j] # weight[k1]
    BY <1>1, <1>2, <1>5, <2>1
  <2>2. CASE weight[j] = weight[k1] /\ j[1] # k2[1]
    <3>1. k2[1] <= j[1] /\ k2[1] \in Nat /\ j[1] \in Nat
      BY <1>1, <1>3, <2>2
    <3> QED
      BY <1>5, <2>2, <3>1 DEF KeyBefore
  <2>3. CASE weight[j] = weight[k1] /\ j[1] = k2[1]
    BY <1>4, <1>5, <2>3 DEF KeyBefore
  <2> QED
    BY <2>1, <2>2, <2>3
<1> QED
  BY <1>5, <1>6 DEF Heaviest

(* Of the shards for units one is the lightest, the first of these.        *)
LEMMA SomeLightest ==
  ASSUME TypeOK, Available # {}
  PROVE  \E s \in Available : Lightest(s)
<1>1. \A s \in Available : s \in Nat /\ load[s] \in Nat
  BY Counts DEF TypeOK, Slot
<1> DEFINE L == {load[s] : s \in Available}
<1>2. PICK s1 \in Available : \A t \in Available : load[s1] <= load[t]
  <2>1. L \in SUBSET Nat /\ L # {}
    BY <1>1
  <2> HIDE DEF L
  <2>2. PICK x \in L : \A y \in L : x <= y
    BY <2>1, NatLeast
  <2> QED
    BY <2>2 DEF L
<1> DEFINE S == {s \in Available : load[s] = load[s1]}
<1>3. PICK s2 \in S : \A t \in S : s2 <= t
  <2>1. S \in SUBSET Nat /\ S # {}
    BY <1>1
  <2> HIDE DEF S
  <2> QED
    BY <2>1, NatLeast
<1>4. \A t \in Available : load[s2] < load[t] \/ (load[s2] = load[t] /\ s2 <= t)
  BY <1>1, <1>2, <1>3
<1> QED
  BY <1>3, <1>4 DEF Lightest

(* make_plan never stops half way: it goes on until it returns or refuses  *)
(* the configuration for its hints.                                        *)
THEOREM PlannerNeverStuck == Spec => []NeverStuck
<1>1. IInv /\ QualityInv => NeverStuck
  <2> SUFFICES ASSUME IInv, QualityInv PROVE NeverStuck
    OBVIOUS
  <2>1. pc = "reserve" /\ todo # {} => reserved < Slots
    <3> SUFFICES ASSUME pc = "reserve", todo # {} PROVE reserved < Slots
      OBVIOUS
    <3>1. /\ todo \subseteq Isolated /\ Cardinality(todo) + reserved = Cardinality(Isolated)
          /\ Cardinality(Isolated) <= Slots
      BY DEF IInv, Counted, Planning
    <3>2. IsFiniteSet(todo)
      BY <3>1, Counts, FS_Subset DEF IInv
    <3>3. Cardinality(todo) \in Nat /\ Cardinality(todo) # 0
      BY <3>2, FS_CardinalityType, FS_EmptySet
    <3>4. reserved \in Nat /\ Cardinality(Isolated) \in Nat /\ Slots \in Nat
      BY Counts DEF IInv, TypeOK
    <3> QED
      BY <3>1, <3>3, <3>4
  <2>2. todo # {} => \E c \in todo : IsLeast(c, todo)
    <3>1. todo \in SUBSET Nat
      BY InventoryAssumption DEF IInv, TypeOK
    <3> QED
      BY <3>1, NatLeast DEF IsLeast
  <2>3. ASSUME pc = "place", Pending # {}
        PROVE  \E k \in Pending, s \in Available : Heaviest(k) /\ Lightest(s)
    <3>1. PICK k \in Pending : Heaviest(k)
      BY <2>3, SomeHeaviest
    <3>2. Rest # {}
      BY <2>3, PendingUnits DEF IInv, UnitKeys
    <3>3. Available # {}
      BY <2>3, <3>2, SomeAvailable DEF IInv, QualityInv, Enough, Planning
    <3> QED
      BY <3>1, <3>3, SomeLightest DEF IInv
  <2> QED
    BY <2>1, <2>2, <2>3 DEF NeverStuck
<1> QED
  BY <1>1, QualityInvariance, PTL

(* An upper bound on the steps that make_plan has left.                    *)
StepsLeft ==
  LET n == Cardinality(Check)
  IN CASE pc = "resolve" -> 3 * n + 4
       [] pc = "reserve" -> 2 * n + 3 + Cardinality(todo)
       [] pc = "group"   -> n + 2 + Cardinality(todo)
       [] pc = "place"   -> 1 + Cardinality(Pending)
       [] OTHER          -> 0

(* make_plan terminates: each of its steps leaves fewer to be done, from   *)
(* at most three for each check and four more.                             *)
THEOREM PlannerTerminates ==
  Spec => [](StepsLeft \in 0 .. 3 * Cardinality(Check) + 4) /\ [][StepsLeft' < StepsLeft]_vars
<1> DEFINE n == Cardinality(Check)
<1>1. n \in Nat
  BY InventoryAssumption, FS_CardinalityType
<1>2. ASSUME NEW T, T \subseteq Check
      PROVE  Cardinality(T) \in Nat /\ Cardinality(T) <= n /\ IsFiniteSet(T)
  BY <1>2, InventoryAssumption, FS_Subset, FS_CardinalityType
<1>3. ASSUME IInv
      PROVE  /\ StepsLeft \in 0 .. 3 * n + 4
             /\ pc = "resolve" => StepsLeft = 3 * n + 4
             /\ pc = "reserve" => StepsLeft = 2 * n + 3 + Cardinality(todo)
             /\ pc = "group"   => StepsLeft = n + 2 + Cardinality(todo)
             /\ pc = "place"   => StepsLeft = 1 + Cardinality(Pending)
             /\ pc \in {"done", "error"} => StepsLeft = 0
  <2>1. Cardinality(todo) \in Nat /\ Cardinality(todo) <= n
    BY <1>2, <1>3 DEF IInv, TypeOK
  <2>2. Cardinality(Pending) \in Nat /\ Cardinality(Pending) <= n
    BY <1>3, PendingUnits DEF IInv
  <2> HIDE DEF n
  <2>3. pc \in {"resolve", "reserve", "group", "place", "done", "error"}
    BY <1>3 DEF IInv, TypeOK
  <2> QED
    BY <1>1, <2>1, <2>2, <2>3 DEF StepsLeft, n
<1>4. ASSUME IInv, IInv', Next, vars' # vars
      PROVE  StepsLeft' < StepsLeft
  <2>1. /\ pc' = "reserve" => StepsLeft' = 2 * n + 3 + Cardinality(todo')
        /\ pc' = "group"   => StepsLeft' = n + 2 + Cardinality(todo')
        /\ pc' = "place"   => StepsLeft' = 1 + Cardinality(Pending')
        /\ pc' \in {"done", "error"} => StepsLeft' = 0
    <3> HIDE DEF n
    <3> QED
      BY DEF StepsLeft, n
  <2>2. \A T \in SUBSET Check : Cardinality(T) \in 0 .. n
    BY <1>1, <1>2
  <2>3. todo \subseteq Check /\ Isolated \subseteq Check /\ Rest \subseteq Check
    BY <1>4 DEF IInv, TypeOK, Isolated, Rest
  <2>4. Cardinality(Pending) \in 0 .. n /\ IsFiniteSet(Pending)
    BY <1>1, <1>4, PendingUnits DEF IInv
  <2>5. ASSUME NEW S, IsFiniteSet(S), NEW c \in S
        PROVE  Cardinality(S \ {c}) = Cardinality(S) - 1
    BY <2>5, FS_RemoveElement
  <2>6. CASE Resolve
    <3>1. pc = "resolve" /\ (pc' = "error" \/ (pc' = "reserve" /\ todo' = Isolated))
      BY <2>6 DEF Resolve
    <3> HIDE DEF n
    <3>2. Cardinality(Isolated) \in 0 .. n
      BY <2>2, <2>3
    <3> QED
      BY <1>1, <1>3, <1>4, <2>1, <3>1, <3>2
  <2>7. CASE Reserve
    <3>1. PICK c \in todo : todo' = todo \ {c}
      BY <2>7 DEF Reserve
    <3>2. Cardinality(todo') = Cardinality(todo) - 1 /\ Cardinality(todo) \in 0 .. n
      BY <1>2, <2>2, <2>3, <2>5, <3>1
    <3>3. pc = "reserve" /\ pc' = "reserve"
      BY <2>7 DEF Reserve
    <3> HIDE DEF n
    <3> QED
      BY <1>1, <1>3, <1>4, <2>1, <3>2, <3>3
  <2>8. CASE ReserveEnds
    <3>1. pc = "reserve" /\ pc' = "group" /\ todo' = Rest
      BY <2>8 DEF ReserveEnds
    <3> HIDE DEF n
    <3>2. Cardinality(Rest) \in 0 .. n /\ Cardinality(todo) \in 0 .. n
      BY <2>2, <2>3
    <3> QED
      BY <1>1, <1>3, <1>4, <2>1, <3>1, <3>2
  <2>9. CASE GroupCheck
    <3>1. PICK c \in todo : todo' = todo \ {c}
      BY <2>9 DEF GroupCheck
    <3>2. Cardinality(todo') = Cardinality(todo) - 1 /\ Cardinality(todo) \in 0 .. n
      BY <1>2, <2>2, <2>3, <2>5, <3>1
    <3>3. pc = "group" /\ pc' = "group"
      BY <2>9 DEF GroupCheck
    <3> HIDE DEF n
    <3> QED
      BY <1>1, <1>3, <1>4, <2>1, <3>2, <3>3
  <2>10. CASE GroupEnds
    <3>1. pc = "group" /\ pc' = "place" /\ units' = units
      BY <2>10 DEF GroupEnds
    <3>2. Pending' = Pending
      BY <3>1 DEF Pending, Key
    <3> HIDE DEF n
    <3>3. Cardinality(todo) \in 0 .. n
      BY <2>2, <2>3
    <3> QED
      BY <1>1, <1>3, <1>4, <2>1, <2>4, <3>1, <3>2, <3>3
  <2>11. CASE Place
    <3>1. PICK k \in Pending : units' = [units EXCEPT ![k] = {}]
      BY <2>11 DEF Place
    <3>2. Pending' = Pending \ {k}
      BY <1>4, <3>1 DEF Pending, Key, IInv, TypeOK
    <3>3. Cardinality(Pending') = Cardinality(Pending) - 1
      BY <2>4, <2>5, <3>2
    <3>4. pc = "place" /\ pc' = "place"
      BY <2>11 DEF Place
    <3> HIDE DEF n
    <3> QED
      BY <1>1, <1>3, <1>4, <2>1, <2>4, <3>3, <3>4
  <2>12. CASE Finish
    <3>1. pc = "place" /\ pc' = "done"
      BY <2>12 DEF Finish
    <3> HIDE DEF n
    <3> QED
      BY <1>1, <1>3, <1>4, <2>1, <2>4, <3>1
  <2>13. ~Returned
    BY <1>4 DEF Returned
  <2> QED
    BY <1>4, <2>6, <2>7, <2>8, <2>9, <2>10, <2>11, <2>12, <2>13 DEF Next
<1>5. IInv /\ IInv' /\ [Next]_vars => [StepsLeft' < StepsLeft]_vars
  BY <1>4
<1>6. IInv => StepsLeft \in 0 .. 3 * Cardinality(Check) + 4
  BY <1>3
<1> QED
  BY <1>5, <1>6, Invariance, PTL DEF Spec

-----------------------------------------------------------------------------
(* Ancestors(n) is the least closed set around the dependencies of n.      *)

LEMMA Direct ==
  ASSUME graph \in Graph, NEW n \in Node
  PROVE  graph.deps[n] \subseteq Ancestors(n)
BY DEF Graph, Ancestors

LEMMA Least ==
  ASSUME NEW n \in Node, NEW S \in SUBSET Node, graph.deps[n] \subseteq S, Closed(S)
  PROVE  Ancestors(n) \subseteq S
BY DEF Ancestors

LEMMA Transitive ==
  ASSUME graph \in Graph, NEW n \in Node, NEW m \in Ancestors(n)
  PROVE  graph.deps[m] \subseteq Ancestors(n) /\ Ancestors(m) \subseteq Ancestors(n)
<1>1. m \in Node /\ Ancestors(n) \in SUBSET Node
  BY DEF Ancestors
<1>2. \A k \in Ancestors(n) : graph.deps[k] \subseteq Ancestors(n)
  <2> SUFFICES ASSUME NEW k \in Ancestors(n), NEW d \in graph.deps[k]
               PROVE  d \in Ancestors(n)
    OBVIOUS
  <2>1. k \in Node
    BY DEF Ancestors
  <2>2. d \in Node
    BY <2>1 DEF Graph
  <2>3. ASSUME NEW S \in SUBSET Node, graph.deps[n] \subseteq S, Closed(S)
        PROVE  d \in S
    <3>1. k \in S
      BY <2>3 DEF Ancestors
    <3> QED
      BY <2>3, <3>1 DEF Closed
  <2> QED
    BY <2>2, <2>3 DEF Ancestors
<1>3. Ancestors(m) \subseteq Ancestors(n)
  BY <1>1, <1>2, Least DEF Closed
<1> QED
  BY <1>2, <1>3

-----------------------------------------------------------------------------
(* The inductive invariant.                                                *)

Stage == {"show", "normalize", "search", "waves", "summary", "invalid", "cyclic"}

GraphTyped ==
  /\ input \in Inputs
  /\ stage \in Stage
  /\ stage = "show" => stack = << >> /\ known = {}
  /\ stage # "show" => graph \in Graph
  /\ stack \in Seq(Node)
  /\ known \subseteq Node
  /\ memo \in [Node -> SUBSET Node]

(* What a finished call has left in the memo.                              *)
MemoClosed ==
  \A n \in known :
    /\ graph.deps[n] \subseteq memo[n]
    /\ memo[n] \subseteq known \ {n}
    /\ memo[n] \subseteq Ancestors(n)
    /\ \A m \in memo[n] : memo[m] \subseteq memo[n]

(* The calls in progress form a path in the graph, without repetition.     *)
StackIsPath ==
  /\ \A i \in 1 .. Len(stack) : stack[i] \notin known
  /\ \A i, j \in 1 .. Len(stack) :
       i < j => stack[i] # stack[j] /\ stack[j] \in Ancestors(stack[i])

CycleFound == stage = "cyclic" => \E n \in Node : n \in Ancestors(n)

AllAsked ==
  stage \in {"waves", "summary"} => \A c \in Check : Check # {c} => graph.drv[c] \in known

GraphInv == GraphTyped /\ MemoClosed /\ StackIsPath /\ CycleFound /\ AllAsked

LEMMA GraphInitially == ASSUME JobInit PROVE GraphInv
BY DEF JobInit, Init, GraphInit, GraphInv, GraphTyped, MemoClosed, StackIsPath,
       CycleFound, AllAsked, Stage

LEMMA ShowStep == ASSUME GraphInv, Show PROVE GraphInv'
BY GraphsAssumption
   DEF GraphInv, GraphTyped, MemoClosed, StackIsPath, CycleFound, AllAsked, Stage, Show,
       planVars, vars, Closed, Ancestors

(* Steps that leave the search alone.                                      *)
LEMMA QuietStep ==
  ASSUME GraphInv, UNCHANGED <<input, graph, stack, known, memo>>,
         stage' \in Stage \ {"show"} \/ stage' = stage,
         stage' = "cyclic" => stage = "cyclic",
         stage' \in {"waves", "summary"} => stage \in {"waves", "summary"} \/ Wanted = {},
         stage = "show" => stage' = "show"
  PROVE  GraphInv'
<1>1. GraphTyped'
  BY DEF GraphInv, GraphTyped, Stage
<1>2. MemoClosed' /\ StackIsPath'
  BY DEF GraphInv, MemoClosed, StackIsPath, Ancestors, Closed
<1>3. CycleFound'
  BY DEF GraphInv, CycleFound, Ancestors, Closed
<1>4. AllAsked'
  BY DEF GraphInv, AllAsked, Wanted
<1> QED
  BY <1>1, <1>2, <1>3, <1>4 DEF GraphInv

LEMMA CallStep == ASSUME GraphInv, CallAncestors PROVE GraphInv'
<1>1. PICK c \in Wanted : stack' = <<graph.drv[c]>>
  BY DEF CallAncestors
<1>2. /\ UNCHANGED <<input, graph, stage, known, memo>>
      /\ stage = "search" /\ graph \in Graph
  BY DEF CallAncestors, planVars, vars, GraphInv, GraphTyped
<1>3. graph.drv[c] \in Node \ known
  BY <1>2 DEF Wanted, Graph
<1>4. GraphTyped'
  BY <1>1, <1>2, <1>3 DEF GraphInv, GraphTyped, Stage
<1>5. MemoClosed'
  BY <1>2 DEF GraphInv, MemoClosed, Ancestors, Closed
<1>6. StackIsPath'
  BY <1>1, <1>2, <1>3 DEF StackIsPath
<1>7. CycleFound' /\ AllAsked'
  BY <1>2 DEF CycleFound, AllAsked
<1> QED
  BY <1>4, <1>5, <1>6, <1>7 DEF GraphInv

LEMMA TopOnStack ==
  ASSUME GraphInv, stage = "search", stack # << >>
  PROVE  /\ graph \in Graph /\ Len(stack) \in Nat \ {0}
         /\ Top \in Node \ known /\ graph.deps[Top] \subseteq Node
<1>1. graph \in Graph /\ stack \in Seq(Node) /\ Len(stack) \in Nat \ {0}
  BY DEF GraphInv, GraphTyped
<1>2. Top \in Node /\ Top \notin known
  BY <1>1 DEF GraphInv, StackIsPath, Top
<1> QED
  BY <1>1, <1>2 DEF Graph

LEMMA DescendStep == ASSUME GraphInv, Descend PROVE GraphInv'
<1>1. PICK d \in graph.deps[Top] \ known :
        IF d \in Visiting THEN stage' = "cyclic" /\ UNCHANGED stack
                          ELSE stack' = Append(stack, d) /\ UNCHANGED stage
  BY DEF Descend
<1>2. UNCHANGED <<input, graph, known, memo>> /\ stage = "search" /\ stack # << >>
  BY DEF Descend, planVars, vars
<1>3. /\ graph \in Graph /\ Len(stack) \in Nat \ {0} /\ d \in Node
      /\ stack \in Seq(Node) /\ Top \in Node /\ d \in Ancestors(Top)
  BY <1>2, TopOnStack, Direct DEF GraphInv, GraphTyped
<1>4. \A i \in 1 .. Len(stack) : d \in Ancestors(stack[i])
  <2> SUFFICES ASSUME NEW i \in 1 .. Len(stack) PROVE d \in Ancestors(stack[i])
    OBVIOUS
  <2>1. CASE i = Len(stack)
    BY <2>1, <1>3 DEF Top
  <2>2. CASE i # Len(stack)
    <3>1. Top \in Ancestors(stack[i]) /\ stack[i] \in Node
      BY <2>2, <1>3 DEF GraphInv, StackIsPath, Top
    <3> QED
      BY <3>1, <1>3, Transitive
  <2> QED
    BY <2>1, <2>2
<1>5. MemoClosed'
  BY <1>2 DEF GraphInv, MemoClosed, Ancestors, Closed
<1>6. CASE d \in Visiting
  <2>1. stage' = "cyclic" /\ UNCHANGED stack
    BY <1>1, <1>6
  <2>2. PICK i \in 1 .. Len(stack) : stack[i] = d
    BY <1>3, <1>6 DEF Visiting
  <2>3. GraphTyped'
    BY <2>1, <1>2 DEF GraphInv, GraphTyped, Stage
  <2>4. StackIsPath'
    BY <2>1, <1>2 DEF GraphInv, StackIsPath, Ancestors, Closed
  <2>5. CycleFound'
    <3>1. d \in Ancestors(d)
      BY <2>2, <1>4
    <3>2. (d \in Ancestors(d))'
      BY <3>1, <1>2 DEF Ancestors, Closed
    <3> QED
      BY <3>2, <1>3 DEF CycleFound
  <2>6. AllAsked'
    BY <2>1 DEF AllAsked
  <2> QED
    BY <1>5, <2>3, <2>4, <2>5, <2>6 DEF GraphInv
<1>7. CASE d \notin Visiting
  <2>1. stack' = Append(stack, d) /\ UNCHANGED stage
    BY <1>1, <1>7
  <2>2. /\ Len(stack') = Len(stack) + 1 /\ stack' \in Seq(Node)
        /\ \A i \in 1 .. Len(stack) : stack'[i] = stack[i]
        /\ stack'[Len(stack) + 1] = d
    BY <2>1, <1>3
  <2>3. GraphTyped'
    BY <2>1, <2>2, <1>2, <1>3 DEF GraphInv, GraphTyped, Stage
  <2>4. \A i \in 1 .. Len(stack) : stack[i] # d
    BY <1>3, <1>7 DEF Visiting
  <2>5. StackIsPath'
    <3>1. \A i \in 1 .. Len(stack) + 1 : stack'[i] \notin known
      BY <2>2, <1>1, <1>3 DEF GraphInv, StackIsPath
    <3>2. \A i, j \in 1 .. Len(stack) + 1 :
            i < j => stack'[i] # stack'[j] /\ stack'[j] \in Ancestors(stack'[i])
      <4> SUFFICES ASSUME NEW i \in 1 .. Len(stack) + 1, NEW j \in 1 .. Len(stack) + 1, i < j
                   PROVE  stack'[i] # stack'[j] /\ stack'[j] \in Ancestors(stack'[i])
        OBVIOUS
      <4>1. i \in 1 .. Len(stack) /\ stack'[i] = stack[i]
        BY <1>3, <2>2
      <4>2. CASE j = Len(stack) + 1
        BY <4>1, <4>2, <2>2, <2>4, <1>4
      <4>3. CASE j # Len(stack) + 1
        <5>1. j \in 1 .. Len(stack) /\ stack'[j] = stack[j]
          BY <4>3, <1>3, <2>2
        <5> QED
          BY <5>1, <4>1 DEF GraphInv, StackIsPath
      <4> QED
        BY <4>2, <4>3
    <3> QED
      BY <3>1, <3>2, <2>2, <1>2 DEF StackIsPath, Ancestors, Closed
  <2>6. CycleFound' /\ AllAsked'
    BY <2>1, <1>2 DEF CycleFound, AllAsked
  <2> QED
    BY <1>5, <2>3, <2>5, <2>6 DEF GraphInv
<1> QED
  BY <1>6, <1>7

LEMMA Prefix ==
  ASSUME NEW S, NEW s \in Seq(S), NEW m \in 0 .. Len(s)
  PROVE  /\ Len(SubSeq(s, 1, m)) = m /\ SubSeq(s, 1, m) \in Seq(S)
         /\ \A i \in 1 .. m : SubSeq(s, 1, m)[i] = s[i]
<1>1. m \in Int /\ m - 1 + 1 = m /\ (IF 1 <= m THEN m ELSE 0) = m
  BY LenProperties
<1>2. \A i \in 1 .. m : s[i] \in S /\ 1 + i - 1 = i
  BY LenProperties
<1> QED
  BY <1>1, <1>2, SubSeqProperties

LEMMA ReturnStep == ASSUME GraphInv, Return PROVE GraphInv'
<1>1. /\ stage = "search" /\ stack # << >>
      /\ graph.deps[Top] \subseteq known
      /\ memo' = [memo EXCEPT ![Top] = Collected(Top)]
      /\ known' = known \union {Top}
      /\ stack' = SubSeq(stack, 1, Len(stack) - 1)
      /\ UNCHANGED <<input, graph, stage>>
  BY DEF Return, planVars, vars
<1>2. /\ graph \in Graph /\ Len(stack) \in Nat \ {0} /\ Top \in Node \ known
      /\ stack \in Seq(Node) /\ known \subseteq Node /\ memo \in [Node -> SUBSET Node]
  BY <1>1, TopOnStack DEF GraphInv, GraphTyped
<1>3. /\ Collected(Top) \subseteq known
      /\ Collected(Top) \subseteq Ancestors(Top)
      /\ \A m \in Collected(Top) : memo[m] \subseteq Collected(Top)
  <2>1. \A d \in graph.deps[Top] : /\ d \in known /\ d \in Ancestors(Top)
                                   /\ memo[d] \subseteq known
                                   /\ memo[d] \subseteq Ancestors(Top)
                                   /\ \A m \in memo[d] : memo[m] \subseteq memo[d]
    <3> SUFFICES ASSUME NEW d \in graph.deps[Top]
                 PROVE  /\ d \in known /\ d \in Ancestors(Top)
                        /\ memo[d] \subseteq known
                        /\ memo[d] \subseteq Ancestors(Top)
                        /\ \A m \in memo[d] : memo[m] \subseteq memo[d]
      OBVIOUS
    <3>1. d \in known /\ d \in Ancestors(Top)
      BY <1>1, <1>2, Direct
    <3>2. Ancestors(d) \subseteq Ancestors(Top)
      BY <3>1, <1>2, Transitive
    <3> QED
      BY <3>1, <3>2 DEF GraphInv, MemoClosed
  <2> QED
    BY <2>1 DEF Collected
<1>4. /\ memo'[Top] = Collected(Top)
      /\ \A n \in known : memo'[n] = memo[n]
      /\ memo' \in [Node -> SUBSET Node]
  BY <1>1, <1>2, <1>3
<1>5. /\ Len(stack') = Len(stack) - 1 /\ stack' \in Seq(Node)
      /\ \A i \in 1 .. Len(stack) - 1 : stack'[i] = stack[i]
  <2>1. Len(stack) - 1 \in 0 .. Len(stack)
    BY <1>2
  <2> QED
    BY <2>1, <1>1, <1>2, Prefix
<1>6. GraphTyped'
  BY <1>1, <1>2, <1>4, <1>5 DEF GraphInv, GraphTyped, Stage
<1>7. MemoClosed'
  <2> SUFFICES ASSUME NEW n \in known'
               PROVE  /\ graph.deps[n] \subseteq memo'[n]
                      /\ memo'[n] \subseteq known' \ {n}
                      /\ memo'[n] \subseteq Ancestors(n)
                      /\ \A m \in memo'[n] : memo'[m] \subseteq memo'[n]
    BY <1>1 DEF MemoClosed, Ancestors, Closed
  <2>1. CASE n = Top
    <3>1. graph.deps[n] \subseteq memo'[n]
      BY <2>1, <1>4 DEF Collected
    <3>2. memo'[n] \subseteq known
      BY <2>1, <1>3, <1>4
    <3>3. \A m \in memo'[n] : memo'[m] \subseteq memo'[n]
      BY <2>1, <3>2, <1>3, <1>4
    <3> QED
      BY <2>1, <3>1, <3>2, <3>3, <1>1, <1>2, <1>3, <1>4
  <2>2. CASE n # Top
    <3>1. n \in known /\ memo'[n] = memo[n]
      BY <2>2, <1>1, <1>4
    <3>2. memo[n] \subseteq known \ {n}
      BY <3>1 DEF GraphInv, MemoClosed
    <3>3. \A m \in memo'[n] : memo'[m] \subseteq memo'[n]
      BY <3>1, <3>2, <1>4 DEF GraphInv, MemoClosed
    <3> QED
      BY <3>1, <3>2, <3>3, <1>1 DEF GraphInv, MemoClosed
  <2> QED
    BY <2>1, <2>2
<1>8. StackIsPath'
  <2>1. \A i \in 1 .. Len(stack) - 1 : stack[i] # Top /\ stack[i] \notin known
    BY <1>2 DEF GraphInv, StackIsPath, Top
  <2>2. \A i, j \in 1 .. Len(stack) - 1 :
          i < j => stack[i] # stack[j] /\ stack[j] \in Ancestors(stack[i])
    BY <1>2 DEF GraphInv, StackIsPath
  <2> QED
    BY <2>1, <2>2, <1>1, <1>5 DEF StackIsPath, Ancestors, Closed
<1>9. CycleFound' /\ AllAsked'
  BY <1>1 DEF CycleFound, AllAsked
<1> QED
  BY <1>6, <1>7, <1>8, <1>9 DEF GraphInv

LEMMA GraphStep == ASSUME GraphInv, [JobNext]_jobVars PROVE GraphInv'
<1>1. CASE pc # "done" /\ Next /\ UNCHANGED graphVars
  <2>1. UNCHANGED input
    BY <1>1 DEF Next, Resolve, Reserve, ReserveEnds, GroupCheck, GroupEnds, Place,
                Finish, Returned, vars
  <2> QED
    BY <2>1, <1>1, QuietStep DEF graphVars, GraphInv, GraphTyped
<1>2. CASE Show
  BY <1>2, ShowStep
<1>3. CASE Normalize
  BY <1>3, QuietStep DEF Normalize, planVars, vars, Stage
<1>4. CASE CallAncestors
  BY <1>4, CallStep
<1>5. CASE Descend
  BY <1>5, DescendStep
<1>6. CASE Return
  BY <1>6, ReturnStep
<1>7. CASE SearchEnds \/ WaveReturns \/ WavesEnd
  BY <1>7, QuietStep DEF SearchEnds, WaveReturns, WavesEnd, planVars, vars, Stage
<1>8. CASE Summarised \/ UNCHANGED jobVars
  BY <1>8, QuietStep DEF Summarised, jobVars, vars, graphVars
<1> QED
  BY <1>1, <1>2, <1>3, <1>4, <1>5, <1>6, <1>7, <1>8 DEF JobNext, AnalyzeStep

-----------------------------------------------------------------------------
(* A finished node's memo is a closed set around its dependencies, so it   *)
(* holds all ancestors, and it holds nothing else.                         *)
LEMMA MemoExact ==
  ASSUME GraphInv, NEW n \in known
  PROVE  memo[n] = Ancestors(n) /\ n \notin Ancestors(n)
<1>1. n \in Node /\ memo[n] \in SUBSET Node
  BY DEF GraphInv, GraphTyped
<1>2. Closed(memo[n])
  BY DEF GraphInv, MemoClosed, Closed
<1>3. graph.deps[n] \subseteq memo[n] /\ memo[n] \subseteq Ancestors(n) /\ n \notin memo[n]
  BY DEF GraphInv, MemoClosed
<1> QED
  BY <1>1, <1>2, <1>3, Least

(* The search of graph_summary is exact for every graph: memos hold the    *)
(* transitive dependencies, and an error is raised if and only if a cycle  *)
(* is met above a check.                                                   *)
THEOREM SearchExact == JobSpec => []AncestorsExact
<1>1. JobInit => GraphInv
  BY GraphInitially
<1>2. GraphInv /\ [JobNext]_jobVars => GraphInv'
  BY GraphStep
<1>3. GraphInv => AncestorsExact
  <2> SUFFICES ASSUME GraphInv PROVE AncestorsExact
    OBVIOUS
  <2>1. \A n \in known : memo[n] = Ancestors(n)
    BY MemoExact
  <2>2. ASSUME stage = "summary", NEW c \in Check, Check # {c},
               NEW n \in {graph.drv[c]} \union Ancestors(graph.drv[c])
        PROVE  n \notin Ancestors(n)
    <3>1. graph.drv[c] \in known
      BY <2>2 DEF GraphInv, AllAsked
    <3>2. memo[graph.drv[c]] \subseteq known
      BY <3>1 DEF GraphInv, MemoClosed
    <3>3. n \in known
      BY <2>1, <2>2, <3>1, <3>2
    <3> QED
      BY <3>3, MemoExact
  <2>3. stage = "cyclic" => \E n \in Node : n \in Ancestors(n)
    BY DEF GraphInv, CycleFound
  <2> QED
    BY <2>1, <2>2, <2>3 DEF AncestorsExact
<1> QED
  BY <1>1, <1>2, <1>3, PTL DEF JobSpec

(* The plan job runs make_plan as CheckPlanner describes it, so what is    *)
(* proved of the planner holds of the job's plan.                          *)
THEOREM JobImplementsPlanner == JobSpec => Spec
<1>1. JobInit => Init
  BY DEF JobInit
<1>2. [JobNext]_jobVars => [Next]_vars
  <2> SUFFICES ASSUME [JobNext]_jobVars PROVE Next \/ UNCHANGED vars
    OBVIOUS
  <2>1. CASE AnalyzeStep
    BY <2>1 DEF AnalyzeStep, Show, Normalize, CallAncestors, Descend, Return, SearchEnds,
                WaveReturns, WavesEnd, Summarised, planVars, jobVars, vars
  <2> QED
    BY <2>1 DEF JobNext, jobVars
<1> QED
  BY <1>1, <1>2, PTL DEF JobSpec, Spec

(* So the plan that is analysed and partitioned holds each check once.     *)
THEOREM JobPlanIsPartition == JobSpec => []PlanPartitions
BY JobImplementsPlanner, PlanIsPartition, PTL

-----------------------------------------------------------------------------
(***************************************************************************)
(* Waves.  Once the search has ended, dependency between checks is a       *)
(* strict partial order, and each finished wave is one more than the       *)
(* deepest wave below it.                                                  *)
(***************************************************************************)

LEMMA DependenciesTransitive ==
  ASSUME GraphInv, stage \in {"waves", "summary"},
         NEW c \in Check, NEW d \in Dependencies(c)
  PROVE  d \in Check /\ Dependencies(d) \subseteq Dependencies(c)
<1>1. d \in Check \ {c} /\ graph.drv[d] \in memo[graph.drv[c]]
  BY DEF Dependencies
<1>2. graph.drv[c] \in known
  BY <1>1 DEF GraphInv, AllAsked
<1>3. /\ memo[graph.drv[d]] \subseteq memo[graph.drv[c]]
      /\ graph.drv[c] \notin memo[graph.drv[c]]
  BY <1>1, <1>2 DEF GraphInv, MemoClosed
<1> QED
  BY <1>1, <1>3 DEF Dependencies

(* The wave of a finished check, and a bound that keeps waves finite.      *)
WaveIsDepth(c) ==
  /\ wave[c] < Cardinality(waved)
  /\ \A d \in Dependencies(c) : wave[d] < wave[c]
  /\ wave[c] = 0 \/ \E d \in Dependencies(c) : wave[c] = wave[d] + 1

WaveInv ==
  /\ stage # "show" => pc = "done"
  /\ stage \notin {"waves", "summary"} => waved = {}
  /\ stage = "summary" => waved = Check
  /\ waved \subseteq Check
  /\ wave \in [Check -> Nat]
  /\ \A c \in waved : Dependencies(c) \subseteq waved /\ WaveIsDepth(c)

(* Depth's CHOOSE finds the greatest of its numbers.                       *)
LEMMA DepthValue ==
  ASSUME WaveInv, NEW c \in Check, Dependencies(c) \subseteq waved
  PROVE  /\ Depth(c) \in Nat /\ Depth(c) <= Cardinality(waved)
         /\ \A d \in Dependencies(c) : wave[d] < Depth(c)
         /\ Depth(c) = 0 \/ \E d \in Dependencies(c) : Depth(c) = wave[d] + 1
<1> DEFINE S == {0} \union {wave[d] + 1 : d \in Dependencies(c)}
           v == CHOOSE v \in S : \A u \in S : u <= v
<1>1. Cardinality(waved) \in Nat
  BY InventoryAssumption, FS_Subset, FS_CardinalityType DEF WaveInv
<1>2. \A d \in Dependencies(c) : wave[d] \in Nat /\ wave[d] < Cardinality(waved)
  BY DEF WaveInv, WaveIsDepth
<1>3. S \in SUBSET (0 .. Cardinality(waved)) /\ S # {}
  BY <1>1, <1>2
<1>4. \E x \in S : \A u \in S : u <= x
  BY <1>1, <1>3, NatGreatest
<1>5. v \in S /\ \A u \in S : u <= v
  BY <1>4
<1>6. Depth(c) = v
  BY DEF Depth
<1>7. v \in Nat /\ v <= Cardinality(waved)
  BY <1>1, <1>3, <1>5
<1>8. \A d \in Dependencies(c) : wave[d] < v
  <2> SUFFICES ASSUME NEW d \in Dependencies(c) PROVE wave[d] < v
    OBVIOUS
  <2>1. wave[d] + 1 \in S
    OBVIOUS
  <2>2. wave[d] + 1 <= v
    BY <2>1, <1>5
  <2> QED
    BY <2>2, <1>2, <1>7
<1>9. v = 0 \/ \E d \in Dependencies(c) : v = wave[d] + 1
  BY <1>5
<1> QED
  BY <1>6, <1>7, <1>8, <1>9

LEMMA WaveInitially == ASSUME JobInit PROVE WaveInv
BY DEF JobInit, GraphInit, WaveInv

LEMMA WaveReturnsStep == ASSUME WaveInv, WaveReturns PROVE WaveInv'
<1>1. PICK c \in Ready : /\ wave' = [wave EXCEPT ![c] = Depth(c)]
                         /\ waved' = waved \union {c}
  BY DEF WaveReturns
<1>2. /\ c \in Check \ waved /\ Dependencies(c) \subseteq waved
      /\ UNCHANGED <<pc, graph, stage, memo>> /\ stage = "waves"
  BY DEF Ready, WaveReturns, planVars, vars
<1>3. \A d : Dependencies(d)' = Dependencies(d)
  BY <1>2 DEF Dependencies
<1>4. /\ Depth(c) \in Nat /\ Depth(c) <= Cardinality(waved)
      /\ \A d \in Dependencies(c) : wave[d] < Depth(c)
      /\ Depth(c) = 0 \/ \E d \in Dependencies(c) : Depth(c) = wave[d] + 1
  BY <1>2, DepthValue
<1>5. /\ Cardinality(waved) \in Nat
      /\ Cardinality(waved') = Cardinality(waved) + 1
  <2>1. IsFiniteSet(waved)
    BY InventoryAssumption, FS_Subset DEF WaveInv
  <2> QED
    BY <2>1, <1>1, <1>2, FS_CardinalityType, FS_AddElement
<1>6. /\ wave' \in [Check -> Nat] /\ wave'[c] = Depth(c)
      /\ \A d \in waved : wave'[d] = wave[d]
  BY <1>1, <1>2, <1>4 DEF WaveInv
<1>7. ASSUME NEW d \in waved'
      PROVE  Dependencies(d)' \subseteq waved' /\ WaveIsDepth(d)'
  <2>1. CASE d = c
    <3>1. \A e \in Dependencies(c) : wave'[e] = wave[e]
      BY <1>2, <1>6
    <3> QED
      BY <2>1, <3>1, <1>1, <1>2, <1>3, <1>4, <1>5, <1>6 DEF WaveIsDepth
  <2>2. CASE d # c
    <3>1. d \in waved /\ wave'[d] = wave[d] /\ wave[d] \in Nat
      BY <2>2, <1>1, <1>6 DEF WaveInv
    <3>2. Dependencies(d) \subseteq waved /\ WaveIsDepth(d)
      BY <3>1 DEF WaveInv
    <3>3. \A e \in Dependencies(d) : wave'[e] = wave[e]
      BY <3>2, <1>6
    <3> QED
      BY <3>1, <3>2, <3>3, <1>1, <1>3, <1>5 DEF WaveIsDepth
  <2> QED
    BY <2>1, <2>2
<1>8. waved' \subseteq Check
  BY <1>1, <1>2 DEF WaveInv
<1> QED
  BY <1>2, <1>6, <1>7, <1>8 DEF WaveInv

(* Until the search has ended there are no waves to disturb; afterwards    *)
(* nothing but WaveReturns touches what they depend on.                    *)
LEMMA WaveStep == ASSUME WaveInv, [JobNext]_jobVars PROVE WaveInv'
<1>1. CASE WaveReturns
  BY <1>1, WaveReturnsStep
<1>2. CASE Show \/ Normalize \/ CallAncestors \/ Descend \/ Return \/ SearchEnds
  <2>1. /\ stage \notin {"waves", "summary"}
        /\ UNCHANGED <<waved, wave>> /\ stage' # "summary"
    BY <1>2 DEF Show, Normalize, CallAncestors, Descend, Return, SearchEnds
  <2>2. pc' = "done"
    <3>1. pc = "done"
      BY <1>2 DEF JobNext, AnalyzeStep, WaveInv, Show, Normalize, CallAncestors, Descend,
                  Return, SearchEnds, jobVars, graphVars
    <3> QED
      BY <3>1, <1>2 DEF Show, Normalize, CallAncestors, Descend, Return, SearchEnds,
                        planVars, vars
  <2> QED
    BY <2>1, <2>2 DEF WaveInv
<1>3. CASE WavesEnd
  BY <1>3 DEF WavesEnd, WaveInv, WaveIsDepth, Dependencies, planVars, vars
<1>4. CASE Summarised \/ UNCHANGED jobVars
  BY <1>4 DEF Summarised, WaveInv, WaveIsDepth, Dependencies, jobVars, graphVars, vars
<1>5. CASE pc # "done" /\ Next /\ UNCHANGED graphVars
  BY <1>5 DEF WaveInv, WaveIsDepth, Dependencies, graphVars
<1> QED
  BY <1>1, <1>2, <1>3, <1>4, <1>5 DEF JobNext, AnalyzeStep

LEMMA WaveInvariance == JobSpec => [](GraphInv /\ WaveInv)
<1>1. JobInit => GraphInv /\ WaveInv
  BY GraphInitially, WaveInitially
<1>2. GraphInv /\ WaveInv /\ [JobNext]_jobVars => (GraphInv /\ WaveInv)'
  BY GraphStep, WaveStep
<1> QED
  BY <1>1, <1>2, PTL DEF JobSpec

(* What the invariant says of the finished waves.                          *)
LEMMA WavesFinished ==
  ASSUME WaveInv, stage = "summary", NEW c \in Check
  PROVE  /\ wave[c] \in Nat
         /\ \A d \in Dependencies(c) : d \in Check /\ wave[d] \in Nat /\ wave[d] < wave[c]
         /\ wave[c] = 0 \/ \E d \in Dependencies(c) : wave[c] = wave[d] + 1
BY DEF WaveInv, WaveIsDepth, Dependencies

(* No chain is longer than the wave: waves along a chain differ.           *)
LEMMA ChainsBounded ==
  ASSUME GraphInv, WaveInv, stage = "summary", NEW c \in Check,
         NEW K \in SUBSET Dependencies(c), IsChain(K, c)
  PROVE  Cardinality(K) <= wave[c]
<1>1. wave[c] \in Nat
  BY WavesFinished
<1>2. \A d \in K : d \in Check /\ wave[d] \in Nat /\ wave[d] < wave[c]
  BY WavesFinished
<1> DEFINE f == [d \in K |-> wave[d]]
           T == 0 .. (wave[c] - 1)
<1>3. f \in [K -> T]
  BY <1>1, <1>2
<1>4. \A a, b \in K : f[a] = f[b] => a = b
  <2> SUFFICES ASSUME NEW a \in K, NEW b \in K, wave[a] = wave[b], a # b PROVE FALSE
    OBVIOUS
  <2>1. a \in Dependencies(b) \/ b \in Dependencies(a)
    BY DEF IsChain
  <2>2. wave[a] < wave[b] \/ wave[b] < wave[a]
    BY <1>2, <2>1, WavesFinished
  <2> QED
    BY <1>2, <2>2
<1>5. f \in Injection(K, T)
  BY <1>3, <1>4 DEF Injection, IsInjective
<1>6. IsFiniteSet(T) /\ Cardinality(T) = wave[c]
  <2>1. wave[c] - 1 \in Int /\ 0 \in Int
    BY <1>1
  <2>2. /\ IsFiniteSet(T)
        /\ Cardinality(T) = IF 0 > wave[c] - 1 THEN 0 ELSE (wave[c] - 1) - 0 + 1
    BY <2>1, FS_Interval
  <2> QED
    BY <1>1, <2>2
<1> HIDE DEF f, T
<1>7. Cardinality(K) <= Cardinality(T)
  BY <1>5, <1>6, FS_Injection
<1> QED
  BY <1>6, <1>7

(* Some chain is as long: one for a dependency one wave earlier, and that  *)
(* dependency.                                                             *)
LEMMA ChainExists ==
  ASSUME GraphInv, WaveInv, stage = "summary", NEW c \in Check
  PROVE  \E K \in SUBSET Dependencies(c) : IsChain(K, c) /\ Cardinality(K) = wave[c]
<1> DEFINE HasChain(x) ==
             \E K \in SUBSET Dependencies(x) : IsChain(K, x) /\ Cardinality(K) = wave[x]
           T == {wave[x] : x \in {y \in Check : ~HasChain(y)}}
<1> SUFFICES ASSUME T # {} PROVE FALSE
  OBVIOUS
<1>1. T \in SUBSET Nat
  BY WavesFinished
<1>2. PICK n \in T : \A m \in T : n <= m
  BY <1>1, NatLeast
<1>3. PICK x \in Check : ~HasChain(x) /\ wave[x] = n
  BY <1>2
<1>4. CASE wave[x] = 0
  <2>1. IsChain({}, x) /\ Cardinality({}) = wave[x]
    BY <1>4, FS_EmptySet DEF IsChain
  <2> QED
    BY <1>3, <2>1
<1>5. CASE wave[x] # 0
  <2>1. PICK d \in Dependencies(x) : wave[x] = wave[d] + 1
    BY <1>5, WavesFinished
  <2>2. /\ d \in Check /\ wave[d] \in Nat /\ d \notin Dependencies(d)
        /\ Dependencies(d) \subseteq Dependencies(x)
    BY <2>1, WavesFinished, DependenciesTransitive DEF Dependencies
  <2>3. HasChain(d)
    <3>1. wave[d] < n /\ n \in Nat
      BY <1>1, <1>2, <1>3, <2>1, <2>2
    <3>2. wave[d] \notin T
      BY <1>2, <2>2, <3>1
    <3> QED
      BY <2>2, <3>2
  <2>4. PICK K \in SUBSET Dependencies(d) : IsChain(K, d) /\ Cardinality(K) = wave[d]
    BY <2>3
  <2>5. IsChain(K \union {d}, x)
    BY <2>1, <2>2, <2>4 DEF IsChain
  <2>6. Cardinality(K \union {d}) = wave[x]
    <3>1. IsFiniteSet(K)
      BY <2>4, InventoryAssumption, FS_Subset DEF Dependencies
    <3> QED
      BY <3>1, <2>1, <2>2, <2>4, FS_AddElement
  <2>7. K \union {d} \in SUBSET Dependencies(x)
    BY <2>1, <2>2, <2>4
  <2> QED
    BY <1>3, <2>5, <2>6, <2>7
<1> QED
  BY <1>4, <1>5

(* For every graph of derivations, the wave of a check is the length of    *)
(* the longest chain of checks below it (checkWaves, criticalCheckDepth).  *)
THEOREM ExactWaves == JobSpec => []WavesExact
<1>1. GraphInv /\ WaveInv => WavesExact
  BY ChainsBounded, ChainExists DEF WavesExact
<1> QED
  BY <1>1, WaveInvariance, PTL

(* Below every check, and anywhere, there is one that may start at once.   *)
LEMMA SomeInitial ==
  ASSUME GraphInv, WaveInv, stage = "summary", NEW D \in SUBSET Check, D # {},
         \A d \in D : Dependencies(d) \subseteq D
  PROVE  D \intersect Initial # {}
<1>1. {wave[d] : d \in D} \in SUBSET Nat /\ {wave[d] : d \in D} # {}
  BY WavesFinished
<1>2. PICK n \in {wave[d] : d \in D} : \A m \in {wave[d] : d \in D} : n <= m
  BY <1>1, NatLeast
<1>3. PICK d \in D : wave[d] = n
  BY <1>2
<1>4. \A e \in Dependencies(d) : FALSE
  <2> SUFFICES ASSUME NEW e \in Dependencies(d) PROVE FALSE
    OBVIOUS
  <2>1. wave[d] \in Nat /\ wave[e] \in Nat /\ wave[e] < wave[d]
    BY WavesFinished
  <2>2. wave[d] <= wave[e]
    BY <1>2, <1>3
  <2> QED
    BY <2>1, <2>2
<1> QED
  BY <1>4 DEF Initial

(* What partition takes from graph_summary is complete for every graph and *)
(* every configuration: leaves hold exactly the checks that depend on no   *)
(* other, and every delayed check waits for one of them.                   *)
THEOREM CompleteFanOut == JobSpec => []FanOutComplete
<1>1. GraphInv /\ WaveInv /\ PlanPartitions => FanOutComplete
  <2> SUFFICES ASSUME GraphInv, WaveInv, PlanPartitions, stage = "summary"
               PROVE  /\ Initial # {}
                      /\ UNION {Leaf(s) : s \in Planned} = Initial
                      /\ \A c, d \in Initial :
                           c # d => graph.drv[c] \notin Ancestors(graph.drv[d])
                      /\ \A c \in Check \ Initial : Dependencies(c) \intersect Initial # {}
    BY DEF FanOutComplete
  <2>1. Initial # {}
    <3>1. \A d \in Check : Dependencies(d) \subseteq Check
      BY DEF Dependencies
    <3> QED
      BY <3>1, InventoryAssumption, SomeInitial
  <2>2. UNION {Leaf(s) : s \in Planned} = Initial
    <3>1. \A c \in Check : \E s \in Planned : c \in shards[s]
      BY DEF PlanPartitions, WaveInv
    <3>2. \A c \in Initial : \E s \in Planned : c \in Leaf(s)
      BY <3>1 DEF Leaf, Initial
    <3>3. \A s \in Planned : Leaf(s) \subseteq Initial
      BY DEF Leaf
    <3> QED
      BY <3>2, <3>3
  <2>3. ASSUME NEW c \in Initial, NEW d \in Initial, c # d
        PROVE  graph.drv[c] \notin Ancestors(graph.drv[d])
    <3>1. c \in Check /\ d \in Check /\ Dependencies(d) = {}
      BY DEF Initial
    <3>2. graph.drv[d] \in known
      BY <3>1, <2>3 DEF GraphInv, AllAsked
    <3>3. memo[graph.drv[d]] = Ancestors(graph.drv[d])
      BY <3>2, MemoExact
    <3> QED
      BY <3>1, <3>3, <2>3 DEF Dependencies
  <2>4. ASSUME NEW c \in Check \ Initial PROVE Dependencies(c) \intersect Initial # {}
    <3>1. Dependencies(c) # {} /\ Dependencies(c) \in SUBSET Check
      BY DEF Initial, Dependencies
    <3>2. \A d \in Dependencies(c) : Dependencies(d) \subseteq Dependencies(c)
      BY DependenciesTransitive
    <3> QED
      BY <3>1, <3>2, SomeInitial
  <2> QED
    BY <2>1, <2>2, <2>3, <2>4
<1> QED
  BY <1>1, WaveInvariance, JobPlanIsPartition, PTL

-----------------------------------------------------------------------------
(* The analysis terminates: the calls of ancestors() form a path without   *)
(* repetition, and dependency between checks is a strict partial order.    *)

(* Of the checks that wait for their wave, one with the fewest             *)
(* dependencies has none that waits.                                       *)
LEMMA SomeReady ==
  ASSUME GraphInv, stage = "waves", waved # Check, WaveInv
  PROVE  Ready # {}
<1> DEFINE W == Check \ waved
           F == {Cardinality(Dependencies(c)) : c \in W}
<1>1. W # {}
  BY DEF WaveInv
<1>2. \A c \in Check : /\ Dependencies(c) \subseteq Check /\ c \notin Dependencies(c)
                       /\ IsFiniteSet(Dependencies(c))
                       /\ Cardinality(Dependencies(c)) \in Nat
  <2> TAKE c \in Check
  <2>1. Dependencies(c) \subseteq Check /\ c \notin Dependencies(c)
    BY DEF Dependencies
  <2> QED
    BY <2>1, InventoryAssumption, FS_Subset, FS_CardinalityType
<1>3. F \in SUBSET Nat /\ F # {}
  BY <1>1, <1>2
<1> HIDE DEF F
<1>4. PICK n \in F : \A m \in F : n <= m
  BY <1>3, NatLeast
<1>5. PICK c \in W : Cardinality(Dependencies(c)) = n
  BY DEF F
<1>6. ASSUME NEW d \in Dependencies(c), d \notin waved PROVE FALSE
  <2>1. d \in W /\ Dependencies(d) \subseteq Dependencies(c) /\ d \notin Dependencies(d)
    BY <1>2, <1>5, <1>6, DependenciesTransitive
  <2>2. Dependencies(d) # Dependencies(c)
    BY <2>1
  <2>3. Cardinality(Dependencies(d)) < Cardinality(Dependencies(c))
    BY <1>2, <2>1, <2>2, <1>5, FS_Subset
  <2>4. Cardinality(Dependencies(d)) \in F
    BY <2>1 DEF F
  <2> QED
    BY <1>2, <1>4, <1>5, <2>1, <2>3, <2>4
<1> QED
  BY <1>5, <1>6 DEF Ready

(* The loop over the checks finds a next one, and so does the search for   *)
(* waves.                                                                  *)
AnalysisNeverStuck ==
  /\ stage = "search" /\ stack = << >> /\ Wanted # {} => \E c \in Wanted : IsLeast(c, Wanted)
  /\ stage = "waves" /\ waved # Check => \E c \in Ready : IsLeast(c, Ready)

(* Where the search over derivations raises nothing, the search for waves  *)
(* over checks does not either, also when checks share a derivation: some  *)
(* check is always ready until all have their wave.                        *)
THEOREM WavesNeverStuck == JobSpec => []AnalysisNeverStuck
<1>1. GraphInv /\ WaveInv => AnalysisNeverStuck
  <2> SUFFICES ASSUME GraphInv, WaveInv PROVE AnalysisNeverStuck
    OBVIOUS
  <2>1. Wanted \in SUBSET Nat /\ Ready \in SUBSET Nat
    BY InventoryAssumption DEF Wanted, Ready
  <2>2. \A S \in SUBSET Nat : S # {} => \E c \in S : IsLeast(c, S)
    BY NatLeast DEF IsLeast
  <2> QED
    BY <2>1, <2>2, SomeReady DEF AnalysisNeverStuck
<1> QED
  BY <1>1, WaveInvariance, PTL

(* An upper bound on the steps that the analysis has left: each derivation *)
(* is called and returned from once, each check gets its wave.             *)
SearchLeft == 2 * Cardinality(Node \ known) - Len(stack)

AnalysisLeft ==
  LET n == Cardinality(Check)
  IN CASE stage = "show"      -> 2 * Cardinality(Node) + n + 4
       [] stage = "normalize" -> 2 * Cardinality(Node) + n + 3
       [] stage = "search"    -> SearchLeft + n + 2
       [] stage = "waves"     -> Cardinality(Check \ waved) + 1
       [] OTHER               -> 0

(* The path of calls in progress visits derivations that are not finished. *)
LEMMA PathBounded ==
  ASSUME GraphInv, IsFiniteSet(Node)
  PROVE  /\ Len(stack) \in Nat /\ Cardinality(Node \ known) \in Nat
         /\ Len(stack) <= Cardinality(Node \ known)
         /\ Cardinality(Node \ known) <= Cardinality(Node) /\ Cardinality(Node) \in Nat
<1> DEFINE D == 1 .. Len(stack)
           R == Node \ known
           f == [i \in D |-> stack[i]]
<1>1. stack \in Seq(Node) /\ Len(stack) \in Nat
  BY DEF GraphInv, GraphTyped
<1>2. \A i \in D : stack[i] \in R
  BY <1>1 DEF GraphInv, StackIsPath
<1>3. \A i, j \in D : stack[i] = stack[j] => i = j
  BY <1>1 DEF GraphInv, StackIsPath
<1>4. f \in Injection(D, R)
  BY <1>2, <1>3 DEF Injection, IsInjective
<1>5. IsFiniteSet(D) /\ Cardinality(D) = Len(stack)
  BY <1>1, FS_Interval
<1>6. IsFiniteSet(R) /\ Cardinality(R) \in Nat /\ Cardinality(R) <= Cardinality(Node)
      /\ Cardinality(Node) \in Nat
  BY FS_Subset, FS_CardinalityType
<1> HIDE DEF f, D, R
<1>7. Cardinality(D) <= Cardinality(R)
  BY <1>4, <1>6, FS_Injection
<1> QED
  BY <1>1, <1>5, <1>6, <1>7 DEF R

LEMMA SearchProgress ==
  ASSUME GraphInv, IsFiniteSet(Node), CallAncestors \/ Descend \/ Return
  PROVE  /\ stage = "search" /\ SearchLeft \in Nat
         /\ stage' = "cyclic" \/ (stage' = "search" /\ SearchLeft' = SearchLeft - 1)
<1> DEFINE r == Cardinality(Node \ known)
<1>1. Len(stack) \in Nat /\ r \in Nat /\ Len(stack) <= r
  BY PathBounded
<1>2. stage = "search" /\ stack \in Seq(Node)
  BY DEF CallAncestors, Descend, Return, GraphInv, GraphTyped
<1>3. SearchLeft = 2 * r - Len(stack) /\ SearchLeft' = 2 * Cardinality(Node \ known') - Len(stack')
  BY DEF SearchLeft
<1>4. CASE CallAncestors
  <2>1. Len(stack) = 0 /\ Len(stack') = 1 /\ known' = known /\ stage' = "search"
    BY <1>4 DEF CallAncestors
  <2> HIDE DEF r
  <2> QED
    BY <1>1, <1>2, <1>3, <2>1 DEF r
<1>5. CASE Descend
  <2>1. PICK d \in graph.deps[Top] \ known :
          IF d \in Visiting THEN stage' = "cyclic" /\ UNCHANGED stack
                            ELSE stack' = Append(stack, d) /\ UNCHANGED stage
    BY <1>5 DEF Descend
  <2>2. known' = known /\ d \in Node
    BY <1>2, <1>5, TopOnStack DEF Descend
  <2>3. stage' = "cyclic" \/ (stage' = "search" /\ Len(stack') = Len(stack) + 1)
    BY <1>2, <2>1, <2>2
  <2>4. SearchLeft' = 2 * r - Len(stack')
    BY <1>3, <2>2
  <2> HIDE DEF r
  <2> QED
    BY <1>1, <1>2, <1>3, <2>3, <2>4
<1>6. CASE Return
  <2>1. /\ Top \in Node \ known /\ Len(stack) \in Nat \ {0}
        /\ known' = known \union {Top} /\ stage' = "search"
        /\ stack' = SubSeq(stack, 1, Len(stack) - 1)
    BY <1>2, <1>6, TopOnStack DEF Return
  <2>2. Len(stack') = Len(stack) - 1
    <3>1. Len(stack) - 1 \in 0 .. Len(stack)
      BY <2>1
    <3>2. Len(SubSeq(stack, 1, Len(stack) - 1)) = Len(stack) - 1
      BY <1>2, <3>1, Prefix
    <3> QED
      BY <2>1, <3>2
  <2>3. Node \ known' = (Node \ known) \ {Top} /\ Top \in Node \ known
    BY <2>1
  <2>4. IsFiniteSet(Node \ known)
    BY FS_Subset
  <2>5. Cardinality(Node \ known') = r - 1
    BY <2>3, <2>4, FS_RemoveElement
  <2> HIDE DEF r
  <2>6. SearchLeft' = 2 * (r - 1) - (Len(stack) - 1)
    BY <1>3, <2>2, <2>5
  <2>7. SearchLeft \in Nat /\ SearchLeft' = SearchLeft - 1
    BY <1>1, <1>3, <2>6
  <2> QED
    BY <1>2, <2>1, <2>7
<1> QED
  BY <1>4, <1>5, <1>6

(* The analysis of a finite graph terminates, cyclic or not: no derivation *)
(* is searched twice, and every step of graph_summary leaves fewer.        *)
THEOREM AnalysisTerminates ==
  ASSUME IsFiniteSet(Node)
  PROVE  JobSpec => /\ [](AnalysisLeft \in Nat)
                    /\ [][graphVars' # graphVars => AnalysisLeft' < AnalysisLeft]_jobVars
<1> DEFINE n == Cardinality(Check)
           N == Cardinality(Node)
<1>1. n \in Nat /\ N \in Nat
  BY InventoryAssumption, FS_CardinalityType
<1>2. ASSUME NEW T, T \subseteq Check
      PROVE  Cardinality(T) \in Nat /\ Cardinality(T) <= n /\ IsFiniteSet(T)
  BY <1>2, InventoryAssumption, FS_Subset, FS_CardinalityType
<1>3. ASSUME GraphInv, WaveInv
      PROVE  /\ AnalysisLeft \in Nat
             /\ stage = "show" => AnalysisLeft = 2 * N + n + 4
             /\ stage = "normalize" => AnalysisLeft = 2 * N + n + 3
             /\ stage = "search" => AnalysisLeft = SearchLeft + n + 2
             /\ stage = "waves" => AnalysisLeft = Cardinality(Check \ waved) + 1
  <2>1. Cardinality(Check \ waved) \in Nat
    BY <1>2
  <2>2. SearchLeft \in Nat
    <3> DEFINE r == Cardinality(Node \ known)
    <3>1. Len(stack) \in Nat /\ r \in Nat /\ Len(stack) <= r
      BY <1>3, PathBounded
    <3> HIDE DEF r
    <3>2. 2 * r - Len(stack) \in Nat
      BY <3>1
    <3> QED
      BY <3>2 DEF SearchLeft, r
  <2>3. stage \in Stage
    BY <1>3 DEF GraphInv, GraphTyped
  <2> HIDE DEF n, N
  <2> QED
    BY <1>1, <2>1, <2>2, <2>3 DEF AnalysisLeft, Stage, n, N
<1>4. ASSUME GraphInv, WaveInv, JobNext, graphVars' # graphVars
      PROVE  AnalysisLeft' < AnalysisLeft
  <2>1. /\ stage' = "normalize" => AnalysisLeft' = 2 * N + n + 3
        /\ stage' = "search" => AnalysisLeft' = SearchLeft' + n + 2
        /\ stage' = "waves" => AnalysisLeft' = Cardinality(Check \ waved') + 1
        /\ stage' \in {"invalid", "cyclic", "summary"} => AnalysisLeft' = 0
    <3> HIDE DEF n, N
    <3> QED
      BY DEF AnalysisLeft, n, N
  <2>2. CASE Show
    <3>1. stage = "show" /\ stage' = "normalize"
      BY <2>2 DEF Show
    <3> HIDE DEF n, N
    <3> QED
      BY <1>1, <1>3, <1>4, <2>1, <3>1
  <2>3. CASE Normalize
    <3>1. /\ stage = "normalize" /\ stage' \in {"search", "invalid"}
          /\ known' = known /\ stack' = stack
      BY <2>3 DEF Normalize
    <3> DEFINE r == Cardinality(Node \ known)
    <3>2. Len(stack) \in Nat /\ r \in Nat /\ r <= N
      BY <1>4, PathBounded
    <3>3. SearchLeft' = 2 * r - Len(stack)
      BY <3>1 DEF SearchLeft
    <3> HIDE DEF n, N, r
    <3> QED
      BY <1>1, <1>3, <1>4, <2>1, <3>1, <3>2, <3>3
  <2>4. CASE CallAncestors \/ Descend \/ Return
    <3>1. /\ stage = "search" /\ SearchLeft \in Nat
          /\ stage' = "cyclic" \/ (stage' = "search" /\ SearchLeft' = SearchLeft - 1)
      BY <1>4, <2>4, SearchProgress
    <3> HIDE DEF n, N
    <3> QED
      BY <1>1, <1>3, <1>4, <2>1, <3>1
  <2>5. CASE SearchEnds
    <3>1. stage = "search" /\ stage' = "waves" /\ waved' = waved
      BY <2>5 DEF SearchEnds
    <3>2. Cardinality(Check \ waved) \in Nat /\ Cardinality(Check \ waved) <= n
      BY <1>2
    <3> DEFINE r == Cardinality(Node \ known)
    <3>3. Len(stack) \in Nat /\ r \in Nat /\ Len(stack) <= r
      BY <1>4, PathBounded
    <3>4. SearchLeft = 2 * r - Len(stack)
      BY DEF SearchLeft
    <3> HIDE DEF n, N, r
    <3> QED
      BY <1>1, <1>3, <1>4, <2>1, <3>1, <3>2, <3>3, <3>4
  <2>6. CASE WaveReturns
    <3>1. PICK c \in Ready : waved' = waved \union {c}
      BY <2>6 DEF WaveReturns
    <3>2. stage = "waves" /\ stage' = "waves" /\ c \in Check \ waved
      BY <2>6 DEF WaveReturns, Ready
    <3>3. Check \ waved' = (Check \ waved) \ {c}
      BY <3>1
    <3>4. IsFiniteSet(Check \ waved) /\ Cardinality(Check \ waved) \in Nat
      BY <1>2
    <3>5. Cardinality(Check \ waved') = Cardinality(Check \ waved) - 1
      BY <3>2, <3>3, <3>4, FS_RemoveElement
    <3> HIDE DEF n, N
    <3> QED
      BY <1>1, <1>3, <1>4, <2>1, <3>2, <3>4, <3>5
  <2>7. CASE WavesEnd
    <3>1. stage = "waves" /\ stage' = "summary"
      BY <2>7 DEF WavesEnd
    <3>2. Cardinality(Check \ waved) \in Nat
      BY <1>2
    <3> HIDE DEF n, N
    <3> QED
      BY <1>1, <1>3, <1>4, <2>1, <3>1, <3>2
  <2>8. ~Summarised
    BY <1>4 DEF Summarised, jobVars
  <2> QED
    BY <1>4, <2>2, <2>3, <2>4, <2>5, <2>6, <2>7, <2>8 DEF JobNext, AnalyzeStep
<1>5. GraphInv /\ WaveInv /\ [JobNext]_jobVars
        => [graphVars' # graphVars => AnalysisLeft' < AnalysisLeft]_jobVars
  BY <1>4
<1>6. GraphInv /\ WaveInv => AnalysisLeft \in Nat
  BY <1>3
<1> QED
  BY <1>5, <1>6, WaveInvariance, PTL DEF JobSpec
=============================================================================
