------------------------------ MODULE StagedDag ------------------------------
(***************************************************************************)
(* One run of the reusable workflow .github/workflows/flake-dag-staged.yml *)
(* and the commands of lib/flake-dag-stages.py its jobs execute:           *)
(*                                                                         *)
(*   plan  --->  shared  --->  leaf (one job per shard)  --->  join        *)
(*                                                                         *)
(* Checks that depend on no other check fan out over the leaves.  A leaf   *)
(* hands what it built to the join job in a store archive that leaves out  *)
(* the closure of the shared outputs; the join job imports the archives    *)
(* over its own copy of the shared outputs and builds the dependent checks *)
(* in one Nix invocation.  Machines, artifacts and re-runs behave as in    *)
(* FlakeMatrix.  What a cache restore brings is arbitrary here: the shared *)
(* job publishes its outputs on top of the trusted remote store, so it may *)
(* hold the outputs of checks as well.                                     *)
(***************************************************************************)
EXTENDS Naturals

CONSTANTS
  Shard,       \* shard ids
  Check,       \* check names
  Drv,         \* derivations of checks; also stands for their outputs
  Path,        \* store paths of shared outputs
  Target,      \* installables of prebuildTargets
  Plans,       \* the plans the planner can emit for this commit
  Inputs,      \* derivation -> check derivations and shared paths it needs
  MaxAttempt,  \* bound: attempts of the run
  None         \* absence of an artifact or of evidence

Item == Drv \union Path

PlanShape ==
  [digest : Nat, checks : [Check -> Drv \union {None}],
   shards : [Shard -> SUBSET Check], targets : SUBSET Target,
   outputs : [Target -> Path]]   \* what this evaluation's targets realise to

Names(p)         == {c \in Check : p.checks[c] # None}
DrvsOf(p, names) == {p.checks[c] : c \in names}

ASSUME PlansAssumption ==
  /\ Plans \subseteq PlanShape
  /\ None \notin Drv /\ None \notin Plans
  /\ Drv \intersect Path = {}
  /\ \A p \in Plans :
       /\ Names(p) # {}
       /\ Names(p) = UNION {p.shards[s] : s \in Shard}
       /\ \A s, t \in Shard : s # t => p.shards[s] \intersect p.shards[t] = {}
  /\ \A p, q \in Plans : p.digest = q.digest => p = q

(* graph_summary refuses cyclic graphs; Inputs is transitively closed, as  *)
(* its ancestors() are.                                                    *)
ASSUME InputsAssumption ==
  /\ Inputs \in [Drv -> SUBSET Item]
  /\ \A d \in Drv : d \notin Inputs[d]
  /\ \A d \in Drv : \A e \in Inputs[d] \intersect Drv : Inputs[e] \subseteq Inputs[d]

ASSUME AttemptAssumption == MaxAttempt \in Nat \ {0}

ASSUME JobsDistinct == Shard \cap {"plan", "shared", "join"} = {}

-----------------------------------------------------------------------------
(* graph_summary and partition.                                            *)

(* checkDependencies: other checks whose derivation is an ancestor.        *)
Dependencies(p, c) ==
  {d \in Names(p) \ {c} : p.checks[d] \in Inputs[p.checks[c]]}

Initial(p) == {c \in Names(p) : Dependencies(p, c) = {}}
Delayed(p) == Names(p) \ Initial(p)

(* Mutant: delayed checks stay in their shards.                            *)
LeafChecksMutant(p, s) == p.shards[s]

LeafChecks(p, s) == p.shards[s] \intersect Initial(p)
Leaves(p)        == {s \in Shard : LeafChecks(p, s) # {}}

(* Evidence of a leaf: its plan, with its stages, and its checks realised. *)
EvidenceOf(p, s) ==
  [digest |-> p.digest, checks |-> {<<c, p.checks[c]>> : c \in LeafChecks(p, s)}]

Evidence == {EvidenceOf(p, s) : p \in Plans, s \in Shard}

ASSUME NoneAssumption == None \notin Evidence

(* Runtime closure of realised outputs (at most their build inputs).       *)
Closure(drvs) == drvs \union UNION {Inputs[d] : d \in drvs}

-----------------------------------------------------------------------------
VARIABLES
  attempt,    \* number of the current attempt of the run
  job,        \* status of each job, or how far its steps have come
  store,      \* items in the Nix store of a job's machine
  files,      \* dag-leaf/ on each leaf's machine
  planArt,    \* newest nix-dag-plan artifact
  sharedArt,  \* newest nix-dag-shared artifact
  leafArt,    \* newest dag-leaf-<id> artifact of each leaf
  built,      \* history: derivations realised (built or found) for this commit
  builtBy     \* history: those each machine built, in the latest run of its job

vars == <<attempt, job, store, files, planArt, sharedArt, leafArt, built, builtBy>>

artifacts == <<planArt, sharedArt, leafArt>>

Job       == Shard \union {"plan", "shared", "join"}
Machine   == Shard \union {"join"}   \* those that build checks
Phase     == {"restored", "checked", "built", "imported", "joined", "broken"}
Concluded == {"success", "failure", "cancelled", "skipped", "absent"}
Status    == {"waiting"} \union Phase \union Concluded

(* evidence.json and store.nar; either may be missing (None).              *)
LeafFiles == [evidence : Evidence \union {None}, archive : (SUBSET Item) \union {None}]

SharedEvidence == [digest : Nat, targets : SUBSET Target, outputs : SUBSET Path]

NoFiles == [evidence |-> None, archive |-> None]

TypeOK ==
  /\ attempt \in 1 .. MaxAttempt
  /\ job \in [Job -> Status]
  /\ store \in [Machine -> SUBSET Item]
  /\ files \in [Shard -> LeafFiles]
  /\ planArt \in Plans \union {None}
  /\ sharedArt \in SharedEvidence \union {None}
  /\ leafArt \in [Shard -> LeafFiles]
  /\ built \subseteq Drv
  /\ builtBy \in [Machine -> SUBSET Drv]

Init ==
  /\ attempt = 1
  /\ job = [j \in Job |-> "waiting"]
  /\ store = [j \in Machine |-> {}]
  /\ files = [s \in Shard |-> NoFiles]
  /\ planArt = None
  /\ sharedArt = None
  /\ leafArt = [s \in Shard |-> NoFiles]
  /\ built = {}
  /\ builtBy = [j \in Machine |-> {}]

Needs(j) == CASE j = "plan"   -> {}
              [] j = "shared" -> {"plan"}
              [] j = "join"   -> Job \ {"join"}
              [] OTHER        -> {"plan", "shared"}

NeedsConcluded(j) == \A n \in Needs(j) : job[n] \in Concluded
NeedsSucceeded(j) == \A n \in Needs(j) : job[n] \in {"success", "absent"}

Conclude(j, status) == job' = [job EXCEPT ![j] = status]

-----------------------------------------------------------------------------
(* plan: the plan, its dependency graph (from the cache or generated, the  *)
(* same either way) and the stages are one artifact.                       *)
PlanSucceeds(p) ==
  /\ job["plan"] = "waiting"
  /\ planArt' = p
  /\ job' = [j \in Job |-> CASE j = "plan" -> "success"
                             [] j \in Shard \ Leaves(p) -> "absent"
                             [] OTHER -> job[j]]
  /\ UNCHANGED <<attempt, store, files, sharedArt, leafArt, built, builtBy>>

PlanFails ==
  /\ job["plan"] = "waiting"
  /\ Conclude("plan", "failure")
  /\ planArt' \in {planArt} \union Plans
  /\ UNCHANGED <<attempt, store, files, sharedArt, leafArt, built, builtBy>>

(* shared: prebuild_command and its upload; w is what the machine's own    *)
(* evaluation makes of the targets.                                        *)
SharedBuild ==
  /\ job["shared"] = "waiting"
  /\ NeedsSucceeded("shared")
  /\ \/ /\ \E w \in Plans :
             sharedArt' = [digest |-> planArt.digest, targets |-> planArt.targets,
                           outputs |-> {w.outputs[t] : t \in planArt.targets}]
        /\ \/ Conclude("shared", "success")
           \/ Conclude("shared", "failure")
     \/ /\ Conclude("shared", "failure")
        /\ UNCHANGED sharedArt
  /\ UNCHANGED <<attempt, store, files, planArt, leafArt, built, builtBy>>

-----------------------------------------------------------------------------
(* Steps that the leaves and the join job have in common.                  *)

(* A restored store has the closure of whatever is in it.                  *)
Closed(items) == \A d \in items \intersect Drv : Inputs[d] \subseteq items

(* Check out, download the artifacts, restore the cache read-only.         *)
Restore(j) ==
  /\ job[j] = "waiting"
  /\ planArt # None /\ sharedArt # None
  /\ \E items \in SUBSET Item :
        Closed(items) /\ store' = [store EXCEPT ![j] = items]
  /\ files' = IF j \in Shard THEN [files EXCEPT ![j] = NoFiles] ELSE files
  /\ builtBy' = [builtBy EXCEPT ![j] = {}]
  /\ Conclude(j, "restored")
  /\ UNCHANGED <<attempt, artifacts, built>>

SharedMatches ==
  sharedArt.digest = planArt.digest /\ sharedArt.targets = planArt.targets

LocallyComplete(j) == sharedArt.outputs \subseteq store[j]

(* prebuild_local_command.                                                 *)
RequireLocal(j) ==
  /\ job[j] = "restored"
  /\ IF SharedMatches /\ LocallyComplete(j)
       THEN Conclude(j, "checked")
       ELSE Conclude(j, "failure")
  /\ UNCHANGED <<attempt, store, files, artifacts, built, builtBy>>

(* Derivations this machine evaluates for some checks of the plan.         *)
Evaluated(w, names) == DrvsOf(w, names \intersect Names(w))

(* Mutant: results for other derivations than planned are accepted.        *)
AllRealisedMutant(w, names, done) ==
  names \subseteq Names(w) /\ done = Evaluated(w, names)

(* build_selected, parse_nix_results: the build succeeded and realised     *)
(* exactly the planned derivations.                                        *)
AllRealised(w, names, done) ==
  /\ names \subseteq Names(w)
  /\ done = Evaluated(w, names)
  /\ done = DrvsOf(planArt, names)

(* Check derivations that Nix runs a builder for, to realise some others:  *)
(* they and the inputs that the store does not have.                       *)
Run(done, present) == (Closure(done) \intersect Drv) \ present

Records(j, done) ==
  /\ built' = built \union done
  /\ builtBy' = [builtBy EXCEPT ![j] = Run(done, store[j])]

-----------------------------------------------------------------------------
(* leaf_command.                                                           *)

(* Mutant: the closure of the shared outputs is all that is exported.      *)
ExportedMutant(drvs) == Closure(drvs) \intersect sharedArt.outputs

(* export_incremental_archive: the closure of the leaf's outputs without   *)
(* the closure of the shared ones.                                         *)
Exported(drvs) == Closure(drvs) \ sharedArt.outputs

(* Build the leaf's checks, export them, save the evidence.  A failed      *)
(* build leaves no file behind; an interrupted export leaves no evidence.  *)
LeafBuild(s) ==
  /\ job[s] = "checked"
  /\ \E w \in Plans :
       LET names == LeafChecks(planArt, s)
       IN \E done \in SUBSET Evaluated(w, names) :
            /\ Records(s, done)
            /\ IF AllRealised(w, names, done)
                 THEN \E e \in {EvidenceOf(planArt, s), None} :
                        files' = [files EXCEPT ![s] =
                                    [evidence |-> e, archive |-> Exported(done)]]
                 ELSE UNCHANGED files
            /\ store' = [store EXCEPT ![s] = @ \union Closure(done)]
  /\ Conclude(s, "built")
  /\ UNCHANGED <<attempt, artifacts>>

(* The always() upload: it fails when there is nothing to upload.          *)
LeafUpload(s) ==
  /\ job[s] = "built"
  /\ \/ /\ files[s] # NoFiles
        /\ leafArt' = [leafArt EXCEPT ![s] = files[s]]
        /\ \/ files[s].evidence # None /\ Conclude(s, "success")
           \/ Conclude(s, "failure")
     \/ /\ Conclude(s, "failure")
        /\ UNCHANGED leafArt
  /\ UNCHANGED <<attempt, store, files, planArt, sharedArt, built, builtBy>>

-----------------------------------------------------------------------------
(* The join job, the gate of this backend.                                 *)

Predecessors == \A j \in Job \ {"join"} : job[j] \in {"success", "absent"}

(* The first step tests the predecessors, in spite of `if: always()`.      *)
JoinRefuses ==
  /\ job["join"] = "waiting"
  /\ NeedsConcluded("join")
  /\ Conclude("join", "failure")
  /\ UNCHANGED <<attempt, store, files, artifacts, built, builtBy>>

JoinStarts == NeedsConcluded("join") /\ Predecessors /\ Restore("join")

Handed == {s \in Shard : leafArt[s].evidence # None}

(* verify_leaf.                                                            *)
LeafVerified(s) == leafArt[s].evidence = EvidenceOf(planArt, s)

(* The evidence files are counted, then verified one by one.               *)
EvidenceComplete ==
  /\ Handed = Leaves(planArt)
  /\ \A s \in Handed : LeafVerified(s)

Archives == UNION {leafArt[s].archive : s \in Handed}

(* nix-store --import accepts a path only with all its references.         *)
Importable ==
  \A d \in Archives \intersect Drv :
    Inputs[d] \intersect Path \subseteq store["join"] \union Archives

(* `nix path-info --offline` knows every output the leaves handed over.    *)
OutputsPresent(present) ==
  DrvsOf(planArt, Initial(planArt)) \subseteq present

JoinImport ==
  /\ job["join"] = "checked"
  /\ IF EvidenceComplete /\ Importable
        /\ OutputsPresent(store["join"] \union Archives)
       THEN /\ store' = [store EXCEPT !["join"] = @ \union Archives]
            /\ Conclude("join", "imported")
       ELSE Conclude("join", "failure") /\ UNCHANGED store
  /\ UNCHANGED <<attempt, files, artifacts, built, builtBy>>

FinalChecks == Delayed(planArt)

(* Build the dependent checks and write the joined evidence.               *)
JoinBuild ==
  /\ job["join"] = "imported"
  /\ \E w \in Plans :
       \E done \in SUBSET Evaluated(w, FinalChecks) :
         /\ Records("join", done)
         /\ Conclude("join", IF /\ AllRealised(w, FinalChecks, done)
                                /\ Initial(planArt) \union FinalChecks = Names(planArt)
                              THEN "joined" ELSE "broken")
  /\ UNCHANGED <<attempt, store, files, artifacts>>

(* The evidence gate and the upload.                                       *)
JoinGate ==
  /\ \/ job["join"] = "joined" /\ Conclude("join", "success")
     \/ job["join"] \in {"joined", "broken"} /\ Conclude("join", "failure")
  /\ UNCHANGED <<attempt, store, files, artifacts, built, builtBy>>

-----------------------------------------------------------------------------
(* The service that runs the workflow (see FlakeMatrix).                   *)

Skip(j) ==
  /\ job[j] = "waiting"
  /\ j # "join"
  /\ NeedsConcluded(j) /\ ~NeedsSucceeded(j)
  /\ Conclude(j, "skipped")
  /\ UNCHANGED <<attempt, store, files, artifacts, built, builtBy>>

LoseRunner(j) ==
  /\ job[j] \in Phase
  /\ Conclude(j, "failure")
  /\ UNCHANGED <<attempt, store, files, artifacts, built, builtBy>>

(* Leaves that have files upload them while they are being cancelled.      *)
Cancel ==
  /\ \E j \in Job \ {"join"} : job[j] \notin Concluded
  /\ job' = [j \in Job |-> IF j # "join" /\ job[j] \notin Concluded
                             THEN "cancelled" ELSE job[j]]
  /\ \E U \in SUBSET {s \in Shard : job[s] = "built" /\ files[s] # NoFiles} :
       leafArt' = [s \in Shard |-> IF s \in U THEN files[s] ELSE leafArt[s]]
  /\ UNCHANGED <<attempt, store, files, planArt, sharedArt, built, builtBy>>

Dependents(j) == CASE j = "plan"   -> Job
                   [] j = "shared" -> Job \ {"plan"}
                   [] OTHER        -> {j, "join"}

Unsuccessful == {j \in Job : job[j] \in {"failure", "cancelled", "skipped"}}

(* Machines do not outlive their jobs.                                     *)
Rerun ==
  /\ \A j \in Job : job[j] \in Concluded
  /\ attempt < MaxAttempt
  /\ attempt' = attempt + 1
  /\ \E chosen \in {{"plan"}, Unsuccessful} \union
                   {{j} : j \in {k \in Job : job[k] # "absent"}} :
       LET again == UNION {Dependents(j) : j \in chosen}
       IN /\ chosen # {}
          /\ job' = [j \in Job |->
               IF j \in again /\ (job[j] # "absent" \/ "plan" \in again)
                 THEN "waiting" ELSE job[j]]
  /\ store' = [j \in Machine |-> {}]
  /\ files' = [s \in Shard |-> NoFiles]
  /\ UNCHANGED <<artifacts, built, builtBy>>

-----------------------------------------------------------------------------
PlanStep    == (\E p \in Plans : PlanSucceeds(p)) \/ PlanFails
LeafStep(s) == (NeedsSucceeded(s) /\ Restore(s)) \/ RequireLocal(s) \/ LeafBuild(s) \/ LeafUpload(s)
JoinStep    == JoinRefuses \/ JoinStarts \/ RequireLocal("join") \/ JoinImport
               \/ JoinBuild \/ JoinGate

Next ==
  \/ PlanStep
  \/ SharedBuild
  \/ \E s \in Shard : LeafStep(s)
  \/ JoinStep
  \/ \E j \in Job : Skip(j) \/ LoseRunner(j)
  \/ Cancel \/ Rerun

Spec == Init /\ [][Next]_vars

-----------------------------------------------------------------------------
(* Properties.                                                             *)

(* The handover never blocks a good run: once all leaves succeeded and the *)
(* shared outputs are local, every archive can be imported over them and   *)
(* completes the join's store -- provided no earlier attempt left evidence *)
(* of a leaf that the newest plan does not have.                           *)
HandoverComplete ==
  /\ job["join"] = "checked"
  /\ Handed \subseteq Leaves(planArt)
  => EvidenceComplete /\ Importable /\ OutputsPresent(store["join"] \union Archives)

(* "Every check runs exactly once": no check that shares its derivation    *)
(* with no other is built by two machines, in the runs a green gate rests  *)
(* on, whatever their stores held before.  (That it was realised at all is *)
(* part of ImplementsGate; one that every store held is built by none.)    *)
BuiltOnce ==
  job["join"] = "success" =>
    \A c \in Names(planArt) :
      (\A d \in Names(planArt) \ {c} : planArt.checks[d] # planArt.checks[c]) =>
        \A j, k \in Leaves(planArt) \union {"join"} :
          planArt.checks[c] \in builtBy[j] \intersect builtBy[k] => j = k

-----------------------------------------------------------------------------
(* Refinement: the run seen through its join job.                          *)

Verdict == CASE job["join"] = "success" -> "green"
             [] job["join"] \in {"failure", "cancelled"} -> "red"
             [] OTHER -> "open"

Gate == INSTANCE ExactHeadGate WITH
          Inventories <- {DrvsOf(p, Names(p)) : p \in Plans},
          verdict     <- Verdict,
          inventory   <- IF planArt = None THEN {} ELSE DrvsOf(planArt, Names(planArt))

(* The staged run implements the abstract exact-head gate.                 *)
ImplementsGate == Gate!Spec
=============================================================================
