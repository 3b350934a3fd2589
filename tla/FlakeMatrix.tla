----------------------------- MODULE FlakeMatrix -----------------------------
(***************************************************************************)
(* One run of the reusable workflow .github/workflows/flake-checks.yml and *)
(* the commands of lib/flake-check-plan.py its jobs execute:               *)
(*                                                                         *)
(*   plan  --->  prebuild  --->  shard (one job per shard)  --->  result   *)
(*                                                                         *)
(* Jobs run on separate machines and share only the artifacts of the run   *)
(* (the newest one of each name) and one entry of the Actions cache.  A    *)
(* machine can be lost between any two steps, the cache entry can be       *)
(* evicted or written by somebody else, the run can be cancelled, and once *)
(* it has ended any part of it can be run again.                           *)
(***************************************************************************)
EXTENDS Naturals

CONSTANTS
  Shard,       \* shard ids a plan may use ("shard-00", ...)
  Check,       \* check names
  Drv,         \* derivations
  Target,      \* shared outputs named by prebuildTargets
  Plans,       \* the plans the planner can emit for this commit
  MaxAttempt,  \* bound: attempts of the run
  None         \* absence of an artifact, a file or a cache entry

(* An unlocked input lets two evaluations of one commit differ, so Plans   *)
(* may have several elements.  lib/flake-check-plan.py:159-172 makes every *)
(* plan's shards partition its checks, and its digest identify the plan.   *)
PlanShape ==
  [digest : Nat, checks : [Check -> Drv \union {None}],
   shards : [Shard -> SUBSET Check], targets : SUBSET Target]

(* The checks of a plan, and the shards it lists (empty ones are dropped). *)
Names(p)  == {c \in Check : p.checks[c] # None}
Listed(p) == {s \in Shard : p.shards[s] # {}}

DrvsOf(p, names) == {p.checks[c] : c \in names}

ASSUME PlansAssumption ==
  /\ Plans \subseteq PlanShape
  /\ None \notin Drv /\ None \notin Plans
  /\ \A p \in Plans :
       /\ Names(p) # {}
       /\ Names(p) = UNION {p.shards[s] : s \in Shard}
  /\ \A p, q \in Plans : p.digest = q.digest => p = q

ASSUME AttemptAssumption == MaxAttempt \in Nat \ {0}

ASSUME JobsDistinct == Shard \cap {"plan", "prebuild", "result"} = {}

VARIABLES
  attempt,      \* number of the current attempt of the run
  job,          \* status of each job, or how far its steps have come
  store,        \* shared outputs in the Nix store of a job's machine
  hit,          \* the cache writer restored the entry of its exact key
  file,         \* ci-evidence/evidence.json on each shard's machine
  planArt,      \* newest flake-check-plan artifact
  prebuildArt,  \* newest flake-prebuild-evidence artifact
  shardArt,     \* newest flake-shard-<id> artifact of each shard
  cache,        \* outputs archived under this commit's cache key, or None
  built,        \* history: derivations realised (built or found) for this commit
  ran           \* history: attempt in which each shard job last started

vars == <<attempt, job, store, hit, file, planArt, prebuildArt, shardArt,
          cache, built, ran>>

artifacts == <<planArt, prebuildArt, shardArt>>

Job == Shard \union {"plan", "prebuild", "result"}

Phase     == {"restored", "checked", "built", "uploaded"}
Concluded == {"success", "failure", "cancelled", "skipped", "absent"}
Status    == {"waiting"} \union Phase \union Concluded

Evidence == [digest : Nat, status : {"pass", "failed"},
             checks : SUBSET (Check \X Drv), by : 1 .. MaxAttempt]

PrebuildEvidence == [digest : Nat, outputs : SUBSET Target]

ASSUME NoneAssumption == None \notin Evidence

TypeOK ==
  /\ attempt \in 1 .. MaxAttempt
  /\ job \in [Job -> Status]
  /\ store \in [Shard \union {"prebuild"} -> SUBSET Target]
  /\ hit \in BOOLEAN
  /\ file \in [Shard -> Evidence \union {None}]
  /\ planArt \in Plans \union {None}
  /\ prebuildArt \in PrebuildEvidence \union {None}
  /\ shardArt \in [Shard -> Evidence \union {None}]
  /\ cache \in (SUBSET Target) \union {None}
  /\ built \subseteq Drv
  /\ ran \in [Shard -> 0 .. MaxAttempt]

Init ==
  /\ attempt = 1
  /\ job = [j \in Job |-> "waiting"]
  /\ store = [j \in Shard \union {"prebuild"} |-> {}]
  /\ hit = FALSE
  /\ file = [s \in Shard |-> None]
  /\ planArt = None
  /\ prebuildArt = None
  /\ shardArt = [s \in Shard |-> None]
  /\ cache \in {None} \union SUBSET Target
  /\ built = {}
  /\ ran = [s \in Shard |-> 0]

Needs(j) == CASE j = "plan"     -> {}
              [] j = "prebuild" -> {"plan"}
              [] j = "result"   -> Job \ {"result"}
              [] OTHER          -> {"plan", "prebuild"}

NeedsConcluded(j) == \A n \in Needs(j) : job[n] \in Concluded
NeedsSucceeded(j) == \A n \in Needs(j) : job[n] = "success"

Conclude(j, status) == job' = [job EXCEPT ![j] = status]

-----------------------------------------------------------------------------
(* The plan job.                                                           *)

(* plan_command and its upload.  The matrix output expands the shard jobs. *)
PlanSucceeds(p) ==
  /\ job["plan"] = "waiting"
  /\ planArt' = p
  /\ job' = [j \in Job |-> CASE j = "plan" -> "success"
                             [] j \in Shard \ Listed(p) -> "absent"
                             [] OTHER -> job[j]]
  /\ UNCHANGED <<attempt, store, hit, file, prebuildArt, shardArt, cache,
                 built, ran>>

(* An invalid configuration, a lost machine, or a failure after the upload. *)
PlanFails ==
  /\ job["plan"] = "waiting"
  /\ Conclude("plan", "failure")
  /\ planArt' \in {planArt} \union Plans
  /\ UNCHANGED <<attempt, store, hit, file, prebuildArt, shardArt, cache,
                 built, ran>>

-----------------------------------------------------------------------------
(* The Actions cache.                                                      *)

(* What a restore can bring: the entry of the exact key, else an older     *)
(* snapshot under one of the prefixes, else nothing.                       *)
Restorable == IF cache # None THEN {cache, {}} ELSE SUBSET Target

(* The service evicts the entry ... *)
Evict ==
  /\ cache # None
  /\ cache' = None
  /\ UNCHANGED <<attempt, job, store, hit, file, artifacts, built, ran>>

(* ... or another workflow of the repository, whose configuration yields   *)
(* the same key, stores an archive without our targets first.              *)
ForeignSave ==
  /\ cache = None
  /\ cache' \in SUBSET Target
  /\ UNCHANGED <<attempt, job, store, hit, file, artifacts, built, ran>>

-----------------------------------------------------------------------------
(* The prebuild job, the only writer of the cache in this run.             *)

PrebuildRestore ==
  /\ job["prebuild"] = "waiting"
  /\ NeedsSucceeded("prebuild")
  /\ \E outputs \in Restorable :
       /\ store' = [store EXCEPT !["prebuild"] = outputs]
       /\ hit' = (cache # None /\ outputs = cache)
  /\ Conclude("prebuild", "restored")
  /\ UNCHANGED <<attempt, file, artifacts, cache, built, ran>>

(* prebuild_command: one nix build of every target, all of them rooted.    *)
PrebuildBuild ==
  /\ job["prebuild"] = "restored"
  /\ \/ /\ store' = [store EXCEPT !["prebuild"] = @ \union planArt.targets]
        /\ Conclude("prebuild", "built")
     \/ /\ Conclude("prebuild", "failure")
        /\ UNCHANGED store
  /\ UNCHANGED <<attempt, hit, file, artifacts, cache, built, ran>>

PrebuildUpload ==
  /\ job["prebuild"] = "built"
  /\ prebuildArt' = [digest |-> planArt.digest, outputs |-> planArt.targets]
  /\ Conclude("prebuild", "uploaded")
  /\ UNCHANGED <<attempt, store, hit, file, planArt, shardArt, cache, built,
                 ran>>

(* Mutant: the build keeps no garbage-collector roots.                     *)
RootedMutant == {}

(* Outputs the collector may not delete before the archive is taken: the   *)
(* out-links and the roots directory hold every declared output.           *)
Rooted == planArt.targets

(* The action's post step collects garbage and stores the archive, unless  *)
(* the exact key was restored or exists by now.                            *)
PrebuildSave ==
  /\ job["prebuild"] = "uploaded"
  /\ Conclude("prebuild", "success")
  /\ \/ /\ ~hit /\ cache = None
        /\ \E kept \in SUBSET store["prebuild"] :
             /\ Rooted \intersect store["prebuild"] \subseteq kept
             /\ cache' = kept
     \/ UNCHANGED cache
  /\ UNCHANGED <<attempt, store, hit, file, artifacts, built, ran>>

-----------------------------------------------------------------------------
(* The shard jobs; fail-fast is off, so they do not influence each other.  *)

(* Download the plan and restore the cache read-only.                      *)
ShardRestore(s) ==
  /\ job[s] = "waiting"
  /\ NeedsSucceeded(s)
  /\ \E outputs \in Restorable : store' = [store EXCEPT ![s] = outputs]
  /\ file' = [file EXCEPT ![s] = None]
  /\ ran' = [ran EXCEPT ![s] = attempt]
  /\ Conclude(s, "restored")
  /\ UNCHANGED <<attempt, hit, artifacts, cache, built>>

PrebuildMatches ==
  /\ prebuildArt.digest = planArt.digest
  /\ prebuildArt.outputs = planArt.targets

(* Mutant: the evidence is trusted without looking into the store.         *)
LocallyCompleteMutant(s) == TRUE

(* Every declared output is a valid path of this machine's store.          *)
LocallyComplete(s) == prebuildArt.outputs \subseteq store[s]

(* prebuild_local_command: the evidence is this plan's, and every declared *)
(* output is in the local store.  On failure no evidence file exists, so   *)
(* the always() upload of the job fails as well.                           *)
RequireLocal(s) ==
  /\ job[s] = "restored"
  /\ IF PrebuildMatches /\ LocallyComplete(s)
       THEN Conclude(s, "checked")
       ELSE Conclude(s, "failure")
  /\ UNCHANGED <<attempt, store, hit, file, artifacts, cache, built, ran>>

(* Mutant: evidence starts out as a pass.                                  *)
FailedEvidenceMutant ==
  [digest |-> planArt.digest, status |-> "pass", checks |-> {},
   by |-> attempt]

FailedEvidence ==
  [digest |-> planArt.digest, status |-> "failed", checks |-> {},
   by |-> attempt]

PassEvidence(s) ==
  [digest |-> planArt.digest, status |-> "pass",
   checks |-> {<<c, planArt.checks[c]>> : c \in planArt.shards[s]},
   by |-> attempt]

(* The derivations this machine evaluates for the checks of its shard.     *)
Evaluated(w, s) == DrvsOf(w, planArt.shards[s] \intersect Names(w))

(* Mutant: the exit status of nix build is ignored.                        *)
AllRealisedMutant(w, s, done) ==
  /\ planArt.shards[s] \subseteq Names(w)
  /\ Evaluated(w, s) = DrvsOf(planArt, planArt.shards[s])

(* nix build succeeded and reported exactly the planned derivations.       *)
AllRealised(w, s, done) ==
  /\ planArt.shards[s] \subseteq Names(w)
  /\ done = Evaluated(w, s)
  /\ done = DrvsOf(planArt, planArt.shards[s])

(* build_command: one nix build of the shard's checks, as this machine     *)
(* evaluates them (as in w); done is what Nix realises.  Whether it fails  *)
(* or reports other derivations than planned, evidence is written.         *)
ShardBuild(s) ==
  /\ job[s] = "checked"
  /\ \E w \in Plans :
       \E done \in SUBSET Evaluated(w, s) :
         /\ built' = built \union done
         /\ file' = [file EXCEPT ![s] = IF AllRealised(w, s, done)
                                         THEN PassEvidence(s)
                                         ELSE FailedEvidence]
  /\ Conclude(s, "built")
  /\ UNCHANGED <<attempt, store, hit, artifacts, cache, ran>>

(* Upload the evidence whatever its status; the upload, or a step after    *)
(* it, can still fail the job.                                             *)
ShardUpload(s) ==
  /\ job[s] = "built"
  /\ \/ /\ shardArt' = [shardArt EXCEPT ![s] = file[s]]
        /\ \/ file[s].status = "pass" /\ Conclude(s, "success")
           \/ Conclude(s, "failure")
     \/ /\ Conclude(s, "failure")
        /\ UNCHANGED shardArt
  /\ UNCHANGED <<attempt, store, hit, file, planArt, prebuildArt, cache,
                 built, ran>>

-----------------------------------------------------------------------------
(* The result job, the check that branch protection requires.              *)

(* Mutant: evidence is expected of every configured shard.                 *)
VerifyMutant ==
  /\ {s \in Shard : shardArt[s] # None} = Shard
  /\ PrebuildMatches
  /\ \A s \in Listed(planArt) :
       /\ shardArt[s].digest = planArt.digest
       /\ shardArt[s].status = "pass"

(* verify_command over the newest artifacts.                               *)
Verify ==
  /\ {s \in Shard : shardArt[s] # None} = Listed(planArt)
  /\ PrebuildMatches
  /\ \A s \in Listed(planArt) :
       /\ shardArt[s].digest = planArt.digest
       /\ shardArt[s].status = "pass"
       /\ shardArt[s].checks =
            {<<c, planArt.checks[c]>> : c \in planArt.shards[s]}

(* Mutant: the conclusions of the shard jobs are not tested.               *)
JobsSucceededMutant ==
  \A j \in {"plan", "prebuild"} : job[j] \in {"success", "absent"}

(* PLAN_STATUS, BUILD_STATUS and SHARD_STATUS are all `success`.           *)
JobsSucceeded ==
  \A j \in Job \ {"result"} : job[j] \in {"success", "absent"}

(* Mutant: the job starts only after successes.                            *)
ResultMayStartMutant == NeedsSucceeded("result")

(* Its `if: always()` starts it whatever its needs concluded with.         *)
ResultMayStart == NeedsConcluded("result")

ResultPasses ==
  /\ job["result"] = "waiting"
  /\ ResultMayStart
  /\ planArt # None /\ prebuildArt # None
  /\ JobsSucceeded
  /\ Verify
  /\ Conclude("result", "success")
  /\ UNCHANGED <<attempt, store, hit, file, artifacts, cache, built, ran>>

(* A test or the verification failed, or the machine was lost.             *)
ResultFails ==
  /\ job["result"] = "waiting"
  /\ ResultMayStart
  /\ Conclude("result", "failure")
  /\ UNCHANGED <<attempt, store, hit, file, artifacts, cache, built, ran>>

-----------------------------------------------------------------------------
(* The service that runs the workflow.                                     *)

(* Mutant: the result job has no `if: always()`.                           *)
SkippedByMutant(j) == NeedsConcluded(j) /\ ~NeedsSucceeded(j)

(* A job without its own `if` is skipped when one of its needs failed.     *)
SkippedBy(j) ==
  /\ j # "result"
  /\ NeedsConcluded(j)
  /\ ~NeedsSucceeded(j)

Skip(j) ==
  /\ job[j] = "waiting"
  /\ SkippedBy(j)
  /\ Conclude(j, "skipped")
  /\ UNCHANGED <<attempt, store, hit, file, artifacts, cache, built, ran>>

(* The machine of a job is lost between two of its steps.                  *)
LoseRunner(j) ==
  /\ job[j] \in Phase
  /\ Conclude(j, "failure")
  /\ UNCHANGED <<attempt, store, hit, file, artifacts, cache, built, ran>>

(* The run is cancelled (by a user or its concurrency group).  Shards that *)
(* hold an evidence file still upload it; one interrupted in its build     *)
(* writes failed evidence first.  The result job still runs.               *)
Cancel ==
  /\ \E j \in Job \ {"result"} : job[j] \notin Concluded
  /\ job' = [j \in Job |-> IF j # "result" /\ job[j] \notin Concluded
                             THEN "cancelled" ELSE job[j]]
  /\ \E U \in SUBSET {s \in Shard : job[s] \in {"checked", "built"}} :
       shardArt' = [s \in Shard |->
         IF s \notin U THEN shardArt[s]
         ELSE IF job[s] = "built" THEN file[s] ELSE FailedEvidence]
  /\ UNCHANGED <<attempt, store, hit, file, planArt, prebuildArt, cache,
                 built, ran>>

Ended == \A j \in Job : job[j] \in Concluded

(* Jobs that need j, directly or through others.                           *)
Dependents(j) == CASE j = "plan"     -> Job
                   [] j = "prebuild" -> Job \ {"plan"}
                   [] OTHER          -> {j, "result"}

Unsuccessful == {j \in Job : job[j] \in {"failure", "cancelled", "skipped"}}

(* "Re-run all jobs", "re-run failed jobs" or the re-run of one job; the   *)
(* chosen jobs run again with the jobs that depend on them, every other    *)
(* job keeps its conclusion and its artifacts.                             *)
Rerun ==
  /\ Ended
  /\ attempt < MaxAttempt
  /\ attempt' = attempt + 1
  /\ \E chosen \in {{"plan"}, Unsuccessful} \union
                   {{j} : j \in {k \in Job : job[k] # "absent"}} :
       LET again == UNION {Dependents(j) : j \in chosen}
       IN /\ chosen # {}
          /\ job' = [j \in Job |->
               IF j \in again /\ (job[j] # "absent" \/ "plan" \in again)
                 THEN "waiting" ELSE job[j]]
  /\ UNCHANGED <<store, hit, file, artifacts, cache, built, ran>>

-----------------------------------------------------------------------------
PlanStep     == (\E p \in Plans : PlanSucceeds(p)) \/ PlanFails
PrebuildStep == PrebuildRestore \/ PrebuildBuild \/ PrebuildUpload
                \/ PrebuildSave
ShardStep(s) == ShardRestore(s) \/ RequireLocal(s) \/ ShardBuild(s)
                \/ ShardUpload(s)
ResultStep   == ResultPasses \/ ResultFails

Next ==
  \/ PlanStep
  \/ PrebuildStep
  \/ \E s \in Shard : ShardStep(s)
  \/ ResultStep
  \/ \E j \in Job : Skip(j) \/ LoseRunner(j)
  \/ Cancel \/ Evict \/ ForeignSave \/ Rerun

(* GitHub schedules every job whose needs allow it and carries its steps   *)
(* on; nothing obliges it to evict, to cancel or to run anything again.    *)
Fairness ==
  /\ WF_vars(PlanStep)
  /\ WF_vars(PrebuildStep)
  /\ \A s \in Shard : WF_vars(ShardStep(s))
  /\ WF_vars(ResultStep)
  /\ \A j \in Job : WF_vars(Skip(j))

Spec     == Init /\ [][Next]_vars
FairSpec == Spec /\ Fairness

-----------------------------------------------------------------------------
(* Properties.                                                             *)

(* Branch protection lets a skipped required check pass like a green one.  *)
Accepted == job["result"] \in {"success", "skipped"}

(* Passing evidence never lies: the derivations its plan assigns to the    *)
(* shard were all built, whichever attempt uploaded it and however often   *)
(* the plan was evaluated again since (build_command, evidence status).    *)
Truthful(e, s) ==
  e # None /\ e.status = "pass" =>
    \A p \in Plans : p.digest = e.digest => DrvsOf(p, p.shards[s]) \subseteq built

EvidenceTruthful ==
  \A s \in Shard : Truthful(shardArt[s], s) /\ Truthful(file[s], s)

(* The merge gate: once the required check passes, every check of the      *)
(* inventory in force has been built, in spite of lost machines, re-runs   *)
(* and evaluations that differ (result job, verify_command).               *)
GateSound ==
  Accepted => planArt \in Plans /\ DrvsOf(planArt, Names(planArt)) \subseteq built

(* A green gate rests on the evidence of each shard's most recent run, not *)
(* on a pass that an older attempt left behind while the newest run of the *)
(* shard failed (the status tests before verify_command).                  *)
NewestEvidence ==
  Accepted => \A s \in Listed(planArt) : shardArt[s].by = ran[s]

(* No false alarm: when every job succeeded, verification does not reject  *)
(* their evidence -- provided no earlier attempt uploaded evidence for a   *)
(* shard that the newest plan no longer lists.                             *)
NoFalseRed ==
  /\ JobsSucceeded
  /\ \A s \in Shard \ Listed(planArt) : shardArt[s] = None
  => Verify

(* A shard compiles only with every shared output of its plan in its own   *)
(* store, even if the entry was evicted or somebody else wrote it after    *)
(* the prebuild job succeeded (prebuild_local_command).                    *)
SharedOutputsLocal ==
  \A s \in Shard : job[s] \in {"checked", "built"} =>
                     planArt.targets \subseteq store[s]

(* An archive this run stores holds every shared output: the collector     *)
(* that runs before the archive is taken spares them (prebuild_command's   *)
(* out-links and roots directory).                                         *)
ArchiveComplete ==
  [][job["prebuild"] = "uploaded" /\ job'["prebuild"] = "success"
     /\ cache' # cache => planArt.targets \subseteq cache']_vars

(* Every attempt is decided: whatever fails, is lost or is cancelled, the  *)
(* required check concludes (`if: always()` of the result job).            *)
EveryAttemptDecided ==
  \A a \in 1 .. MaxAttempt :
    (attempt = a) ~> (job["result"] \in Concluded)

-----------------------------------------------------------------------------
(* Refinement: the run seen through its required check.                    *)

Verdict == CASE Accepted -> "green"
             [] job["result"] \in {"failure", "cancelled"} -> "red"
             [] OTHER -> "open"

InventoryInForce == IF planArt = None THEN {} ELSE DrvsOf(planArt, Names(planArt))

Gate == INSTANCE ExactHeadGate WITH
          Inventories <- {DrvsOf(p, Names(p)) : p \in Plans},
          verdict     <- Verdict,
          inventory   <- InventoryInForce

(* The matrix run implements the abstract exact-head gate.                 *)
ImplementsGate == Gate!Spec
=============================================================================
