------------------------------- MODULE RemoteRun -------------------------------
(***************************************************************************)
(* One run of the reusable workflow                                        *)
(* .github/workflows/flake-nix-builders.yml, over all its attempts:        *)
(*                                                                         *)
(*          +--> workers ------------------------------+                   *)
(*    plan -+                                          +--> acceptance     *)
(*          +--> coordinator --> tests (one per name) -+                   *)
(*                                                                         *)
(* The plan job evaluates the checks and the runnable test packages.  The  *)
(* coordinator finds the workers of its attempt, builds both through them  *)
(* (lib/flake-check-dag.py build, lib/flake-test-packages.py build), hands *)
(* the tests' outputs over in a store archive, and releases the workers.   *)
(* A test job imports the archive and runs one package.  The pool itself,  *)
(* with its clocks, is the subject of RemoteBuilders.  Machines, artifacts *)
(* and re-runs behave as in FlakeMatrix and StagedDag.                     *)
(***************************************************************************)
EXTENDS Naturals

CONSTANTS
  Worker,       \* the pool
  Test,         \* names of runnable packages
  Drv,          \* derivations of checks
  Out,          \* outputs of runnable packages
  CheckPlans,   \* sets of derivations the checks may evaluate to
  TestPlans,    \* functions from test names to outputs that Nix may evaluate
  MaxAttempt,   \* bound: attempts of the run
  None          \* absence of an artifact or file

ASSUME PlansAssumption ==
  /\ CheckPlans \subseteq (SUBSET Drv) \ {{}}
  /\ \A p \in TestPlans : /\ DOMAIN p \subseteq Test
                          /\ \A t \in DOMAIN p : p[t] \in Out
  /\ MaxAttempt \in Nat \ {0}

(* A plan artifact: plan.json with graph.json, and test-packages.json.  A  *)
(* plan stands for its digest.                                             *)
Plan == [checks : CheckPlans, tests : TestPlans]

(* Test evidence names its plan, the output and the status.                *)
TestEvidence == [tests : TestPlans, out : Out, pass : BOOLEAN]

ASSUME NamesAssumption ==
  /\ \A file \in (SUBSET Drv) \union Plan \union TestEvidence : file # None
  /\ Worker \cap Test = {}
  /\ (Worker \union Test) \cap {"plan", "coordinator", "acceptance"} = {}

VARIABLES
  attempt,     \* number of the current attempt of the run
  job,         \* status of each job, or how far its steps have come
  ranIn,       \* attempt in which workers and coordinator last ran
  released,    \* workers on whose machine the completion file is
  hosts,       \* hosts.json of the coordinator
  dagFile,     \* ci-result/ of the coordinator
  testFile,    \* ci-result/evidence.json of each test job
  planArt,     \* newest remote-nix-plan artifact
  dagArt,      \* newest remote-nix-evidence artifact
  closureArt,  \* outputs in the newest remote-test-closure artifact
  testArt,     \* newest runnable-test artifact of each test
  done         \* history: checks built and tests run for this commit

vars == <<attempt, job, ranIn, released, hosts, dagFile, testFile, planArt,
          dagArt, closureArt, testArt, done>>

pool      == <<ranIn, released, hosts>>
artifacts == <<planArt, dagArt, closureArt, testArt>>

Job       == Worker \union Test \union {"plan", "coordinator", "acceptance"}
Concluded == {"success", "failure", "cancelled", "skipped", "absent"}

(* The coordinator's steps; "broken" and "failing" lead to failure.        *)
Building  == {"searching", "configured", "checked", "tested", "exported"}
Releasing == {"verified", "broken"}
Leaving   == {"released", "failing"}
AtWork    == Building \union Releasing \union Leaving

Status == {"waiting", "serving", "ran"} \union AtWork \union Concluded

Checks     == planArt.checks
Planned    == DOMAIN planArt.tests
PlannedOut(t) == planArt.tests[t]

(* ci-result/ is missing, has only timing.json ({}), or evidence for all   *)
(* derivations of a plan.                                                  *)
DagFile  == {None} \union SUBSET Drv
TestFile == {None} \union TestEvidence

Init ==
  /\ attempt = 1
  /\ job = [j \in Job |-> "waiting"]
  /\ ranIn = [j \in Worker \union {"coordinator"} |-> 0]
  /\ released = {}
  /\ hosts = {}
  /\ dagFile = None
  /\ testFile = [t \in Test |-> None]
  /\ planArt = None
  /\ dagArt = None
  /\ closureArt = {}
  /\ testArt = [t \in Test |-> None]
  /\ done = {}

(* What the gate counts: checks that are built, and tests that are run.    *)
Items(checks, tests) == {<<"check", d>> : d \in checks} \union {<<"test", t>> : t \in tests}

Needs(j) == CASE j = "plan"       -> {}
              [] j \in Test       -> {"plan", "coordinator"}
              [] j = "acceptance" -> Job \ {"acceptance"}
              [] OTHER            -> {"plan"}

NeedsConcluded(j) == \A n \in Needs(j) : job[n] \in Concluded
NeedsSucceeded(j) == \A n \in Needs(j) : job[n] = "success"

MayStart(j) == job[j] = "waiting" /\ NeedsSucceeded(j)

Conclude(j, status) == job' = [job EXCEPT ![j] = status]

-----------------------------------------------------------------------------
(* The plan job.                                                           *)

(* The matrix of the test jobs is an output of this job.                   *)
PlanSucceeds(p) ==
  /\ MayStart("plan")
  /\ planArt' = p
  /\ job' = [j \in Job |-> IF j = "plan" THEN "success"
                           ELSE IF j \in Test \ DOMAIN p.tests THEN "absent" ELSE job[j]]
  /\ UNCHANGED <<attempt, pool, dagFile, testFile, dagArt, closureArt, testArt, done>>

PlanFails ==
  /\ MayStart("plan")
  /\ Conclude("plan", "failure")
  /\ planArt' \in Plan \union {planArt}   \* lost before or after the upload
  /\ UNCHANGED <<attempt, pool, dagFile, testFile, dagArt, closureArt, testArt, done>>

-----------------------------------------------------------------------------
(* Workers.  Their host names carry the attempt.  A worker that fails      *)
(* before it serves is lost at once.                                       *)

WorkerServes(w) ==
  /\ MayStart(w)
  /\ Conclude(w, "serving")
  /\ ranIn' = [ranIn EXCEPT ![w] = attempt]
  /\ released' = released \ {w}
  /\ UNCHANGED <<attempt, hosts, dagFile, testFile, artifacts, done>>

(* Mutant: the loop of hold ends in the same way when its time is up.      *)
HeldMutant(w) == "success"

(* hold: until the completion file appears, or time is up.                 *)
Held(w) == IF w \in released THEN "success" ELSE "failure"

HoldEnds(w) ==
  /\ job[w] = "serving"
  /\ Conclude(w, Held(w))
  /\ UNCHANGED <<attempt, pool, dagFile, testFile, artifacts, done>>

-----------------------------------------------------------------------------
(* The coordinator.                                                        *)

CoordinatorStarts ==
  /\ MayStart("coordinator")
  /\ Conclude("coordinator", "searching")
  /\ ranIn' = [ranIn EXCEPT !["coordinator"] = attempt]
  /\ hosts' = {}
  /\ dagFile' = None
  /\ UNCHANGED <<attempt, released, testFile, artifacts, done>>

(* Workers under the names discover looks for.                             *)
Named == {w \in Worker : ranIn[w] = attempt}

Probe(w) ==
  /\ job["coordinator"] = "searching"
  /\ w \in Named \ hosts /\ job[w] = "serving"
  /\ hosts' = hosts \union {w}
  /\ UNCHANGED <<attempt, job, ranIn, released, dagFile, testFile, artifacts, done>>

Discovered ==
  /\ job["coordinator"] = "searching"
  /\ hosts = Worker
  /\ Conclude("coordinator", "configured")
  /\ UNCHANGED <<attempt, pool, dagFile, testFile, artifacts, done>>

(* Peers that did not answer are in hosts.json all the same.               *)
DiscoverFails ==
  /\ job["coordinator"] = "searching"
  /\ \E seen \in SUBSET Named : hosts' = hosts \union seen
  /\ Conclude("coordinator", "broken")
  /\ UNCHANGED <<attempt, ranIn, released, dagFile, testFile, artifacts, done>>

(* Mutant: results are not compared with the planned derivations.          *)
SameChecksMutant(D) == TRUE

(* parse_nix_results: the results are those of the planned derivations.    *)
SameChecks(D) == D = Checks

(* flake-check-dag.py build: one `nix build` of what the checkout          *)
(* evaluates to now; evidence only if it succeeded for the plan.           *)
BuildChecks ==
  /\ job["coordinator"] = "configured"
  /\ \E now \in CheckPlans : \E D \in SUBSET now :
       /\ done' = done \union Items(D, {})
       /\ IF D = now /\ SameChecks(D)
            THEN Conclude("coordinator", "checked") /\ dagFile' = Checks
            ELSE Conclude("coordinator", "broken") /\ dagFile' = {}
  /\ UNCHANGED <<attempt, pool, testFile, artifacts>>

SameTests(now) == \A t \in Planned : t \in DOMAIN now /\ now[t] = PlannedOut(t)

(* flake-test-packages.py build, within the same command.                  *)
BuildTests ==
  /\ job["coordinator"] = "checked"
  /\ \/ /\ \E now \in TestPlans : SameTests(now)
        /\ Conclude("coordinator", "tested")
     \/ /\ Planned # {}
        /\ Conclude("coordinator", "broken")
  /\ UNCHANGED <<attempt, pool, dagFile, testFile, artifacts, done>>

(* Mutant: only the first package is exported.                             *)
RootsMutant == {PlannedOut(CHOOSE t \in Planned : TRUE)}

Roots == {PlannedOut(t) : t \in Planned}

(* Skipped without tests; verify_head, nix-store or the upload may fail.   *)
Export ==
  /\ job["coordinator"] = "tested"
  /\ \/ /\ Conclude("coordinator", "exported")
        /\ closureArt' = IF Planned = {} THEN closureArt ELSE Roots
     \/ /\ Planned # {}
        /\ Conclude("coordinator", "broken")
        /\ UNCHANGED closureArt
  /\ UNCHANGED <<attempt, pool, dagFile, testFile, planArt, dagArt, testArt, done>>

(* flake-check-dag.py verify: the evidence is of this plan, and complete.  *)
DagVerified(file) == file # None /\ file = Checks

(* Publication to a shared store follows; where it is wanted, it may fail. *)
VerifyAndPublish ==
  /\ job["coordinator"] = "exported"
  /\ \/ DagVerified(dagFile) /\ Conclude("coordinator", "verified")
     \/ Conclude("coordinator", "broken")
  /\ UNCHANGED <<attempt, pool, dagFile, testFile, artifacts, done>>

(* stop, `if: always()`: every host is tried; one that cannot be reached   *)
(* fails the job.                                                          *)
Release ==
  /\ job["coordinator"] \in Releasing
  /\ \E reached \in SUBSET {w \in hosts : job[w] = "serving"} :
       /\ released' = released \union reached
       /\ Conclude("coordinator",
            IF job["coordinator"] = "verified" /\ reached = hosts THEN "released" ELSE "failing")
  /\ UNCHANGED <<attempt, ranIn, hosts, dagFile, testFile, artifacts, done>>

(* The evidence upload, `if: always()`; nothing to upload is a warning.    *)
CoordinatorEnds ==
  /\ job["coordinator"] \in Leaving
  /\ \/ /\ dagArt' = IF dagFile = None THEN dagArt ELSE dagFile
        /\ Conclude("coordinator",
             IF job["coordinator"] = "released" THEN "success" ELSE "failure")
     \/ UNCHANGED dagArt /\ Conclude("coordinator", "failure")
  /\ UNCHANGED <<attempt, pool, dagFile, testFile, planArt, closureArt, testArt, done>>

-----------------------------------------------------------------------------
(* Test jobs.                                                              *)

Evidence(t, pass) == [tests |-> planArt.tests, out |-> PlannedOut(t), pass |-> pass]

(* flake-test-packages.py run, up to its `try`: the planned output must be *)
(* in the store, from the archive or from the restored cache.              *)
TestRefused(t) ==
  /\ MayStart(t)
  /\ testFile' = [testFile EXCEPT ![t] = None]
  /\ Conclude(t, "broken")
  /\ UNCHANGED <<attempt, pool, dagFile, artifacts, done>>

(* `nix run` evaluates the package again; offline and with no builder it   *)
(* runs only what is in the store.                                         *)
TestRuns(t) ==
  /\ MayStart(t) /\ closureArt # {}
  /\ \/ /\ \E now \in TestPlans : \E cached \in SUBSET Out :
             /\ PlannedOut(t) \in closureArt \union cached
             /\ t \in DOMAIN now /\ now[t] \in closureArt \union cached
        /\ testFile' = [testFile EXCEPT ![t] = Evidence(t, TRUE)]
        /\ done' = done \union Items({}, {t})
        /\ Conclude(t, "ran")
     \/ /\ testFile' = [testFile EXCEPT ![t] = Evidence(t, FALSE)]
        /\ Conclude(t, "broken")
        /\ UNCHANGED done
  /\ UNCHANGED <<attempt, pool, dagFile, artifacts>>

TestEnds(t) ==
  /\ job[t] \in {"ran", "broken"}
  /\ \/ /\ testArt' = [testArt EXCEPT ![t] = IF testFile[t] = None THEN @ ELSE testFile[t]]
        /\ Conclude(t, IF job[t] = "ran" THEN "success" ELSE "failure")
     \/ UNCHANGED testArt /\ Conclude(t, "failure")
  /\ UNCHANGED <<attempt, pool, dagFile, testFile, planArt, dagArt, closureArt, done>>

-----------------------------------------------------------------------------
(* The acceptance job, `if: always()`.                                     *)

TestsResultFine == \A t \in Test : job[t] = IF t \in Planned THEN "success" ELSE "absent"

ResultsFine ==
  /\ \A j \in Worker \union {"plan", "coordinator"} : job[j] = "success"
  /\ TestsResultFine

(* Downloaded only if there are tests; artifacts of earlier attempts count.*)
Received == IF Planned = {} THEN {} ELSE {t \in Test : testArt[t] # None}

TestsVerified ==
  /\ Received = Planned
  /\ \A t \in Planned : testArt[t] = Evidence(t, TRUE)

MayAccept == job["acceptance"] = "waiting" /\ NeedsConcluded("acceptance")

Accept ==
  /\ MayAccept
  /\ ResultsFine /\ DagVerified(dagArt) /\ TestsVerified
  /\ Conclude("acceptance", "success")
  /\ UNCHANGED <<attempt, pool, dagFile, testFile, artifacts, done>>

(* A test fails, or a step or the machine.                                 *)
Refuse ==
  /\ MayAccept
  /\ Conclude("acceptance", "failure")
  /\ UNCHANGED <<attempt, pool, dagFile, testFile, artifacts, done>>

-----------------------------------------------------------------------------
(* GitHub.                                                                 *)

Skip(j) ==
  /\ job[j] = "waiting" /\ j # "acceptance"
  /\ NeedsConcluded(j) /\ ~NeedsSucceeded(j)
  /\ Conclude(j, "skipped")
  /\ UNCHANGED <<attempt, pool, dagFile, testFile, artifacts, done>>

LoseRunner(j) ==
  /\ job[j] \notin {"waiting"} \union Concluded
  /\ Conclude(j, "failure")
  /\ UNCHANGED <<attempt, pool, dagFile, testFile, artifacts, done>>

(* Steps with always() still run in jobs that are being cancelled.         *)
Cancelled(j) ==
  CASE job[j] \in {"waiting", "serving"}     -> "cancelled"
    [] job[j] \in Building \union {"verified"} -> "broken"
    [] job[j] = "released"                   -> "failing"
    [] job[j] = "ran"                        -> "broken"
    [] OTHER                                 -> job[j]

Cancel ==
  /\ \E j \in Job \ {"acceptance"} : Cancelled(j) # job[j]
  /\ job' = [j \in Job |-> IF j = "acceptance" THEN job[j] ELSE Cancelled(j)]
  /\ UNCHANGED <<attempt, pool, dagFile, testFile, artifacts, done>>

Dependents(j) == CASE j = "plan"        -> Job
                   [] j = "coordinator" -> Test \union {j, "acceptance"}
                   [] OTHER             -> {j, "acceptance"}

Unsuccessful == {j \in Job : job[j] \in {"failure", "cancelled", "skipped"}}

Rerun ==
  /\ \A j \in Job : job[j] \in Concluded
  /\ attempt < MaxAttempt
  /\ attempt' = attempt + 1
  /\ \E chosen \in {{"plan"}, Unsuccessful} \union
                   {{j} : j \in {k \in Job : job[k] # "absent"}} :
       LET again == UNION {Dependents(j) : j \in chosen}
       IN /\ chosen # {}
          /\ job' = [j \in Job |->
               IF j \in again /\ (job[j] # "absent" \/ "plan" \in again)
                 THEN "waiting" ELSE job[j]]
  /\ UNCHANGED <<pool, dagFile, testFile, artifacts, done>>

-----------------------------------------------------------------------------
PlanStep      == (\E p \in Plan : PlanSucceeds(p)) \/ PlanFails
WorkerStep(w) == WorkerServes(w) \/ HoldEnds(w)
CoordinatorStep ==
  \/ CoordinatorStarts
  \/ \E w \in Worker : Probe(w)
  \/ Discovered \/ DiscoverFails
  \/ BuildChecks \/ BuildTests \/ Export \/ VerifyAndPublish
  \/ Release \/ CoordinatorEnds
TestStep(t)   == TestRefused(t) \/ TestRuns(t) \/ TestEnds(t)

Next ==
  \/ PlanStep
  \/ \E w \in Worker : WorkerStep(w)
  \/ CoordinatorStep
  \/ \E t \in Test : TestStep(t)
  \/ Accept \/ Refuse
  \/ \E j \in Job : Skip(j) \/ LoseRunner(j)
  \/ Cancel \/ Rerun

Spec == Init /\ [][Next]_vars

-----------------------------------------------------------------------------
(* Properties.                                                             *)

(* The types of the run's variables.                                       *)
TypeOK ==
  /\ attempt \in Nat
  /\ job \in [Job -> Status]
  /\ job["acceptance"] \in {"waiting", "success", "failure"}
  /\ ranIn \in [Worker \union {"coordinator"} -> Nat]
  /\ released \subseteq Worker
  /\ hosts \subseteq Worker
  /\ planArt \in Plan \union {None}
  /\ dagFile \in DagFile
  /\ dagArt \in DagFile
  /\ testFile \in [Test -> TestFile]
  /\ testArt \in [Test -> TestFile]
  /\ closureArt \subseteq Out
  /\ done \subseteq Items(Drv, Test)

(* A run is accepted only on a pool that worked together: every worker ran *)
(* in the attempt of the coordinator whose build counts, whatever was run  *)
(* again (worker_name, discover, hold, and the results that acceptance     *)
(* compares).                                                              *)
PoolOfOneAttempt ==
  job["acceptance"] = "success" => \A w \in Worker : ranIn[w] = ranIn["coordinator"]

(* What one job leaves the next one needs: a test that may start finds its *)
(* output in the archive, and a run whose jobs all succeeded has evidence  *)
(* that verifies -- provided no earlier attempt left evidence of a test    *)
(* that the newest plan does not have.                                     *)
HandoverComplete ==
  /\ \A t \in Test : MayStart(t) => PlannedOut(t) \in closureArt
  /\ MayAccept /\ ResultsFine /\ Received \subseteq Planned
       => DagVerified(dagArt) /\ TestsVerified

-----------------------------------------------------------------------------
(* Refinement: the run seen through its acceptance job.                    *)

Verdict == CASE job["acceptance"] = "success" -> "green"
             [] job["acceptance"] = "failure" -> "red"
             [] OTHER -> "open"

InventoryInForce == IF planArt = None THEN {} ELSE Items(Checks, Planned)

Gate == INSTANCE ExactHeadGate WITH
          Drv         <- Items(Drv, Test),
          Inventories <- {Items(p.checks, DOMAIN p.tests) : p \in Plan},
          verdict     <- Verdict,
          inventory   <- InventoryInForce,
          built       <- done

(* The remote run implements the abstract exact-head gate: it turns green  *)
(* only when each planned check was built and each planned test was run    *)
(* with success for this commit.                                           *)
ImplementsGate == Gate!Spec
=============================================================================
