--------------------------- MODULE RemoteRunProofs ---------------------------
(***************************************************************************)
(* For every pool, every set of checks and runnable packages, any set of   *)
(* differing evaluations and any number of attempts: the types of          *)
(* RemoteRun, the pool that worked together, the completeness of what one  *)
(* job leaves the next, and the refinement of ExactHeadGate.               *)
(***************************************************************************)
EXTENDS RemoteRun, TLAPS

Working == {"serving", "ran"} \union AtWork

(* The plan job and the coordinator have no steps of other jobs.  Only     *)
(* jobs with a plan are at work, and none has left the start while the     *)
(* plan job waits.  Tests of the matrix are those of the plan.             *)
PlanFirst ==
  /\ job["plan"] \in {"waiting", "success", "failure", "cancelled"}
  /\ job["coordinator"] \notin {"serving", "ran"}
  /\ job["plan"] = "waiting" => \A j \in Job : job[j] = "waiting"
  /\ job["plan"] = "success" => planArt \in Plan
  /\ \A j \in Job : job[j] \in Working => job["plan"] = "success"
  /\ job["plan"] = "success" => \A t \in Test : job[t] # "absent" => t \in Planned

(* Acceptance starts last.                                                 *)
AcceptanceLast ==
  job["acceptance"] # "waiting" => \A j \in Job : job[j] \in Concluded

(* Progress of the coordinator past which all workers were found, its      *)
(* checks are in evidence, and its outputs are in the archive.             *)
Found    == {"configured", "checked", "tested", "exported", "verified", "released", "success"}
Evident  == {"checked", "tested", "exported", "verified", "released"}
Archived == {"exported", "verified", "released", "success"}

(* A working coordinator found workers of its own attempt only; a success  *)
(* implies that no worker was older; and a worker is released, or succeeds *)
(* thereby, for a coordinator that is not older.                           *)
PoolJoined ==
  /\ \A j \in Worker \union {"coordinator"} : ranIn[j] <= attempt
  /\ job["coordinator"] \in AtWork =>
       /\ ranIn["coordinator"] = attempt
       /\ \A w \in hosts : ranIn[w] = attempt
  /\ job["coordinator"] \in Found => \A w \in Worker : ranIn["coordinator"] <= ranIn[w]
  /\ \A w \in Worker :
       w \in released \/ job[w] = "success" => ranIn[w] <= ranIn["coordinator"]
  /\ PoolOfOneAttempt

(* What the jobs hand over belongs to the plan in force.                   *)
HandedOver ==
  /\ job["coordinator"] \in Evident => dagFile = Checks
  /\ job["plan"] = "success" /\ job["coordinator"] = "success" => dagArt = Checks
  /\ job["plan"] = "success" /\ job["coordinator"] \in Archived => Roots \subseteq closureArt
  /\ \A t \in Test : job[t] = "ran" => testFile[t] = Evidence(t, TRUE)
  /\ \A t \in Test : job["plan"] = "success" /\ job[t] = "success" =>
                       testArt[t] = Evidence(t, TRUE)

ChecksTruthful(f) == f # None => Items(f, {}) \subseteq done
TestTruthful(f, t) == f # None /\ f.pass => <<"test", t>> \in done

(* Evidence names only what was built or run.                              *)
EvidenceTruthful ==
  /\ ChecksTruthful(dagFile) /\ ChecksTruthful(dagArt)
  /\ \A t \in Test : TestTruthful(testFile[t], t) /\ TestTruthful(testArt[t], t)

IInv == TypeOK /\ PlanFirst /\ AcceptanceLast /\ PoolJoined /\ HandedOver /\ EvidenceTruthful

-----------------------------------------------------------------------------
(***************************************************************************)
(* What the steps of several jobs have in common.                          *)
(***************************************************************************)

(* Workers, tests and the three named jobs are different jobs.             *)
LEMMA DistinctJobs ==
  /\ "plan" \in Job /\ "coordinator" \in Job /\ "acceptance" \in Job
  /\ \A w \in Worker : /\ w \in Job /\ w \notin Test
                       /\ w # "plan" /\ w # "coordinator" /\ w # "acceptance"
  /\ \A t \in Test : /\ t \in Job /\ t \notin Worker
                     /\ t # "plan" /\ t # "coordinator" /\ t # "acceptance"
BY NamesAssumption DEF Job

(* The evaluations a plan may hold.                                        *)
LEMMA PlanFacts ==
  ASSUME NEW p \in Plan
  PROVE  /\ p.checks \in CheckPlans /\ p.checks \subseteq Drv
         /\ p.tests \in TestPlans /\ DOMAIN p.tests \subseteq Test
         /\ \A t \in DOMAIN p.tests : p.tests[t] \in Out
         /\ p # None
BY PlansAssumption, NamesAssumption DEF Plan

LEMMA InitIInv == Init => IInv
<1> SUFFICES ASSUME Init PROVE IInv
  OBVIOUS
<1>1. TypeOK
  BY DistinctJobs DEF Init, TypeOK, Status, DagFile, TestFile
<1>2. PlanFirst /\ AcceptanceLast
  BY DEF Init, PlanFirst, AcceptanceLast, Job, Working, AtWork, Building, Releasing, Leaving
<1>3. PoolJoined
  BY DistinctJobs DEF Init, PoolJoined, PoolOfOneAttempt, AtWork, Building, Releasing, Leaving,
                      Found
<1>4. HandedOver /\ EvidenceTruthful
  BY DistinctJobs DEF Init, HandedOver, EvidenceTruthful, ChecksTruthful, TestTruthful, Evident,
                      Archived
<1> QED
  BY <1>1, <1>2, <1>3, <1>4 DEF IInv

(* A step of one job other than plan and acceptance.                       *)
LEMMA JobMoves ==
  ASSUME IInv, NEW j \in Job \ {"plan", "acceptance"}, NEW status \in Status \ {"waiting", "absent"},
         job[j] \notin Concluded, job["plan"] # "waiting",
         Conclude(j, status), status \in Working => job["plan"] = "success",
         j = "coordinator" => status \notin {"serving", "ran"},
         UNCHANGED planArt
  PROVE  /\ job' \in [Job -> Status]
         /\ PlanFirst' /\ AcceptanceLast'
         /\ job'["plan"] = job["plan"]
         /\ job["acceptance"] = "waiting" /\ job'["acceptance"] = "waiting"
         /\ job'[j] = status
         /\ \A k \in Job \ {j} : job'[k] = job[k]
<1>1. /\ job' \in [Job -> Status]
      /\ job'[j] = status
      /\ \A k \in Job \ {j} : job'[k] = job[k]
  BY DEF Conclude, IInv, TypeOK
<1>2. job["acceptance"] = "waiting"
  BY DEF IInv, AcceptanceLast
<1>3. AcceptanceLast'
  BY <1>1, <1>2, DistinctJobs DEF AcceptanceLast
<1>4. PlanFirst'
  <2>1. job'["plan"] = job["plan"]
    BY <1>1, DistinctJobs
  <2>2. \A k \in Job : job'[k] \in Working => job'["plan"] = "success"
    BY <1>1, <2>1 DEF IInv, PlanFirst
  <2>3. job'["plan"] = "success" => \A t \in Test : job'[t] # "absent" => t \in Planned'
    <3>1. \A t \in Test : job'[t] # "absent" => job[t] # "absent"
      BY <1>1, DistinctJobs DEF Concluded
    <3> QED
      BY <2>1, <3>1 DEF IInv, PlanFirst, Planned
  <2>4. job'["coordinator"] \notin {"serving", "ran"}
    BY <1>1, DistinctJobs DEF IInv, PlanFirst
  <2> QED
    BY <2>1, <2>2, <2>3, <2>4 DEF IInv, PlanFirst
<1> QED
  BY <1>1, <1>2, <1>3, <1>4, DistinctJobs

(* Steps that leave the pool alone and bring no job further in it.         *)
LEMMA PoolKept ==
  ASSUME IInv, UNCHANGED pool,
         attempt' \in Nat, attempt <= attempt',
         job'["coordinator"] \in AtWork => job["coordinator"] \in AtWork /\ UNCHANGED attempt,
         job'["coordinator"] \in Found => job["coordinator"] \in Found,
         \A w \in Worker : job'[w] = "success" => job[w] = "success",
         job'["acceptance"] = "success" => job["acceptance"] = "success"
  PROVE  PoolJoined'
<1>1. UNCHANGED <<ranIn, released, hosts>>
  BY DEF pool
<1>2. \A j \in Worker \union {"coordinator"} : ranIn'[j] <= attempt'
  BY <1>1 DEF IInv, TypeOK, PoolJoined
<1> QED
  BY <1>1, <1>2 DEF IInv, PoolJoined, PoolOfOneAttempt

(* Steps that leave files and artifacts alone and complete no job.         *)
LEMMA HandoverKept ==
  ASSUME IInv, UNCHANGED <<planArt, dagFile, dagArt, closureArt, testFile, testArt>>,
         job'["plan"] = "success" => job["plan"] = "success",
         job'["coordinator"] \in Evident => job["coordinator"] \in Evident,
         job'["coordinator"] \in Archived => job["coordinator"] \in Archived,
         job'["coordinator"] = "success" => job["coordinator"] = "success",
         \A t \in Test : job'[t] \in {"ran", "success"} => job'[t] = job[t]
  PROVE  HandedOver'
BY DEF IInv, HandedOver, Checks, Roots, Planned, PlannedOut, Evidence

LEMMA TruthKept ==
  ASSUME EvidenceTruthful, UNCHANGED <<dagFile, dagArt, testFile, testArt>>, done \subseteq done'
  PROVE  EvidenceTruthful'
BY DEF EvidenceTruthful, ChecksTruthful, TestTruthful, Items

-----------------------------------------------------------------------------
(***************************************************************************)
(* Every step preserves the invariant: one lemma per kind of step.         *)
(***************************************************************************)

LEMMA PlanStepInv == IInv /\ PlanStep => IInv'
<1> SUFFICES ASSUME IInv, PlanStep PROVE IInv'
  OBVIOUS
<1>1. /\ job["plan"] = "waiting"
      /\ job'["plan"] \in {"success", "failure"}
      /\ job' \in [Job -> Status]
      /\ \A j \in Job \ ({"plan"} \union Test) : job'[j] = "waiting"
      /\ \A t \in Test : job'[t] \in {"waiting", "absent"}
      /\ planArt' \in Plan \union {planArt}
      /\ job'["plan"] = "success" =>
           /\ planArt' \in Plan
           /\ \A t \in Test : job'[t] # "absent" => t \in DOMAIN planArt'.tests
      /\ UNCHANGED <<attempt, ranIn, released, hosts, dagFile, testFile, dagArt,
                     closureArt, testArt, done>>
  <2>1. job["plan"] = "waiting" /\ \A j \in Job : job[j] = "waiting"
    BY DEF PlanStep, PlanSucceeds, PlanFails, MayStart, IInv, PlanFirst
  <2>2. CASE PlanFails
    BY <2>1, <2>2, DistinctJobs DEF PlanFails, Conclude, IInv, TypeOK, Status, Concluded, pool
  <2>3. ASSUME NEW p \in Plan, PlanSucceeds(p) PROVE <1>1!:
    <3>1. /\ planArt' = p
          /\ job' = [j \in Job |-> IF j = "plan" THEN "success"
                       ELSE IF j \in Test \ DOMAIN p.tests THEN "absent" ELSE job[j]]
          /\ UNCHANGED <<attempt, ranIn, released, hosts, dagFile, testFile, dagArt,
                         closureArt, testArt, done>>
      BY <2>3 DEF PlanSucceeds, pool
    <3>2. \A j \in Job : job'[j] = IF j = "plan" THEN "success"
                       ELSE IF j \in Test \ DOMAIN p.tests THEN "absent" ELSE "waiting"
      BY <2>1, <3>1
    <3>3. job' \in [Job -> Status]
      BY <3>1, <3>2 DEF Status, Concluded
    <3>4. job'["plan"] = "success" /\ \A j \in Job \ ({"plan"} \union Test) : job'[j] = "waiting"
      BY <3>2, DistinctJobs
    <3>5. \A t \in Test : job'[t] = IF t \in DOMAIN p.tests THEN "waiting" ELSE "absent"
      BY <3>2, DistinctJobs
    <3> QED
      BY <2>1, <3>1, <3>3, <3>4, <3>5
  <2> QED
    BY <2>2, <2>3 DEF PlanStep
<1>2. TypeOK'
  BY <1>1, DistinctJobs DEF IInv, TypeOK
<1>3. \A j \in Job \ {"plan"} : job'[j] \in {"waiting", "absent"}
  BY <1>1
<1>4. PlanFirst'
  <2>1. \A j \in Job : job'[j] \notin Working
    BY <1>1, <1>3 DEF Working, AtWork, Building, Releasing, Leaving
  <2> QED
    BY <1>1, <1>3, <2>1, DistinctJobs DEF PlanFirst, Planned
<1>5. AcceptanceLast'
  BY <1>1, DistinctJobs DEF AcceptanceLast
<1>6. PoolJoined'
  BY <1>1, DistinctJobs DEF PoolJoined, PoolOfOneAttempt, IInv, AtWork, Building, Releasing,
                            Leaving, Found
<1>7. HandedOver'
  BY <1>1, DistinctJobs DEF HandedOver, Evident, Archived
<1>8. EvidenceTruthful'
  BY <1>1, TruthKept DEF IInv
<1> QED
  BY <1>2, <1>4, <1>5, <1>6, <1>7, <1>8 DEF IInv

LEMMA WorkerStepInv ==
  ASSUME NEW w \in Worker
  PROVE  IInv /\ WorkerStep(w) => IInv'
<1> SUFFICES ASSUME IInv, WorkerStep(w) PROVE IInv'
  OBVIOUS
<1>1. /\ w \in Job \ {"plan", "acceptance"} /\ w # "coordinator" /\ w \notin Test
      /\ \A t \in Test : t \in Job \ {w}
      /\ "coordinator" \in Job \ {w}
  BY DistinctJobs
<1>2. job["plan"] = "success"
  BY <1>1 DEF WorkerStep, WorkerServes, HoldEnds, MayStart, NeedsSucceeded, Needs, IInv,
              PlanFirst, Working
<1>3. PICK status \in {"serving", Held(w)} :
        /\ Conclude(w, status)
        /\ status = "success" => job[w] = "serving" /\ w \in released
        /\ status = "serving" => WorkerServes(w)
        /\ status # "serving" => HoldEnds(w)
  BY DEF WorkerStep, WorkerServes, HoldEnds, Held
<1>4. /\ UNCHANGED <<attempt, hosts, dagFile, testFile, planArt, dagArt, closureArt, testArt, done>>
      /\ job[w] \notin Concluded
  BY DEF WorkerStep, WorkerServes, HoldEnds, MayStart, Concluded, artifacts, pool
<1>5. status \in Status \ {"waiting", "absent"}
  BY <1>3 DEF Held, Status, Concluded
<1>6. /\ job' \in [Job -> Status]
      /\ PlanFirst' /\ AcceptanceLast'
      /\ job["acceptance"] = "waiting" /\ job'["acceptance"] = "waiting"
      /\ job'[w] = status
      /\ \A k \in Job \ {w} : job'[k] = job[k]
      /\ job'["plan"] = job["plan"]
  BY <1>1, <1>2, <1>3, <1>4, <1>5, JobMoves
<1>7. CASE status = "serving"
  <2>1. /\ ranIn' = [ranIn EXCEPT ![w] = attempt]
        /\ released' = released \ {w}
    BY <1>3, <1>7 DEF WorkerServes
  <2>2. TypeOK'
    BY <1>4, <1>6, <2>1 DEF IInv, TypeOK
  <2>3. /\ ranIn'["coordinator"] = ranIn["coordinator"]
        /\ ranIn'[w] = attempt
        /\ \A k \in Worker \ {w} : ranIn'[k] = ranIn[k]
    BY <1>1, <2>1 DEF IInv, TypeOK
  <2>4. PoolJoined'
    <3>1. \A j \in Worker \union {"coordinator"} : ranIn'[j] <= attempt'
      BY <1>4, <2>3 DEF IInv, TypeOK, PoolJoined
    <3>2. job'["coordinator"] \in AtWork =>
            ranIn'["coordinator"] = attempt' /\ \A k \in hosts' : ranIn'[k] = attempt'
      BY <1>1, <1>4, <1>6, <2>3 DEF IInv, TypeOK, PoolJoined
    <3>3. job'["coordinator"] \in Found =>
            \A k \in Worker : ranIn'["coordinator"] <= ranIn'[k]
      BY <1>1, <1>4, <1>6, <2>3 DEF IInv, PoolJoined
    <3>4. \A k \in Worker : k \in released' \/ job'[k] = "success" =>
                              ranIn'[k] <= ranIn'["coordinator"]
      BY <1>6, <1>7, <2>1, <2>3, DistinctJobs DEF IInv, PoolJoined
    <3> QED
      BY <1>6, <3>1, <3>2, <3>3, <3>4 DEF PoolJoined, PoolOfOneAttempt
  <2>5. HandedOver' /\ EvidenceTruthful'
    BY <1>1, <1>4, <1>6, HandoverKept, TruthKept DEF IInv
  <2> QED
    BY <1>6, <2>2, <2>4, <2>5 DEF IInv
<1>8. CASE status # "serving"
  <2>1. UNCHANGED <<ranIn, released>>
    BY <1>3, <1>8 DEF HoldEnds, pool
  <2>2. TypeOK'
    BY <1>4, <1>6, <2>1 DEF IInv, TypeOK
  <2>3. PoolJoined'
    <3>1. \A k \in Worker : k \in released' \/ job'[k] = "success" =>
                              ranIn'[k] <= ranIn'["coordinator"]
      BY <1>3, <1>6, <2>1, DistinctJobs DEF IInv, PoolJoined
    <3> QED
      BY <1>1, <1>4, <1>6, <2>1, <3>1 DEF IInv, PoolJoined, PoolOfOneAttempt
  <2>4. HandedOver' /\ EvidenceTruthful'
    BY <1>1, <1>4, <1>6, HandoverKept, TruthKept DEF IInv
  <2> QED
    BY <1>6, <2>2, <2>3, <2>4 DEF IInv
<1> QED
  BY <1>7, <1>8

(* A step of the coordinator other than Probe.                             *)
CoordinatorMoves(status) ==
  /\ job["coordinator"] \in {"waiting"} \union AtWork
  /\ job["plan"] = "success"
  /\ Conclude("coordinator", status)
  /\ UNCHANGED <<attempt, planArt, testFile, testArt>>

LEMMA CoordinatorMoved ==
  ASSUME IInv, NEW status \in AtWork \union {"success", "failure"}, CoordinatorMoves(status)
  PROVE  /\ job' \in [Job -> Status]
         /\ PlanFirst' /\ AcceptanceLast'
         /\ job'["plan"] = "success" /\ job'["coordinator"] = status
         /\ job["acceptance"] = "waiting" /\ job'["acceptance"] = "waiting"
         /\ \A k \in Worker \union Test : job'[k] = job[k]
<1>1. status \in Status \ {"waiting", "absent"}
  BY DEF Status, Concluded, AtWork, Building, Releasing, Leaving
<1>2. job["coordinator"] \notin Concluded
  BY DEF CoordinatorMoves, Concluded, AtWork, Building, Releasing, Leaving
<1>3. "coordinator" \in Job \ {"plan", "acceptance"}
  BY DEF Job
<1>4. status \notin {"serving", "ran"}
  BY DEF AtWork, Building, Releasing, Leaving
<1> QED
  BY <1>1, <1>2, <1>3, <1>4, JobMoves, DistinctJobs DEF CoordinatorMoves

LEMMA CoordinatorStartsInv == IInv /\ CoordinatorStarts => IInv'
<1> SUFFICES ASSUME IInv, CoordinatorStarts PROVE IInv'
  OBVIOUS
<1>1. /\ UNCHANGED <<attempt, released, testFile, planArt, dagArt, closureArt, testArt, done>>
      /\ ranIn' = [ranIn EXCEPT !["coordinator"] = attempt]
      /\ hosts' = {} /\ dagFile' = None
      /\ CoordinatorMoves("searching")
  BY DistinctJobs DEF CoordinatorStarts, CoordinatorMoves, artifacts, MayStart, NeedsSucceeded, Needs
<1>2. /\ job' \in [Job -> Status]
      /\ PlanFirst' /\ AcceptanceLast'
      /\ job'["plan"] = "success" /\ job'["coordinator"] = "searching"
      /\ job'["acceptance"] = "waiting"
      /\ \A k \in Worker \union Test : job'[k] = job[k]
  BY <1>1, CoordinatorMoved DEF AtWork, Building
<1>3. TypeOK'
  BY <1>1, <1>2 DEF IInv, TypeOK, DagFile
<1>4. PoolJoined'
  <2>1. ranIn'["coordinator"] = attempt /\ \A w \in Worker : ranIn'[w] \in {ranIn[w], attempt}
    BY <1>1 DEF IInv, TypeOK
  <2>2. \A j \in Worker \union {"coordinator"} : ranIn'[j] <= attempt'
    BY <1>1, <2>1 DEF IInv, TypeOK, PoolJoined
  <2> QED
    BY <1>1, <1>2, <2>1, <2>2 DEF PoolJoined, PoolOfOneAttempt, Found
<1>5. HandedOver'
  <2>1. job'["coordinator"] \notin Evident \union Archived /\ job["plan"] = "success"
    BY <1>1, <1>2 DEF Evident, Archived, CoordinatorMoves
  <2> QED
    BY <1>1, <1>2, <2>1 DEF IInv, HandedOver, PlannedOut, Evidence
<1>6. EvidenceTruthful'
  BY <1>1 DEF IInv, EvidenceTruthful, ChecksTruthful, TestTruthful
<1> QED
  BY <1>2, <1>3, <1>4, <1>5, <1>6 DEF IInv

(* The search: it only ever finds workers of the coordinator's attempt.    *)
LEMMA SearchInv == IInv /\ ((\E w \in Worker : Probe(w)) \/ Discovered \/ DiscoverFails) => IInv'
<1> SUFFICES ASSUME IInv, (\E w \in Worker : Probe(w)) \/ Discovered \/ DiscoverFails PROVE IInv'
  OBVIOUS
<1>1. /\ UNCHANGED <<attempt, ranIn, released, dagFile, testFile, planArt, dagArt, closureArt,
                     testArt, done>>
      /\ job["coordinator"] = "searching"
  BY DEF Probe, Discovered, DiscoverFails, artifacts, pool
<1>2. job["plan"] = "success" /\ job["coordinator"] \in AtWork
  BY <1>1, DistinctJobs DEF IInv, PlanFirst, Working, AtWork, Building
<1>3. ranIn["coordinator"] = attempt /\ \A w \in hosts : ranIn[w] = attempt
  BY <1>2 DEF IInv, PoolJoined
<1>4. hosts' \subseteq Worker /\ \A w \in hosts' : ranIn[w] = attempt
  BY <1>3 DEF Probe, Discovered, DiscoverFails, pool, Named, IInv, TypeOK
<1>5. /\ job' \in [Job -> Status]
      /\ PlanFirst' /\ AcceptanceLast'
      /\ job'["plan"] = "success"
      /\ job'["acceptance"] = "waiting"
      /\ \A k \in Worker \union Test : job'[k] = job[k]
      /\ \/ job'["coordinator"] \in {"searching", "broken"}
         \/ job'["coordinator"] = "configured" /\ hosts = Worker
  <2>1. CASE \E w \in Worker : Probe(w)
    <3>1. UNCHANGED job
      BY <2>1 DEF Probe
    <3>2. PlanFirst' /\ AcceptanceLast'
      BY <1>1, <3>1 DEF IInv, PlanFirst, AcceptanceLast, Planned
    <3>3. job["acceptance"] = "waiting"
      BY <1>1, DistinctJobs DEF IInv, AcceptanceLast, Concluded
    <3> QED
      BY <1>1, <1>2, <3>1, <3>2, <3>3 DEF IInv, TypeOK
  <2>2. CASE Discovered
    <3>1. CoordinatorMoves("configured") /\ hosts = Worker
      BY <1>1, <1>2, <2>2 DEF Discovered, CoordinatorMoves
    <3> QED
      BY <3>1, CoordinatorMoved DEF AtWork, Building
  <2>3. CASE DiscoverFails
    <3>1. CoordinatorMoves("broken")
      BY <1>1, <1>2, <2>3 DEF DiscoverFails, CoordinatorMoves
    <3> QED
      BY <3>1, CoordinatorMoved DEF AtWork, Releasing
  <2> QED
    BY <2>1, <2>2, <2>3
<1>6. TypeOK'
  BY <1>1, <1>4, <1>5 DEF IInv, TypeOK
<1>7. PoolJoined'
  <2>1. job'["coordinator"] \in Found => \A w \in Worker : ranIn["coordinator"] <= ranIn[w]
    BY <1>3, <1>5 DEF Found, IInv, TypeOK
  <2> QED
    BY <1>1, <1>3, <1>4, <1>5, <2>1 DEF IInv, PoolJoined, PoolOfOneAttempt
<1>8. HandedOver'
  <2>1. job'["coordinator"] \notin Evident \union Archived
    BY <1>5 DEF Evident, Archived
  <2>2. job'["coordinator"] # "success"
    BY <1>5
  <2> QED
    BY <1>1, <1>2, <1>5, <2>1, <2>2, HandoverKept
<1>9. EvidenceTruthful'
  BY <1>1, TruthKept DEF IInv
<1> QED
  BY <1>5, <1>6, <1>7, <1>8, <1>9 DEF IInv

(* What holds while the coordinator is at work.                            *)
LEMMA CoordinatorAtWork ==
  ASSUME IInv, job["coordinator"] \in AtWork
  PROVE  /\ job["plan"] = "success" /\ planArt \in Plan
         /\ ranIn["coordinator"] = attempt
         /\ \A w \in hosts : ranIn[w] = attempt
BY DistinctJobs DEF IInv, PlanFirst, PoolJoined, Working

(* Steps after the search that leave the pool alone bring the coordinator  *)
(* no further than it was, in the sense of PoolJoined.                     *)
LEMMA CoordinatorPool ==
  ASSUME IInv, NEW status \in AtWork \union {"success", "failure"}, CoordinatorMoves(status),
         UNCHANGED pool, job["coordinator"] \in AtWork,
         status \in Found => job["coordinator"] \in Found
  PROVE  PoolJoined'
<1>1. UNCHANGED attempt
  BY DEF CoordinatorMoves
<1>2. /\ job'["coordinator"] = status /\ job'["acceptance"] = "waiting"
      /\ \A k \in Worker : job'[k] = job[k]
  BY CoordinatorMoved
<1>3. attempt' \in Nat /\ attempt <= attempt'
  BY <1>1 DEF IInv, TypeOK
<1> QED
  BY <1>1, <1>2, <1>3, PoolKept

LEMMA BuildChecksInv == IInv /\ BuildChecks => IInv'
<1> SUFFICES ASSUME IInv, BuildChecks PROVE IInv'
  OBVIOUS
<1>1. /\ UNCHANGED <<attempt, testFile, planArt, dagArt, closureArt, testArt>>
      /\ UNCHANGED pool /\ UNCHANGED <<ranIn, released, hosts>>
      /\ job["coordinator"] = "configured" /\ job["coordinator"] \in AtWork
  BY DEF BuildChecks, artifacts, pool, AtWork, Building
<1>2. job["plan"] = "success" /\ planArt \in Plan
  BY <1>1, CoordinatorAtWork
<1> PICK now \in CheckPlans : \E D \in SUBSET now :
           /\ done' = done \union Items(D, {})
           /\ IF D = now /\ SameChecks(D)
                THEN Conclude("coordinator", "checked") /\ dagFile' = Checks
                ELSE Conclude("coordinator", "broken") /\ dagFile' = {}
  BY DEF BuildChecks
<1>3. PICK D \in SUBSET now :
           /\ done' = done \union Items(D, {})
           /\ IF D = now /\ SameChecks(D)
                THEN Conclude("coordinator", "checked") /\ dagFile' = Checks
                ELSE Conclude("coordinator", "broken") /\ dagFile' = {}
  OBVIOUS
<1>4. Items(D, {}) \subseteq Items(Drv, Test) /\ Checks \subseteq Drv
  <2>1. D \subseteq Drv
    BY PlansAssumption
  <2> QED
    BY <1>2, <2>1, PlanFacts DEF Items, Checks
<1>5. /\ dagFile' \in DagFile /\ ChecksTruthful(dagFile)'
      /\ \/ CoordinatorMoves("checked") /\ dagFile' = Checks
         \/ CoordinatorMoves("broken")
  <2>1. CASE D = now /\ SameChecks(D)
    BY <1>1, <1>2, <1>3, <1>4, <2>1 DEF SameChecks, CoordinatorMoves, DagFile, ChecksTruthful
  <2>2. CASE ~(D = now /\ SameChecks(D))
    BY <1>1, <1>2, <1>3, <2>2 DEF CoordinatorMoves, DagFile, ChecksTruthful, Items
  <2> QED
    BY <2>1, <2>2
<1>6. /\ job' \in [Job -> Status]
      /\ PlanFirst' /\ AcceptanceLast'
      /\ job'["plan"] = "success"
      /\ job'["acceptance"] = "waiting"
      /\ \A k \in Worker \union Test : job'[k] = job[k]
      /\ (job'["coordinator"] = "checked" /\ dagFile' = Checks) \/ job'["coordinator"] = "broken"
  BY <1>5, CoordinatorMoved DEF AtWork, Building, Releasing
<1>7. TypeOK'
  BY <1>1, <1>3, <1>4, <1>5, <1>6 DEF IInv, TypeOK
<1>8. PoolJoined'
  <2>1. job["coordinator"] \in Found
    BY <1>1 DEF Found
  <2> QED
    BY <1>1, <1>5, <2>1, CoordinatorPool DEF AtWork, Building, Releasing
<1>9. HandedOver'
  <2>1. job'["coordinator"] \notin Archived /\ job'["coordinator"] # "success"
    BY <1>6 DEF Archived
  <2>2. job'["coordinator"] \in Evident => dagFile' = Checks'
    BY <1>1, <1>6 DEF Evident, Checks
  <2> QED
    BY <1>1, <1>2, <1>6, <2>1, <2>2 DEF IInv, HandedOver, PlannedOut, Evidence
<1>10. EvidenceTruthful'
  BY <1>1, <1>3, <1>5 DEF IInv, EvidenceTruthful, ChecksTruthful, TestTruthful
<1> QED
  BY <1>6, <1>7, <1>8, <1>9, <1>10 DEF IInv

LEMMA BuildTestsInv == IInv /\ (BuildTests \/ VerifyAndPublish) => IInv'
<1> SUFFICES ASSUME IInv, BuildTests \/ VerifyAndPublish PROVE IInv'
  OBVIOUS
<1>1. /\ UNCHANGED <<attempt, dagFile, testFile, planArt, dagArt, closureArt, testArt, done>>
      /\ UNCHANGED pool /\ UNCHANGED <<ranIn, released, hosts>>
      /\ job["coordinator"] \in AtWork
  BY DEF BuildTests, VerifyAndPublish, artifacts, pool, AtWork, Building
<1>2. job["plan"] = "success"
  BY <1>1, CoordinatorAtWork
<1>3. PICK status \in {"tested", "verified", "broken"} :
        /\ CoordinatorMoves(status)
        /\ status \in Found => job["coordinator"] \in Found
        /\ status \in Evident => job["coordinator"] \in Evident
        /\ status \in Archived => job["coordinator"] \in Archived
  BY <1>1, <1>2 DEF BuildTests, VerifyAndPublish, CoordinatorMoves, Found, Evident, Archived
<1>4. status \in AtWork /\ status # "success"
  BY DEF AtWork, Building, Releasing
<1>5. /\ job' \in [Job -> Status]
      /\ PlanFirst' /\ AcceptanceLast'
      /\ job'["coordinator"] = status
      /\ \A k \in Worker \union Test : job'[k] = job[k]
      /\ job'["acceptance"] = "waiting"
  BY <1>3, <1>4, CoordinatorMoved
<1>6. TypeOK'
  BY <1>1, <1>5 DEF IInv, TypeOK
<1>7. PoolJoined'
  BY <1>1, <1>3, <1>4, CoordinatorPool
<1>8. HandedOver'
  BY <1>1, <1>2, <1>3, <1>4, <1>5, HandoverKept
<1>9. EvidenceTruthful'
  BY <1>1, TruthKept DEF IInv
<1> QED
  BY <1>5, <1>6, <1>7, <1>8, <1>9 DEF IInv

LEMMA ExportInv == IInv /\ Export => IInv'
<1> SUFFICES ASSUME IInv, Export PROVE IInv'
  OBVIOUS
<1>1. /\ UNCHANGED <<attempt, dagFile, testFile, planArt, dagArt, testArt, done>>
      /\ UNCHANGED pool /\ UNCHANGED <<ranIn, released, hosts>>
      /\ job["coordinator"] = "tested" /\ job["coordinator"] \in AtWork
  BY DEF Export, pool, AtWork, Building
<1>2. job["plan"] = "success" /\ planArt \in Plan
  BY <1>1, CoordinatorAtWork
<1>3. Roots \subseteq Out /\ (Planned = {} => Roots = {})
  BY <1>2, PlanFacts DEF Roots, Planned, PlannedOut
<1>4. PICK status \in {"exported", "broken"} :
        /\ CoordinatorMoves(status)
        /\ closureArt' \in {closureArt, Roots}
        /\ status = "exported" => Roots \subseteq closureArt'
  <2>1. CASE /\ Conclude("coordinator", "exported")
             /\ closureArt' = IF Planned = {} THEN closureArt ELSE Roots
    BY <1>1, <1>2, <1>3, <2>1 DEF CoordinatorMoves
  <2>2. CASE Conclude("coordinator", "broken") /\ UNCHANGED closureArt
    BY <1>1, <1>2, <2>2 DEF CoordinatorMoves
  <2> QED
    BY <2>1, <2>2 DEF Export
<1>5. status \in AtWork /\ status # "success"
  BY DEF AtWork, Building, Releasing
<1>6. /\ job' \in [Job -> Status]
      /\ PlanFirst' /\ AcceptanceLast'
      /\ job'["coordinator"] = status
      /\ \A k \in Worker \union Test : job'[k] = job[k]
      /\ job'["acceptance"] = "waiting"
  BY <1>4, <1>5, CoordinatorMoved
<1>7. TypeOK'
  BY <1>1, <1>3, <1>4, <1>6 DEF IInv, TypeOK
<1>8. PoolJoined'
  <2>1. job["coordinator"] \in Found
    BY <1>1 DEF Found
  <2> QED
    BY <1>1, <1>4, <1>5, <2>1, CoordinatorPool
<1>9. HandedOver'
  <2>1. dagFile = Checks
    BY <1>1 DEF IInv, HandedOver, Evident
  <2>2. UNCHANGED <<Checks, Roots>>
    BY <1>1 DEF Checks, Roots, Planned, PlannedOut
  <2>3. job'["coordinator"] \in Archived => Roots' \subseteq closureArt'
    BY <1>4, <1>6, <2>2 DEF Archived
  <2> QED
    BY <1>1, <1>2, <1>5, <1>6, <2>1, <2>2, <2>3 DEF IInv, HandedOver, PlannedOut, Evidence
<1>10. EvidenceTruthful'
  BY <1>1, TruthKept DEF IInv
<1> QED
  BY <1>6, <1>7, <1>8, <1>9, <1>10 DEF IInv

LEMMA ReleaseInv == IInv /\ Release => IInv'
<1> SUFFICES ASSUME IInv, Release PROVE IInv'
  OBVIOUS
<1>1. /\ UNCHANGED <<attempt, ranIn, hosts, dagFile, testFile, planArt, dagArt, closureArt,
                     testArt, done>>
      /\ job["coordinator"] \in {"verified", "broken"} /\ job["coordinator"] \in AtWork
  BY DEF Release, artifacts, AtWork, Releasing
<1>2. /\ job["plan"] = "success" /\ ranIn["coordinator"] = attempt
      /\ \A w \in hosts : ranIn[w] = attempt
  BY <1>1, CoordinatorAtWork
<1>3. PICK reached \in SUBSET {w \in hosts : job[w] = "serving"} :
        /\ released' = released \union reached
        /\ Conclude("coordinator",
             IF job["coordinator"] = "verified" /\ reached = hosts THEN "released" ELSE "failing")
  BY DEF Release
<1>4. reached \subseteq hosts /\ reached \subseteq Worker
  BY DEF IInv, TypeOK
<1>5. PICK status \in {"released", "failing"} :
        /\ CoordinatorMoves(status)
        /\ status = "released" => job["coordinator"] = "verified"
  BY <1>1, <1>2, <1>3 DEF CoordinatorMoves
<1>6. status \in AtWork /\ status # "success"
  BY DEF AtWork, Leaving
<1>7. /\ job' \in [Job -> Status]
      /\ PlanFirst' /\ AcceptanceLast'
      /\ job'["coordinator"] = status
      /\ \A k \in Worker \union Test : job'[k] = job[k]
      /\ job'["acceptance"] = "waiting"
  BY <1>5, <1>6, CoordinatorMoved
<1>8. TypeOK'
  BY <1>1, <1>3, <1>4, <1>7 DEF IInv, TypeOK
<1>9. PoolJoined'
  <2>1. job'["coordinator"] \in Found => \A w \in Worker : ranIn["coordinator"] <= ranIn[w]
    BY <1>5, <1>7 DEF Found, IInv, PoolJoined
  <2>2. \A w \in Worker : w \in released' \/ job'[w] = "success" =>
                            ranIn[w] <= ranIn["coordinator"]
    BY <1>2, <1>3, <1>4, <1>7 DEF IInv, PoolJoined, TypeOK
  <2> QED
    BY <1>1, <1>2, <1>7, <2>1, <2>2 DEF IInv, PoolJoined, PoolOfOneAttempt
<1>10. HandedOver'
  <2>1. /\ job'["coordinator"] \in Evident => job["coordinator"] \in Evident
        /\ job'["coordinator"] \in Archived => job["coordinator"] \in Archived
    BY <1>5, <1>7 DEF Evident, Archived
  <2> QED
    BY <1>1, <1>2, <1>6, <1>7, <2>1, HandoverKept
<1>11. EvidenceTruthful'
  BY <1>1, TruthKept DEF IInv
<1> QED
  BY <1>7, <1>8, <1>9, <1>10, <1>11 DEF IInv

LEMMA CoordinatorEndsInv == IInv /\ CoordinatorEnds => IInv'
<1> SUFFICES ASSUME IInv, CoordinatorEnds PROVE IInv'
  OBVIOUS
<1>1. /\ UNCHANGED <<attempt, dagFile, testFile, planArt, closureArt, testArt, done>>
      /\ UNCHANGED pool /\ UNCHANGED <<ranIn, released, hosts>>
      /\ job["coordinator"] \in {"released", "failing"} /\ job["coordinator"] \in AtWork
  BY DEF CoordinatorEnds, pool, AtWork, Leaving
<1>2. job["plan"] = "success" /\ planArt \in Plan
  BY <1>1, CoordinatorAtWork
<1>3. Checks # None
  BY <1>2, PlanFacts, NamesAssumption DEF Checks
<1>4. PICK status \in {"success", "failure"} :
        /\ CoordinatorMoves(status)
        /\ dagArt' \in {dagArt, dagFile}
        /\ status = "success" => job["coordinator"] = "released" /\ dagArt' = Checks
  <2>1. CASE /\ dagArt' = IF dagFile = None THEN dagArt ELSE dagFile
             /\ Conclude("coordinator",
                  IF job["coordinator"] = "released" THEN "success" ELSE "failure")
    <3>1. job["coordinator"] = "released" => dagArt' = Checks
      BY <1>3, <2>1 DEF IInv, HandedOver, Evident
    <3> QED
      BY <1>1, <1>2, <2>1, <3>1 DEF CoordinatorMoves
  <2>2. CASE UNCHANGED dagArt /\ Conclude("coordinator", "failure")
    BY <1>1, <1>2, <2>2 DEF CoordinatorMoves
  <2> QED
    BY <2>1, <2>2 DEF CoordinatorEnds
<1>5. /\ job' \in [Job -> Status]
      /\ PlanFirst' /\ AcceptanceLast'
      /\ job'["coordinator"] = status
      /\ \A k \in Worker \union Test : job'[k] = job[k]
      /\ job'["acceptance"] = "waiting"
  BY <1>4, CoordinatorMoved
<1>6. TypeOK'
  BY <1>1, <1>4, <1>5 DEF IInv, TypeOK
<1>7. PoolJoined'
  BY <1>1, <1>4, CoordinatorPool DEF Found
<1>8. HandedOver'
  <2>1. job'["coordinator"] \notin Evident /\ UNCHANGED <<Checks, Roots>>
    BY <1>1, <1>5 DEF Evident, Checks, Roots, Planned, PlannedOut
  <2>2. job'["coordinator"] = "success" => dagArt' = Checks'
    BY <1>4, <1>5, <2>1
  <2>3. job'["coordinator"] \in Archived => Roots' \subseteq closureArt'
    BY <1>1, <1>2, <1>4, <1>5, <2>1 DEF Archived, IInv, HandedOver
  <2> QED
    BY <1>1, <1>2, <1>5, <2>1, <2>2, <2>3 DEF IInv, HandedOver, PlannedOut, Evidence
<1>9. EvidenceTruthful'
  BY <1>1, <1>4 DEF IInv, EvidenceTruthful, ChecksTruthful, TestTruthful
<1> QED
  BY <1>5, <1>6, <1>7, <1>8, <1>9 DEF IInv

LEMMA CoordinatorStepInv == IInv /\ CoordinatorStep => IInv'
BY CoordinatorStartsInv, SearchInv, BuildChecksInv, BuildTestsInv, ExportInv, ReleaseInv,
   CoordinatorEndsInv DEF CoordinatorStep

LEMMA TestStepInv ==
  ASSUME NEW t \in Test
  PROVE  IInv /\ TestStep(t) => IInv'
<1> SUFFICES ASSUME IInv, TestStep(t) PROVE IInv'
  OBVIOUS
<1>1. /\ t \in Job \ {"plan", "acceptance"} /\ t # "coordinator"
      /\ \A k \in Worker \union (Test \ {t}) : k \in Job \ {t}
      /\ "coordinator" \in Job \ {t}
  BY DistinctJobs
<1>2. /\ UNCHANGED <<attempt, dagFile, planArt, dagArt, closureArt>>
      /\ UNCHANGED pool /\ UNCHANGED <<ranIn, released, hosts>>
      /\ job[t] \in {"waiting", "ran", "broken"} /\ job[t] \notin Concluded
  BY DEF TestStep, TestRefused, TestRuns, TestEnds, artifacts, pool, MayStart, Concluded
<1>3. job["plan"] = "success" /\ planArt \in Plan
  BY <1>1 DEF TestStep, TestRefused, TestRuns, TestEnds, MayStart, NeedsSucceeded, Needs, IInv,
              PlanFirst, Working, AtWork, Releasing
<1>4. MayStart(t) => t \in Planned
  BY <1>3 DEF MayStart, IInv, PlanFirst
<1>5. MayStart(t) => /\ Evidence(t, TRUE) \in TestFile /\ Evidence(t, FALSE) \in TestFile
                     /\ Evidence(t, TRUE).pass = TRUE /\ Evidence(t, FALSE).pass = FALSE
  BY <1>3, <1>4, PlanFacts DEF Evidence, TestFile, TestEvidence, PlannedOut, Planned
<1>6. PICK status \in {"ran", "broken", "success", "failure"} :
        /\ Conclude(t, status)
        /\ testFile' \in [Test -> TestFile] /\ testArt' \in [Test -> TestFile]
        /\ \A k \in Test \ {t} : testFile'[k] = testFile[k] /\ testArt'[k] = testArt[k]
        /\ done \subseteq done' /\ done' \subseteq Items(Drv, Test)
        /\ TestTruthful(testFile[t], t)' /\ TestTruthful(testArt[t], t)'
        /\ status = "ran" => testFile'[t] = Evidence(t, TRUE)
        /\ status = "success" => testArt'[t] = Evidence(t, TRUE)
  <2> USE DEF IInv, TypeOK, EvidenceTruthful, TestTruthful
  <2>1. CASE TestRefused(t)
    BY <2>1 DEF TestRefused, artifacts, TestFile
  <2>2. CASE TestRuns(t)
    <3>1. MayStart(t) /\ UNCHANGED testArt
      BY <2>2 DEF TestRuns, artifacts
    <3>2. CASE /\ testFile' = [testFile EXCEPT ![t] = Evidence(t, TRUE)]
               /\ done' = done \union Items({}, {t})
               /\ Conclude(t, "ran")
      <4>1. Items({}, {t}) \subseteq Items(Drv, Test) /\ <<"test", t>> \in Items({}, {t})
        BY DEF Items
      <4> QED
        BY <1>5, <3>1, <3>2, <4>1
    <3>3. CASE /\ testFile' = [testFile EXCEPT ![t] = Evidence(t, FALSE)]
               /\ Conclude(t, "broken")
               /\ UNCHANGED done
      BY <1>5, <3>1, <3>3
    <3> QED
      BY <2>2, <3>2, <3>3 DEF TestRuns
  <2>3. CASE TestEnds(t)
    <3>1. UNCHANGED <<testFile, done>>
      BY <2>3 DEF TestEnds
    <3>2. CASE /\ testArt' = [testArt EXCEPT ![t] = IF testFile[t] = None THEN @ ELSE testFile[t]]
               /\ Conclude(t, IF job[t] = "ran" THEN "success" ELSE "failure")
      <4>1. job[t] = "ran" => testFile[t] = Evidence(t, TRUE) /\ Evidence(t, TRUE) # None
        <5>1. job[t] = "ran" => testFile[t] = Evidence(t, TRUE)
          BY DEF HandedOver
        <5>2. job[t] = "ran" => t \in Planned
          BY <1>3 DEF PlanFirst
        <5>3. t \in Planned => Evidence(t, TRUE) \in TestEvidence
          BY <1>3, PlanFacts DEF Evidence, TestEvidence, PlannedOut, Planned
        <5> QED
          BY <5>1, <5>2, <5>3, NamesAssumption
      <4> QED
        BY <3>1, <3>2, <4>1
    <3>3. CASE UNCHANGED testArt /\ Conclude(t, "failure")
      BY <3>1, <3>3
    <3> QED
      BY <2>3, <3>2, <3>3 DEF TestEnds
  <2> QED
    BY <2>1, <2>2, <2>3 DEF TestStep
<1>7. status \in Status \ {"waiting", "absent"}
  BY DEF Status, Concluded, AtWork, Releasing
<1>8. /\ job' \in [Job -> Status]
      /\ PlanFirst' /\ AcceptanceLast'
      /\ job["acceptance"] = "waiting" /\ job'["acceptance"] = "waiting"
      /\ job'[t] = status /\ job'["plan"] = "success"
      /\ \A k \in Job \ {t} : job'[k] = job[k]
  BY <1>1, <1>2, <1>3, <1>6, <1>7, JobMoves
<1>9. TypeOK'
  BY <1>2, <1>6, <1>8 DEF IInv, TypeOK
<1>10. PoolJoined'
  <2>1. attempt' \in Nat /\ attempt <= attempt'
    BY <1>2 DEF IInv, TypeOK
  <2> QED
    BY <1>1, <1>2, <1>8, <2>1, PoolKept
<1>11. HandedOver'
  <2>1. UNCHANGED <<Checks, Roots>> /\ job'["coordinator"] = job["coordinator"]
    BY <1>1, <1>2, <1>8 DEF Checks, Roots, Planned, PlannedOut
  <2>2. \A k \in Test : Evidence(k, TRUE)' = Evidence(k, TRUE)
    BY <1>2 DEF Evidence, PlannedOut
  <2>3. ASSUME NEW k \in Test
        PROVE  /\ job'[k] = "ran" => testFile'[k] = Evidence(k, TRUE)
               /\ job'[k] = "success" => testArt'[k] = Evidence(k, TRUE)
    BY <1>1, <1>3, <1>6, <1>8 DEF IInv, HandedOver
  <2> QED
    BY <1>2, <1>3, <2>1, <2>2, <2>3 DEF IInv, HandedOver
<1>12. EvidenceTruthful'
  BY <1>2, <1>6 DEF IInv, EvidenceTruthful, ChecksTruthful, TestTruthful
<1> QED
  BY <1>8, <1>9, <1>10, <1>11, <1>12 DEF IInv

(* The coordinator's success tells that no worker was older, the workers'  *)
(* that none was younger.                                                  *)
LEMMA AcceptanceInv == IInv /\ (Accept \/ Refuse) => IInv'
<1> SUFFICES ASSUME IInv, Accept \/ Refuse PROVE IInv'
  OBVIOUS
<1>1. /\ UNCHANGED <<attempt, dagFile, testFile, planArt, dagArt, closureArt, testArt, done>>
      /\ UNCHANGED pool /\ UNCHANGED <<ranIn, released, hosts>>
      /\ NeedsConcluded("acceptance")
  BY DEF Accept, Refuse, MayAccept, artifacts, pool
<1>2. /\ \A k \in Job \ {"acceptance"} : job[k] \in Concluded /\ job'[k] = job[k]
      /\ job'["acceptance"] \in {"success", "failure"}
      /\ job' \in [Job -> Status]
  <2>1. Needs("acceptance") = Job \ {"acceptance"}
    BY NamesAssumption DEF Needs
  <2> QED
    BY <1>1, <2>1, DistinctJobs DEF Accept, Refuse, Conclude, NeedsConcluded, IInv, TypeOK,
                                    Status, Concluded
<1>3. /\ job'["plan"] = job["plan"] /\ job'["coordinator"] = job["coordinator"]
      /\ \A k \in Worker \union Test : job'[k] = job[k]
  BY <1>2, DistinctJobs
<1>4. TypeOK'
  BY <1>1, <1>2 DEF IInv, TypeOK
<1>5. AcceptanceLast'
  BY <1>2 DEF AcceptanceLast, Concluded
<1>6. PlanFirst'
  <2>1. job'["plan"] # "waiting"
    BY <1>2, DistinctJobs DEF Concluded
  <2>2. \A k \in Job : job'[k] \notin Working
    BY <1>2 DEF Concluded, Working, AtWork, Building, Releasing, Leaving
  <2> QED
    BY <1>1, <1>3, <2>1, <2>2 DEF IInv, PlanFirst, Planned
<1>7. PoolJoined'
  <2>1. job'["acceptance"] = "success" => \A w \in Worker : ranIn[w] = ranIn["coordinator"]
    <3> SUFFICES ASSUME job'["acceptance"] = "success", NEW w \in Worker
                 PROVE  ranIn[w] = ranIn["coordinator"]
      OBVIOUS
    <3>1. Accept
      BY DistinctJobs DEF Refuse, Conclude, IInv, TypeOK
    <3>2. job[w] = "success" /\ job["coordinator"] = "success"
      BY <3>1 DEF Accept, ResultsFine
    <3>3. ranIn[w] <= ranIn["coordinator"] /\ ranIn["coordinator"] <= ranIn[w]
      BY <3>2 DEF IInv, PoolJoined, Found
    <3> QED
      BY <3>3 DEF IInv, TypeOK
  <2> QED
    BY <1>1, <1>3, <2>1 DEF IInv, PoolJoined, PoolOfOneAttempt
<1>8. HandedOver'
  BY <1>1, <1>3, HandoverKept
<1>9. EvidenceTruthful'
  BY <1>1, TruthKept DEF IInv
<1> QED
  BY <1>4, <1>5, <1>6, <1>7, <1>8, <1>9 DEF IInv

LEMMA SkipOrLoseInv ==
  ASSUME NEW j \in Job
  PROVE  IInv /\ (Skip(j) \/ LoseRunner(j)) => IInv'
<1> SUFFICES ASSUME IInv, Skip(j) \/ LoseRunner(j) PROVE IInv'
  OBVIOUS
<1>1. /\ UNCHANGED <<attempt, dagFile, testFile, planArt, dagArt, closureArt, testArt, done>>
      /\ UNCHANGED pool /\ UNCHANGED <<ranIn, released, hosts>>
  BY DEF Skip, LoseRunner, artifacts, pool
<1>2. PICK status \in {"skipped", "failure"} : Conclude(j, status)
  BY DEF Skip, LoseRunner
<1>3. job[j] \notin Concluded
  BY DEF Skip, LoseRunner, Concluded
<1>4. j \in Job \ {"plan", "acceptance"} /\ job["plan"] # "waiting"
  <2>1. CASE Skip(j)
    <3> Needs("plan") = {} /\ NeedsSucceeded("plan")
      BY DistinctJobs DEF Needs, NeedsSucceeded
    <3>1. j # "plan" /\ j # "acceptance"
      BY <2>1 DEF Skip
    <3>2. "plan" \in Needs(j)
      BY <3>1, DistinctJobs DEF Needs
    <3> QED
      BY <2>1, <3>1, <3>2 DEF Skip, NeedsConcluded, Concluded
  <2>2. CASE LoseRunner(j)
    <3>1. job["plan"] \in {"waiting"} \union Concluded /\ job["acceptance"] \in {"waiting"} \union Concluded
      BY DEF Concluded, IInv, PlanFirst, TypeOK
    <3>2. j # "plan" /\ j # "acceptance"
      BY <2>2, <3>1 DEF LoseRunner
    <3> QED
      BY <2>2, <3>2 DEF LoseRunner, IInv, PlanFirst
  <2> QED
    BY <2>1, <2>2
<1>5. status \in Status \ {"waiting", "absent"} /\ status \notin Working
  BY DEF Status, Concluded, Working, AtWork, Building, Releasing, Leaving
<1>6. /\ job' \in [Job -> Status]
      /\ PlanFirst' /\ AcceptanceLast'
      /\ job'["plan"] = job["plan"]
      /\ job["acceptance"] = "waiting" /\ job'["acceptance"] = "waiting"
      /\ \A k \in Job : job'[k] \in {job[k], status}
  BY <1>1, <1>2, <1>3, <1>4, <1>5, JobMoves
<1>7. TypeOK'
  BY <1>1, <1>6 DEF IInv, TypeOK
<1>8. \A k \in Job : job'[k] \notin {"skipped", "failure"} => job'[k] = job[k]
  BY <1>6
<1>9. PoolJoined'
  <2>1. attempt' \in Nat /\ attempt <= attempt'
    BY <1>1 DEF IInv, TypeOK
  <2>2. /\ job'["coordinator"] \in AtWork => job["coordinator"] \in AtWork
        /\ job'["coordinator"] \in Found => job["coordinator"] \in Found
    BY <1>8, DistinctJobs DEF AtWork, Building, Releasing, Leaving, Found
  <2>3. \A w \in Worker : job'[w] = "success" => job[w] = "success"
    BY <1>8, DistinctJobs
  <2> QED
    BY <1>1, <1>6, <2>1, <2>2, <2>3, PoolKept
<1>10. HandedOver'
  <2>1. /\ job'["coordinator"] \in Evident => job["coordinator"] \in Evident
        /\ job'["coordinator"] \in Archived => job["coordinator"] \in Archived
        /\ job'["coordinator"] = "success" => job["coordinator"] = "success"
    BY <1>8, DistinctJobs DEF Evident, Archived
  <2>2. \A t \in Test : job'[t] \in {"ran", "success"} => job'[t] = job[t]
    BY <1>8, DistinctJobs
  <2> QED
    BY <1>1, <1>6, <2>1, <2>2, HandoverKept
<1>11. EvidenceTruthful'
  BY <1>1, TruthKept DEF IInv
<1> QED
  BY <1>6, <1>7, <1>9, <1>10, <1>11 DEF IInv

LEMMA CancelInv == IInv /\ Cancel => IInv'
<1> SUFFICES ASSUME IInv, Cancel PROVE IInv'
  OBVIOUS
<1>1. /\ UNCHANGED <<attempt, dagFile, testFile, planArt, dagArt, closureArt, testArt, done>>
      /\ UNCHANGED pool /\ UNCHANGED <<ranIn, released, hosts>>
      /\ \A j \in Job \ {"acceptance"} : job'[j] = Cancelled(j)
      /\ job'["acceptance"] = job["acceptance"]
      /\ \E j \in Job \ {"acceptance"} : Cancelled(j) # job[j]
  BY DistinctJobs DEF Cancel, artifacts, pool
<1>2. \A j \in Job \ {"acceptance"} :
        \/ job'[j] = job[j] /\ job[j] # "waiting"
        \/ job'[j] = "cancelled" /\ job[j] \notin Concluded
        \/ job'[j] \in {"broken", "failing"} /\ job[j] \in Working
  BY <1>1 DEF Cancelled, Working, AtWork, Building, Releasing, Leaving, Concluded
<1>3. job' \in [Job -> Status]
  <2>1. job' = [j \in Job |-> IF j = "acceptance" THEN job[j] ELSE Cancelled(j)]
    BY DEF Cancel
  <2>2. \A j \in Job : (IF j = "acceptance" THEN job[j] ELSE Cancelled(j)) \in Status
    BY DEF Cancelled, Status, Concluded, AtWork, Releasing, Leaving, IInv, TypeOK
  <2> QED
    BY <2>1, <2>2
<1>4. job["acceptance"] = "waiting" /\ job'["acceptance"] = "waiting"
  <2>1. PICK j \in Job \ {"acceptance"} : Cancelled(j) # job[j]
    BY <1>1
  <2>2. job[j] \notin Concluded
    BY <2>1 DEF Cancelled, Concluded, Building
  <2> QED
    BY <1>1, <2>2 DEF IInv, AcceptanceLast
<1>5. TypeOK'
  BY <1>1, <1>3, <1>4 DEF IInv, TypeOK
<1>6. job'["plan"] \in {"success", "failure", "cancelled"}
      /\ (job'["plan"] = "success" <=> job["plan"] = "success")
  BY <1>2, DistinctJobs DEF IInv, PlanFirst, Working, AtWork, Building, Releasing, Leaving, Concluded
<1>7. PlanFirst'
  <2>1. ASSUME NEW j \in Job, job'[j] \in Working PROVE job["plan"] = "success"
    <3>1. j # "acceptance" /\ job'[j] # "cancelled"
      BY <1>4, <2>1 DEF Working, AtWork, Building, Releasing, Leaving
    <3>2. job[j] \in Working
      BY <1>2, <2>1, <3>1
    <3> QED
      BY <3>2 DEF IInv, PlanFirst
  <2>2. \A t \in Test : job'[t] # "absent" => job[t] # "absent"
    BY <1>2, DistinctJobs DEF Concluded, Working, AtWork, Building, Releasing, Leaving
  <2>3. job'["coordinator"] \notin {"serving", "ran"}
    BY <1>2, DistinctJobs DEF IInv, PlanFirst
  <2> QED
    BY <1>1, <1>6, <2>1, <2>2, <2>3 DEF IInv, PlanFirst, Planned
<1>8. AcceptanceLast'
  BY <1>4 DEF AcceptanceLast
<1>9. PoolJoined'
  <2>1. attempt' \in Nat /\ attempt <= attempt'
    BY <1>1 DEF IInv, TypeOK
  <2>2. job["coordinator"] \in Working => job["coordinator"] \in AtWork
    BY DEF Working, IInv, PlanFirst
  <2>3. job'["coordinator"] \in AtWork => job["coordinator"] \in AtWork
    <3>1. "cancelled" \notin AtWork
      BY DEF AtWork, Building, Releasing, Leaving
    <3> QED
      BY <1>2, <2>2, <3>1, DistinctJobs
  <2>4. job'["coordinator"] \in Found => job["coordinator"] \in Found
    BY <1>2, DistinctJobs DEF Found
  <2>5. \A w \in Worker : job'[w] = "success" => job[w] = "success"
    BY <1>2, DistinctJobs
  <2> QED
    BY <1>1, <1>4, <2>1, <2>3, <2>4, <2>5, PoolKept
<1>10. HandedOver'
  <2>1. /\ job'["coordinator"] \in Evident => job["coordinator"] \in Evident
        /\ job'["coordinator"] \in Archived => job["coordinator"] \in Archived
        /\ job'["coordinator"] = "success" => job["coordinator"] = "success"
    BY <1>2, DistinctJobs DEF Evident, Archived
  <2>2. \A t \in Test : job'[t] \in {"ran", "success"} => job'[t] = job[t]
    BY <1>2, DistinctJobs
  <2> QED
    BY <1>1, <1>6, <2>1, <2>2, HandoverKept
<1>11. EvidenceTruthful'
  BY <1>1, TruthKept DEF IInv
<1> QED
  BY <1>5, <1>7, <1>8, <1>9, <1>10, <1>11 DEF IInv

LEMMA RerunInv == IInv /\ Rerun => IInv' /\ job'["acceptance"] = "waiting"
<1> SUFFICES ASSUME IInv, Rerun PROVE IInv' /\ job'["acceptance"] = "waiting"
  OBVIOUS
<1>1. /\ UNCHANGED <<dagFile, testFile, planArt, dagArt, closureArt, testArt, done>>
      /\ UNCHANGED pool /\ UNCHANGED <<ranIn, released, hosts>>
      /\ attempt' = attempt + 1
      /\ \A j \in Job : job[j] \in Concluded
  BY DEF Rerun, artifacts, pool
<1>2. PICK chosen \in SUBSET Job :
        /\ chosen # {}
        /\ job' = [j \in Job |->
             IF /\ j \in UNION {Dependents(k) : k \in chosen}
                /\ job[j] # "absent" \/ "plan" \in UNION {Dependents(k) : k \in chosen}
               THEN "waiting" ELSE job[j]]
  <2>1. PICK chosen \in {{"plan"}, Unsuccessful} \union
                   {{j} : j \in {k \in Job : job[k] # "absent"}} :
          /\ chosen # {}
          /\ job' = [j \in Job |->
               IF /\ j \in UNION {Dependents(k) : k \in chosen}
                  /\ job[j] # "absent" \/ "plan" \in UNION {Dependents(k) : k \in chosen}
                 THEN "waiting" ELSE job[j]]
    BY DEF Rerun
  <2>2. chosen \in SUBSET Job
    BY DistinctJobs DEF Unsuccessful
  <2> QED
    BY <2>1, <2>2
<1>3. "acceptance" \in UNION {Dependents(k) : k \in chosen}
  <2>1. \A k \in chosen : "acceptance" \in Dependents(k)
    BY DistinctJobs DEF Dependents
  <2> QED
    BY <1>2, <2>1
<1>4. /\ job' \in [Job -> Status]
      /\ \A j \in Job : job'[j] \in {"waiting", job[j]}
  BY <1>2 DEF IInv, TypeOK, Status
<1>5. job'["acceptance"] = "waiting"
  BY <1>2, <1>3, DistinctJobs DEF IInv, TypeOK
<1>6. TypeOK'
  BY <1>1, <1>4, <1>5 DEF IInv, TypeOK
<1>7. AcceptanceLast'
  BY <1>5 DEF AcceptanceLast
<1>8. \A j \in Job : job'[j] \notin Working
  BY <1>1, <1>4 DEF Concluded, Working, AtWork, Building, Releasing, Leaving
<1>9. job'["plan"] = "waiting" => \A j \in Job : job'[j] = "waiting"
  <2> SUFFICES ASSUME job'["plan"] = "waiting" PROVE \A j \in Job : job'[j] = "waiting"
    OBVIOUS
  <2>1. "plan" \in UNION {Dependents(k) : k \in chosen}
    BY <1>1, <1>2, DistinctJobs DEF Concluded
  <2>2. "plan" \in chosen
    BY <2>1, DistinctJobs DEF Dependents
  <2>3. Job \subseteq UNION {Dependents(k) : k \in chosen}
    BY <2>2 DEF Dependents
  <2> QED
    BY <1>2, <2>1, <2>3
<1>10. job'["plan"] = "success" =>
         /\ job["plan"] = "success"
         /\ \A t \in Test : job'[t] # "absent" => job[t] # "absent"
  <2> SUFFICES ASSUME job'["plan"] = "success", NEW t \in Test, job[t] = "absent"
               PROVE  job["plan"] = "success" /\ job'[t] = "absent"
    BY <1>4, DistinctJobs
  <2>1. "plan" \notin UNION {Dependents(k) : k \in chosen}
    BY <1>2, DistinctJobs
  <2> QED
    BY <1>2, <1>4, <2>1, DistinctJobs
<1>11. PlanFirst'
  <2>1. job'["plan"] \in {"waiting", "success", "failure", "cancelled"}
    BY <1>4, DistinctJobs DEF IInv, PlanFirst
  <2>2. job'["coordinator"] \notin {"serving", "ran"}
    BY <1>4, DistinctJobs DEF IInv, PlanFirst
  <2> QED
    BY <1>1, <1>8, <1>9, <1>10, <2>1, <2>2 DEF IInv, PlanFirst, Planned
<1>12. PoolJoined'
  <2>1. attempt' \in Nat /\ attempt <= attempt'
    BY <1>1 DEF IInv, TypeOK
  <2>2. /\ job'["coordinator"] \notin AtWork
        /\ job'["coordinator"] \in Found => job["coordinator"] \in Found
        /\ \A w \in Worker : job'[w] = "success" => job[w] = "success"
    BY <1>4, <1>8, DistinctJobs DEF Working, Found
  <2> QED
    BY <1>1, <1>5, <2>1, <2>2, PoolKept
<1>13. HandedOver'
  <2>1. /\ job'["coordinator"] \in Evident => job["coordinator"] \in Evident
        /\ job'["coordinator"] \in Archived => job["coordinator"] \in Archived
        /\ job'["coordinator"] = "success" => job["coordinator"] = "success"
        /\ \A t \in Test : job'[t] \in {"ran", "success"} => job'[t] = job[t]
    BY <1>4, DistinctJobs DEF Evident, Archived
  <2> QED
    BY <1>1, <1>10, <2>1, HandoverKept
<1>14. EvidenceTruthful'
  BY <1>1, TruthKept DEF IInv
<1> QED
  BY <1>5, <1>6, <1>7, <1>11, <1>12, <1>13, <1>14 DEF IInv

LEMMA StutterInv == IInv /\ UNCHANGED vars => IInv'
<1> SUFFICES ASSUME IInv, UNCHANGED vars PROVE IInv'
  OBVIOUS
<1>1. UNCHANGED <<attempt, job, ranIn, released, hosts, dagFile, testFile, planArt, dagArt,
                  closureArt, testArt, done>>
  BY DEF vars
<1>2. TypeOK' /\ PlanFirst' /\ AcceptanceLast'
  BY <1>1 DEF IInv, TypeOK, PlanFirst, AcceptanceLast, Planned
<1>3. PoolJoined'
  BY <1>1 DEF IInv, PoolJoined, PoolOfOneAttempt
<1>4. HandedOver' /\ EvidenceTruthful'
  BY <1>1, HandoverKept, TruthKept DEF IInv
<1> QED
  BY <1>2, <1>3, <1>4 DEF IInv

LEMMA NextIInv == IInv /\ [Next]_vars => IInv'
<1> SUFFICES ASSUME IInv, [Next]_vars PROVE IInv'
  OBVIOUS
<1>1. CASE PlanStep
  BY <1>1, PlanStepInv
<1>2. ASSUME NEW w \in Worker, WorkerStep(w) PROVE IInv'
  BY <1>2, WorkerStepInv
<1>3. CASE CoordinatorStep
  BY <1>3, CoordinatorStepInv
<1>4. ASSUME NEW t \in Test, TestStep(t) PROVE IInv'
  BY <1>4, TestStepInv
<1>5. CASE Accept \/ Refuse
  BY <1>5, AcceptanceInv
<1>6. ASSUME NEW j \in Job, Skip(j) \/ LoseRunner(j) PROVE IInv'
  BY <1>6, SkipOrLoseInv
<1>7. CASE Cancel
  BY <1>7, CancelInv
<1>8. CASE Rerun
  BY <1>8, RerunInv
<1>9. CASE UNCHANGED vars
  BY <1>9, StutterInv
<1> QED
  BY <1>1, <1>2, <1>3, <1>4, <1>5, <1>6, <1>7, <1>8, <1>9 DEF Next

(* The inductive invariant holds in every reachable state of the run.      *)
THEOREM Invariance == Spec => []IInv
<1>1. Init => IInv
  BY InitIInv
<1>2. IInv /\ [Next]_vars => IInv'
  BY NextIInv
<1> QED
  BY <1>1, <1>2, PTL DEF Spec

(* The state of a run keeps its types, over any number of attempts.        *)
THEOREM TypeCorrect == Spec => []TypeOK
<1>1. IInv => TypeOK
  BY DEF IInv
<1> QED
  BY <1>1, Invariance, PTL

(* Acceptance counts only work of a pool that was together in the          *)
(* coordinator's attempt (discover, hold, and the names with the attempt). *)
THEOREM OnePool == Spec => []PoolOfOneAttempt
<1>1. IInv => PoolOfOneAttempt
  BY DEF IInv, PoolJoined
<1> QED
  BY <1>1, Invariance, PTL

(* What one job leaves, the next one needs (Export, the uploads and the    *)
(* downloads of test and acceptance jobs).                                 *)
THEOREM Handover == Spec => []HandoverComplete
<1>1. IInv => HandoverComplete
  <2> SUFFICES ASSUME IInv PROVE HandoverComplete
    OBVIOUS
  <2>1. ASSUME NEW t \in Test, MayStart(t) PROVE PlannedOut(t) \in closureArt
    <3>1. job[t] = "waiting" /\ job["plan"] = "success" /\ job["coordinator"] = "success"
      BY <2>1, DistinctJobs DEF MayStart, NeedsSucceeded, Needs
    <3>2. t \in Planned
      BY <3>1 DEF IInv, PlanFirst
    <3>3. Roots \subseteq closureArt
      BY <3>1 DEF IInv, HandedOver, Archived
    <3> QED
      BY <3>2, <3>3 DEF Roots
  <2>2. ASSUME MayAccept, ResultsFine, Received \subseteq Planned
        PROVE  DagVerified(dagArt) /\ TestsVerified
    <3>1. job["plan"] = "success" /\ job["coordinator"] = "success" /\ planArt \in Plan
      BY <2>2 DEF ResultsFine, IInv, PlanFirst
    <3>2. Checks # None /\ Planned \subseteq Test
      BY <3>1, PlanFacts, NamesAssumption DEF Checks, Planned
    <3>3. DagVerified(dagArt)
      BY <3>1, <3>2 DEF DagVerified, IInv, HandedOver
    <3>4. \A t \in Planned : testArt[t] = Evidence(t, TRUE)
      BY <2>2, <3>1, <3>2 DEF ResultsFine, TestsResultFine, IInv, HandedOver
    <3>5. \A t \in Planned : Evidence(t, TRUE) # None
      <4>1. \A t \in Planned : Evidence(t, TRUE) \in TestEvidence
        BY <3>1, PlanFacts DEF Evidence, TestEvidence, PlannedOut, Planned
      <4> QED
        BY <4>1, NamesAssumption
    <3>6. Received = Planned
      BY <2>2, <3>2, <3>4, <3>5 DEF Received
    <3> QED
      BY <3>3, <3>4, <3>6 DEF TestsVerified
  <2> QED
    BY <2>1, <2>2 DEF HandoverComplete
<1> QED
  BY <1>1, Invariance, PTL

-----------------------------------------------------------------------------
(***************************************************************************)
(* Refinement: seen through its acceptance job, the run is an exact-head   *)
(* gate.                                                                   *)
(***************************************************************************)

LEMMA InventoryOf ==
  ASSUME planArt \in Plan
  PROVE  /\ InventoryInForce = Items(Checks, Planned)
         /\ InventoryInForce \in {Items(p.checks, DOMAIN p.tests) : p \in Plan}
BY PlanFacts DEF InventoryInForce, Checks, Planned

(* Steps before acceptance re-evaluate, build, or stutter.                 *)
LEMMA OpenStep ==
  ASSUME IInv, IInv', job["acceptance"] = "waiting", job'["acceptance"] = "waiting",
         \/ UNCHANGED done /\ planArt' \in Plan
         \/ UNCHANGED planArt /\ done \subseteq done'
  PROVE  [Gate!Next]_Gate!vars
<1>1. Verdict = "open" /\ Verdict' = "open"
  BY DEF Verdict
<1>2. CASE UNCHANGED done /\ planArt' \in Plan
  <2>1. InventoryInForce' \in {Items(p.checks, DOMAIN p.tests) : p \in Plan}
    BY <1>2, PlanFacts DEF InventoryInForce, Checks, Planned
  <2> QED
    BY <1>1, <1>2, <2>1 DEF Gate!Next, Gate!Evaluate
<1>3. CASE UNCHANGED planArt /\ done \subseteq done'
  <2>1. UNCHANGED InventoryInForce
    BY <1>3 DEF InventoryInForce, Checks, Planned
  <2>2. done' = done \union done' /\ done' \in SUBSET Items(Drv, Test)
    BY <1>3 DEF IInv, TypeOK
  <2> QED
    BY <1>1, <2>1, <2>2 DEF Gate!Next, Gate!Build
<1> QED
  BY <1>2, <1>3

(* Acceptance turns green only over evidence, and that is truthful.        *)
LEMMA AcceptanceRefines ==
  ASSUME IInv, Accept \/ Refuse
  PROVE  [Gate!Next]_Gate!vars
<1>1. UNCHANGED <<planArt, done>> /\ job["acceptance"] = "waiting"
  BY DEF Accept, Refuse, MayAccept, artifacts
<1>2. Verdict = "open" /\ UNCHANGED InventoryInForce
  BY <1>1 DEF Verdict, InventoryInForce, Checks, Planned
<1>3. CASE Refuse
  <2>1. Verdict' = "red"
    BY <1>3, DistinctJobs DEF Refuse, Conclude, Verdict, IInv, TypeOK
  <2> QED
    BY <1>1, <1>2, <2>1 DEF Gate!Next, Gate!Reject
<1>4. CASE Accept
  <2>1. Verdict' = "green"
    BY <1>4, DistinctJobs DEF Accept, Conclude, Verdict, IInv, TypeOK
  <2>2. planArt \in Plan
    BY <1>4 DEF Accept, ResultsFine, IInv, PlanFirst
  <2>3. Items(Checks, {}) \subseteq done
    BY <1>4 DEF Accept, DagVerified, IInv, EvidenceTruthful, ChecksTruthful
  <2>4. \A t \in Planned : <<"test", t>> \in done
    <3>1. Planned \subseteq Test
      BY <2>2, PlanFacts DEF Planned
    <3>2. \A t \in Planned : testArt[t] = Evidence(t, TRUE) /\ Evidence(t, TRUE) # None
      <4>1. \A t \in Planned : Evidence(t, TRUE) \in TestEvidence
        BY <2>2, PlanFacts DEF Evidence, TestEvidence, PlannedOut, Planned
      <4> QED
        BY <1>4, <4>1, NamesAssumption DEF Accept, TestsVerified
    <3>3. \A t \in Planned : Evidence(t, TRUE).pass = TRUE
      BY DEF Evidence
    <3> QED
      BY <3>1, <3>2, <3>3 DEF IInv, EvidenceTruthful, TestTruthful
  <2>5. Items(Checks, Planned) \subseteq done
    BY <2>3, <2>4 DEF Items
  <2> QED
    BY <1>1, <1>2, <2>1, <2>2, <2>5, InventoryOf DEF Gate!Next, Gate!Accept
<1> QED
  BY <1>3, <1>4

LEMMA RerunRefines ==
  ASSUME IInv, Rerun
  PROVE  [Gate!Next]_Gate!vars
<1>1. UNCHANGED <<planArt, done>> /\ job["acceptance"] \in {"success", "failure"}
  BY DistinctJobs DEF Rerun, artifacts, IInv, TypeOK, Concluded
<1>2. job'["acceptance"] = "waiting"
  BY RerunInv
<1>3. Verdict # "open" /\ Verdict' = "open" /\ UNCHANGED InventoryInForce
  BY <1>1, <1>2 DEF Verdict, InventoryInForce, Checks, Planned
<1> QED
  BY <1>1, <1>3 DEF Gate!Next, Gate!Reopen

LEMMA StepRefines == IInv /\ IInv' /\ [Next]_vars => [Gate!Next]_Gate!vars
<1> SUFFICES ASSUME IInv, IInv', [Next]_vars PROVE [Gate!Next]_Gate!vars
  OBVIOUS
<1>1. ASSUME NEW j \in Job, job[j] \notin Concluded PROVE job["acceptance"] = "waiting"
  BY <1>1 DEF IInv, AcceptanceLast
<1>2. CASE Accept \/ Refuse
  BY <1>2, AcceptanceRefines
<1>3. CASE Rerun
  BY <1>3, RerunRefines
<1>4. CASE UNCHANGED vars
  <2>1. UNCHANGED <<Verdict, InventoryInForce, done>>
    BY <1>4 DEF vars, Verdict, InventoryInForce, Checks, Planned
  <2> QED
    BY <2>1 DEF Gate!vars
<1>5. CASE PlanStep
  <2>1. /\ UNCHANGED done /\ planArt' \in Plan \union {planArt}
        /\ job["plan"] = "waiting"
    BY <1>5 DEF PlanStep, PlanSucceeds, PlanFails, MayStart
  <2>2. job["acceptance"] = "waiting"
    BY <2>1, <1>1, DistinctJobs DEF Concluded
  <2>3. job'["acceptance"] = "waiting"
    BY <1>5, <2>2, DistinctJobs DEF PlanStep, PlanSucceeds, PlanFails, Conclude, IInv, TypeOK
  <2> QED
    BY <2>1, <2>2, <2>3, OpenStep
<1>6. ASSUME NEW w \in Worker, WorkerStep(w) PROVE [Gate!Next]_Gate!vars
  <2>1. UNCHANGED <<planArt, done>> /\ job[w] \notin Concluded
    BY <1>6 DEF WorkerStep, WorkerServes, HoldEnds, MayStart, Concluded, artifacts
  <2>2. job["acceptance"] = "waiting"
    BY <2>1, <1>1, DistinctJobs
  <2>3. job'["acceptance"] = "waiting"
    BY <1>6, <2>2, DistinctJobs DEF WorkerStep, WorkerServes, HoldEnds, Conclude, IInv, TypeOK
  <2> QED
    BY <2>1, <2>2, <2>3, OpenStep
<1>7. CASE CoordinatorStep
  <2>1. /\ UNCHANGED planArt /\ done \subseteq done' /\ job["coordinator"] \notin Concluded
        /\ job' = job \/ \E status \in Status : Conclude("coordinator", status)
    <3>1. CASE CoordinatorStarts \/ (\E w \in Worker : Probe(w)) \/ Discovered \/ DiscoverFails
      BY <3>1 DEF CoordinatorStarts, Probe, Discovered, DiscoverFails, MayStart, Concluded, Status,
                  AtWork, Building, Releasing, artifacts
    <3>2. CASE BuildChecks \/ BuildTests \/ Export \/ VerifyAndPublish
      BY <3>2 DEF BuildChecks, BuildTests, Export, VerifyAndPublish, Concluded, Status, AtWork,
                  Building, Releasing, artifacts
    <3>3. CASE Release \/ CoordinatorEnds
      BY <3>3 DEF Release, CoordinatorEnds, Concluded, Status, AtWork, Releasing, Leaving, artifacts
    <3> QED
      BY <1>7, <3>1, <3>2, <3>3 DEF CoordinatorStep
  <2>2. job["acceptance"] = "waiting"
    BY <2>1, <1>1, DistinctJobs
  <2>3. job'["acceptance"] = "waiting"
    BY <2>1, <2>2, DistinctJobs DEF Conclude, IInv, TypeOK
  <2> QED
    BY <2>1, <2>2, <2>3, OpenStep
<1>8. ASSUME NEW t \in Test, TestStep(t) PROVE [Gate!Next]_Gate!vars
  <2>1. UNCHANGED planArt /\ done \subseteq done' /\ job[t] \notin Concluded
    BY <1>8 DEF TestStep, TestRefused, TestRuns, TestEnds, MayStart, Concluded, artifacts
  <2>2. job["acceptance"] = "waiting"
    BY <2>1, <1>1, DistinctJobs
  <2>3. job'["acceptance"] = "waiting"
    BY <1>8, <2>2, DistinctJobs DEF TestStep, TestRefused, TestRuns, TestEnds, Conclude, IInv, TypeOK
  <2> QED
    BY <2>1, <2>2, <2>3, OpenStep
<1>9. ASSUME NEW j \in Job, Skip(j) \/ LoseRunner(j) PROVE [Gate!Next]_Gate!vars
  <2>1. UNCHANGED <<planArt, done>> /\ job[j] \notin Concluded
    BY <1>9 DEF Skip, LoseRunner, artifacts, Concluded
  <2>2. job["acceptance"] = "waiting"
    BY <2>1, <1>1
  <2>3. j # "acceptance"
    BY <1>9, <2>2 DEF Skip, LoseRunner
  <2>4. job'["acceptance"] = "waiting"
    BY <1>9, <2>2, <2>3, DistinctJobs DEF Skip, LoseRunner, Conclude, IInv, TypeOK
  <2> QED
    BY <2>1, <2>2, <2>4, OpenStep
<1>10. CASE Cancel
  <2>1. PICK j \in Job \ {"acceptance"} : Cancelled(j) # job[j]
    BY <1>10 DEF Cancel
  <2>2. job[j] \notin Concluded
    BY <2>1 DEF Cancelled, Concluded, Building
  <2>3. job["acceptance"] = "waiting"
    BY <2>2, <1>1
  <2>4. UNCHANGED <<planArt, done>> /\ job'["acceptance"] = "waiting"
    BY <1>10, <2>3, DistinctJobs DEF Cancel, artifacts
  <2> QED
    BY <2>3, <2>4, OpenStep
<1> QED
  BY <1>2, <1>3, <1>4, <1>5, <1>6, <1>7, <1>8, <1>9, <1>10 DEF Next

(* The remote run implements the exact-head gate: initial states map to    *)
(* initial states and every step to a gate step or a stutter.              *)
THEOREM RemoteRunImplementsGate == Spec => ImplementsGate
<1>1. Init => Gate!Init
  BY DistinctJobs DEF Init, Gate!Init, Verdict, InventoryInForce
<1>2. IInv /\ IInv' /\ [Next]_vars => [Gate!Next]_Gate!vars
  BY StepRefines
<1> QED
  BY <1>1, <1>2, Invariance, PTL DEF Spec, ImplementsGate, Gate!Spec
=============================================================================
