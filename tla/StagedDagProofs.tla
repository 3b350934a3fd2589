---------------------------- MODULE StagedDagProofs ----------------------------
(***************************************************************************)
(* For every set of shards, checks, derivations and plans, any dependency  *)
(* graph and any number of attempts: the types of StagedDag, the complete  *)
(* handover between leaves and join, that no check is built twice, and the *)
(* refinement of ExactHeadGate.                                            *)
(***************************************************************************)
EXTENDS StagedDag, TLAPS

(* Every job but plan and join works for the plan in force; the leaves     *)
(* work with the shared outputs in force.                                  *)
PlanFirst ==
  /\ job["plan"] \in {"waiting", "success", "failure", "cancelled"}
  /\ job["shared"] \notin Phase \union {"absent"}
  /\ job["plan"] = "waiting" => \A j \in Job : job[j] = "waiting"
  /\ job["plan"] = "success" =>
       /\ planArt \in Plans
       /\ \A s \in Shard : job[s] = "absent" <=> s \notin Leaves(planArt)
  /\ job["shared"] = "success" => job["plan"] = "success"
  /\ \A s \in Shard : job[s] \in Phase \union {"success"} => job["shared"] = "success"

(* The join job is the last one, and works after success only.             *)
JoinLast ==
  /\ job["join"] \in {"waiting", "success", "failure"} \union Phase
  /\ job["join"] # "waiting" => \A j \in Job \ {"join"} : job[j] \in Concluded
  /\ job["join"] \in Phase \union {"success"} => Predecessors

SharedCurrent ==
  job["shared"] = "success" => sharedArt \in SharedEvidence /\ SharedMatches

(* What a leaf builds and hands over.                                      *)
LeafDrvs(s)  == DrvsOf(planArt, LeafChecks(planArt, s))
LeafRun(s)   == Closure(LeafDrvs(s)) \intersect Drv
GoodFiles(s) == [evidence |-> EvidenceOf(planArt, s), archive |-> Exported(LeafDrvs(s))]

(* It realises its checks; it builds at most them and what they need.      *)
Realised(s)  == LeafDrvs(s) \subseteq built /\ builtBy[s] \subseteq LeafRun(s)

LeafReady(s) ==
  /\ job[s] \in {"restored", "checked"} => files[s] = NoFiles
  /\ job[s] = "built" /\ files[s].evidence # None => files[s] = GoodFiles(s) /\ Realised(s)
  /\ job[s] = "success" => leafArt[s] = GoodFiles(s) /\ Realised(s)

HandedDrvs == UNION {LeafRun(s) : s \in Leaves(planArt)}

(* The progress of the join job.                                           *)
JoinReady ==
  /\ job["join"] = "checked" => sharedArt.outputs \subseteq store["join"]
  /\ job["join"] = "imported" => HandedDrvs \subseteq store["join"]
  /\ job["join"] \in {"joined", "success"} =>
       /\ builtBy["join"] \intersect HandedDrvs = {}
       /\ DrvsOf(planArt, Names(planArt)) \subseteq built

IInv ==
  /\ TypeOK /\ PlanFirst /\ JoinLast /\ SharedCurrent
  /\ JoinReady /\ \A s \in Shard : LeafReady(s)

-----------------------------------------------------------------------------
(***************************************************************************)
(* Plans, closures and evidence.                                           *)
(***************************************************************************)

LEMMA DistinctJobs ==
  /\ "plan" \in Job /\ "shared" \in Job /\ "join" \in Job /\ "join" \in Machine
  /\ "plan" \notin Shard /\ "shared" \notin Shard /\ "join" \notin Shard
  /\ Shard \subseteq Job /\ Shard \subseteq Machine
BY JobsDistinct DEF Job, Machine

LEMMA PlanFacts ==
  ASSUME NEW p \in Plans
  PROVE  /\ p # None /\ p.digest \in Nat /\ p.targets \subseteq Target
         /\ \A t \in p.targets : p.outputs[t] \in Path
         /\ Names(p) \subseteq Check
         /\ \A c \in Names(p) : p.checks[c] \in Drv
         /\ \A names \in SUBSET Names(p) : DrvsOf(p, names) \subseteq Drv
         /\ Initial(p) \subseteq Names(p) /\ Delayed(p) \subseteq Names(p)
         /\ Initial(p) \union Delayed(p) = Names(p) /\ Initial(p) \intersect Delayed(p) = {}
         /\ \A s \in Shard : LeafChecks(p, s) \subseteq Initial(p)
         /\ \A c \in Initial(p) : \E s \in Leaves(p) : c \in LeafChecks(p, s)
         /\ \A s, t \in Shard : s # t => LeafChecks(p, s) \intersect LeafChecks(p, t) = {}
<1>1. /\ p \in PlanShape /\ p # None
      /\ Names(p) = UNION {p.shards[s] : s \in Shard}
      /\ \A s, t \in Shard : s # t => p.shards[s] \intersect p.shards[t] = {}
  BY PlansAssumption
<1>2. /\ p.digest \in Nat /\ p.targets \subseteq Target
      /\ \A t \in p.targets : p.outputs[t] \in Path
  BY <1>1 DEF PlanShape
<1>3. /\ Names(p) \subseteq Check
      /\ \A c \in Names(p) : p.checks[c] \in Drv
  BY <1>1 DEF PlanShape, Names
<1>4. \A names \in SUBSET Names(p) : DrvsOf(p, names) \subseteq Drv
  BY <1>3 DEF DrvsOf
<1>5. /\ Initial(p) \subseteq Names(p) /\ Delayed(p) \subseteq Names(p)
      /\ Initial(p) \union Delayed(p) = Names(p) /\ Initial(p) \intersect Delayed(p) = {}
  BY DEF Initial, Delayed
<1>6. \A s \in Shard : LeafChecks(p, s) \subseteq Initial(p)
  BY DEF LeafChecks
<1>7. ASSUME NEW c \in Initial(p) PROVE \E s \in Leaves(p) : c \in LeafChecks(p, s)
  BY <1>1, <1>5 DEF Leaves, LeafChecks
<1>8. \A s, t \in Shard : s # t => LeafChecks(p, s) \intersect LeafChecks(p, t) = {}
  BY <1>1 DEF LeafChecks
<1> QED
  BY <1>1, <1>2, <1>3, <1>4, <1>5, <1>6, <1>7, <1>8

LEMMA ClosureFacts ==
  ASSUME NEW drvs \in SUBSET Drv
  PROVE  /\ Closure(drvs) \subseteq Item /\ drvs \subseteq Closure(drvs)
         /\ \A d \in Closure(drvs) \intersect Drv : Inputs[d] \subseteq Closure(drvs)
<1>1. \A d \in Drv : Inputs[d] \subseteq Item
  BY InputsAssumption
<1>2. Closure(drvs) \subseteq Item /\ drvs \subseteq Closure(drvs)
  BY <1>1 DEF Closure, Item
<1>3. ASSUME NEW d \in Closure(drvs) \intersect Drv, NEW i \in Inputs[d]
      PROVE  i \in Closure(drvs)
  <2>1. CASE d \in drvs
    BY <2>1 DEF Closure
  <2>2. ASSUME NEW e \in drvs, d \in Inputs[e] PROVE i \in Closure(drvs)
    BY <1>3, <2>2, InputsAssumption DEF Closure
  <2> QED
    BY <1>3, <2>1, <2>2 DEF Closure
<1> QED
  BY <1>2, <1>3

(* A check with a derivation of its own is needed by the leaf that lists   *)
(* it and by no other: leaves have no dependent checks (graph_summary,     *)
(* partition).                                                             *)
LEMMA LeafOwns ==
  ASSUME NEW p \in Plans, NEW c \in Names(p), NEW s \in Shard,
         \A d \in Names(p) \ {c} : p.checks[d] # p.checks[c]
  PROVE  p.checks[c] \in Closure(DrvsOf(p, LeafChecks(p, s))) <=> c \in LeafChecks(p, s)
<1>1. LeafChecks(p, s) \subseteq Names(p) /\ LeafChecks(p, s) \subseteq Initial(p)
  BY PlanFacts
<1>2. ASSUME p.checks[c] \in Closure(DrvsOf(p, LeafChecks(p, s))) PROVE c \in LeafChecks(p, s)
  <2>1. PICK d \in LeafChecks(p, s) : p.checks[c] = p.checks[d] \/ p.checks[c] \in Inputs[p.checks[d]]
    BY <1>2 DEF Closure, DrvsOf
  <2>2. CASE c = d
    BY <2>2
  <2>3. CASE c # d
    <3>1. p.checks[c] \in Inputs[p.checks[d]]
      BY <1>1, <2>1, <2>3
    <3>2. c \in Dependencies(p, d)
      BY <2>3, <3>1 DEF Dependencies
    <3> QED
      BY <1>1, <3>2 DEF Initial
  <2> QED
    BY <2>2, <2>3
<1>3. ASSUME c \in LeafChecks(p, s) PROVE p.checks[c] \in Closure(DrvsOf(p, LeafChecks(p, s)))
  BY <1>3 DEF Closure, DrvsOf
<1> QED
  BY <1>2, <1>3

(* Evidence is a value of its own, and good files have it.                 *)
LEMMA GoodFacts ==
  ASSUME planArt \in Plans, sharedArt \in SharedEvidence, NEW s \in Shard
  PROVE  /\ LeafDrvs(s) \subseteq Drv /\ LeafRun(s) \subseteq Drv
         /\ GoodFiles(s) \in LeafFiles /\ GoodFiles(s).evidence # None
         /\ GoodFiles(s).evidence = EvidenceOf(planArt, s)
         /\ GoodFiles(s).archive = Closure(LeafDrvs(s)) \ sharedArt.outputs
         /\ GoodFiles(s).archive \intersect Drv = LeafRun(s)
         /\ LeafDrvs(s) \subseteq LeafRun(s)
         /\ sharedArt.outputs \subseteq Path
<1>1. LeafDrvs(s) \subseteq Drv
  BY PlanFacts DEF LeafDrvs
<1>2. Closure(LeafDrvs(s)) \subseteq Item /\ LeafDrvs(s) \subseteq Closure(LeafDrvs(s))
  BY <1>1, ClosureFacts
<1>3. EvidenceOf(planArt, s) \in Evidence
  BY DEF Evidence
<1>4. sharedArt.outputs \subseteq Path
  BY DEF SharedEvidence
<1>5. GoodFiles(s).archive = Closure(LeafDrvs(s)) \ sharedArt.outputs
  BY DEF GoodFiles, Exported
<1>6. GoodFiles(s) \in LeafFiles
  BY <1>2, <1>3, <1>5 DEF GoodFiles, LeafFiles, Exported
<1>7. GoodFiles(s).evidence = EvidenceOf(planArt, s) /\ EvidenceOf(planArt, s) # None
  BY <1>3, NoneAssumption DEF GoodFiles
<1>8. GoodFiles(s).archive \intersect Drv = LeafRun(s)
  BY <1>4, <1>5, PlansAssumption DEF LeafRun
<1> QED
  BY <1>1, <1>2, <1>4, <1>5, <1>6, <1>7, <1>8 DEF LeafRun

LEMMA InitIInv == Init => IInv
<1> SUFFICES ASSUME Init PROVE IInv
  OBVIOUS
<1>1. NoFiles \in LeafFiles /\ NoFiles.evidence = None
  BY DEF NoFiles, LeafFiles
<1>2. TypeOK
  <2>1. attempt \in 1 .. MaxAttempt
    BY AttemptAssumption DEF Init
  <2>2. job \in [Job -> Status]
    BY DEF Init, Status
  <2>3. files \in [Shard -> LeafFiles] /\ leafArt \in [Shard -> LeafFiles]
    BY <1>1 DEF Init
  <2> QED
    BY <2>1, <2>2, <2>3 DEF Init, TypeOK
<1>3. PlanFirst /\ JoinLast /\ SharedCurrent
  BY DistinctJobs DEF Init, PlanFirst, JoinLast, SharedCurrent, Phase
<1>4. \A s \in Shard : LeafReady(s)
  BY <1>1, DistinctJobs DEF Init, LeafReady
<1>5. JoinReady
  BY DistinctJobs DEF Init, JoinReady
<1> QED
  BY <1>2, <1>3, <1>4, <1>5 DEF IInv

-----------------------------------------------------------------------------
(***************************************************************************)
(* What the steps of several jobs have in common.                          *)
(***************************************************************************)

(* A step that leaves a leaf's machine and artifact alone.                 *)
LEMMA LeafKept ==
  ASSUME NEW s \in Shard, LeafReady(s),
         UNCHANGED <<planArt, sharedArt, leafArt[s], builtBy[s]>>,
         UNCHANGED files[s] \/ job'[s] \notin {"restored", "checked", "built"},
         built \subseteq built',
         job'[s] = job[s] \/ job'[s] \notin {"restored", "checked", "built", "success"}
  PROVE  LeafReady(s)'
<1>1. /\ LeafDrvs(s)' = LeafDrvs(s) /\ LeafRun(s)' = LeafRun(s) /\ GoodFiles(s)' = GoodFiles(s)
  BY DEF LeafDrvs, LeafRun, GoodFiles, Exported
<1>2. Realised(s) => Realised(s)'
  BY <1>1 DEF Realised
<1> QED
  BY <1>1, <1>2 DEF LeafReady

(* A leaf's job takes a step: the control parts of the invariant.          *)
LEMMA ShardMoves ==
  ASSUME IInv, NEW s \in Shard, NEW status \in Status \ {"waiting", "absent"},
         job[s] \notin Concluded, Conclude(s, status), UNCHANGED <<planArt, sharedArt>>,
         job["plan"] # "waiting",
         status \in Phase \union {"success"} => job["shared"] = "success"
  PROVE  /\ job' \in [Job -> Status] /\ job'[s] = status
         /\ \A j \in Job \ {s} : job'[j] = job[j]
         /\ PlanFirst' /\ JoinLast' /\ SharedCurrent' /\ JoinReady'
<1>1. /\ job' \in [Job -> Status] /\ job'[s] = status
      /\ \A j \in Job \ {s} : job'[j] = job[j]
  BY DistinctJobs DEF Conclude, IInv, TypeOK
<1>2. job["join"] = "waiting"
  BY DistinctJobs DEF IInv, JoinLast
<1>3. job'["join"] = "waiting"
  BY <1>1, <1>2, DistinctJobs
<1>4. job'["plan"] = job["plan"] /\ job'["shared"] = job["shared"]
  BY <1>1, DistinctJobs
<1>5. PlanFirst'
  <2>1. job["plan"] = "success" => \A t \in Shard : job'[t] = "absent" <=> t \notin Leaves(planArt)
    <3>1. \A t \in Shard : job'[t] = "absent" <=> job[t] = "absent"
      BY <1>1, DistinctJobs DEF Concluded
    <3> QED
      BY <3>1 DEF IInv, PlanFirst
  <2>2. \A t \in Shard : job'[t] \in Phase \union {"success"} => job'["shared"] = "success"
    BY <1>1, <1>4, DistinctJobs DEF IInv, PlanFirst
  <2> QED
    BY <1>4, <2>1, <2>2 DEF IInv, PlanFirst
<1>6. JoinLast'
  BY <1>3 DEF JoinLast, Phase
<1>7. SharedCurrent'
  BY <1>4 DEF IInv, SharedCurrent, SharedMatches
<1>8. JoinReady'
  BY <1>3 DEF JoinReady
<1> QED
  BY <1>1, <1>5, <1>6, <1>7, <1>8

(* A step of the join job leaves everything else as it is.                 *)
LEMMA JoinMoves ==
  ASSUME IInv, NEW status \in Phase \union {"success", "failure"},
         Conclude("join", status),
         UNCHANGED <<attempt, files, planArt, sharedArt, leafArt>>,
         \A s \in Shard : UNCHANGED builtBy[s],
         built \subseteq built',
         \A j \in Job \ {"join"} : job[j] \in Concluded,
         status \in Phase \union {"success"} => Predecessors
  PROVE  /\ job' \in [Job -> Status] /\ job'["join"] = status
         /\ PlanFirst' /\ JoinLast' /\ SharedCurrent'
         /\ \A s \in Shard : LeafReady(s)'
<1>1. /\ job' \in [Job -> Status] /\ job'["join"] = status
      /\ \A j \in Job \ {"join"} : job'[j] = job[j]
  BY DistinctJobs DEF Conclude, IInv, TypeOK, Status, Concluded
<1>2. /\ job'["plan"] = job["plan"] /\ job'["shared"] = job["shared"]
      /\ \A s \in Shard : job'[s] = job[s]
  BY <1>1, DistinctJobs
<1>3. job["plan"] # "waiting"
  BY DistinctJobs DEF Concluded
<1>4. PlanFirst'
  BY <1>2, <1>3 DEF IInv, PlanFirst
<1>5. JoinLast'
  BY <1>1 DEF JoinLast, Predecessors
<1>6. SharedCurrent'
  BY <1>2 DEF IInv, SharedCurrent, SharedMatches
<1>7. \A s \in Shard : LeafReady(s)'
  BY <1>2, LeafKept DEF IInv
<1> QED
  BY <1>1, <1>4, <1>5, <1>6, <1>7

-----------------------------------------------------------------------------
(***************************************************************************)
(* Every step preserves the invariant: one lemma per kind of step.         *)
(***************************************************************************)

LEMMA PlanStepInv == IInv /\ PlanStep => IInv'
<1> SUFFICES ASSUME IInv, PlanStep PROVE IInv'
  OBVIOUS
<1>1. \A j \in Job : job[j] = "waiting"
  BY DEF PlanStep, PlanSucceeds, PlanFails, IInv, PlanFirst
<1>2. /\ job' \in [Job -> Status]
      /\ job'["plan"] \in {"success", "failure"}
      /\ job'["shared"] = "waiting" /\ job'["join"] = "waiting"
      /\ \A s \in Shard : job'[s] \in {"waiting", "absent"}
      /\ planArt' \in Plans \union {None}
      /\ job'["plan"] = "success" =>
           planArt' \in Plans /\ \A s \in Shard : job'[s] = "absent" <=> s \notin Leaves(planArt)'
      /\ UNCHANGED <<attempt, store, files, sharedArt, leafArt, built, builtBy>>
  <2>1. CASE PlanFails
    <3>1. job' = [job EXCEPT !["plan"] = "failure"] /\ planArt' \in {planArt} \union Plans
      BY <2>1 DEF PlanFails, Conclude
    <3>2. job' \in [Job -> Status] /\ planArt' \in Plans \union {None}
      BY <3>1, DistinctJobs DEF IInv, TypeOK, Status, Concluded
    <3> QED
      BY <1>1, <2>1, <3>1, <3>2, DistinctJobs DEF PlanFails, IInv, TypeOK
  <2>2. ASSUME NEW p \in Plans, PlanSucceeds(p) PROVE <1>2!:
    <3>1. /\ planArt' = p
          /\ job' = [j \in Job |-> CASE j = "plan" -> "success"
                             [] j \in Shard \ Leaves(p) -> "absent"
                             [] OTHER -> job[j]]
          /\ UNCHANGED <<attempt, store, files, sharedArt, leafArt, built, builtBy>>
      BY <2>2 DEF PlanSucceeds
    <3>2. \A j \in Job : job'[j] = IF j = "plan" THEN "success"
                           ELSE IF j \in Shard \ Leaves(p) THEN "absent" ELSE "waiting"
      BY <1>1, <3>1, DistinctJobs
    <3>3. job' \in [Job -> Status]
      BY <3>1, <3>2 DEF Status, Concluded
    <3>4. /\ job'["plan"] = "success" /\ job'["shared"] = "waiting" /\ job'["join"] = "waiting"
      BY <3>2, DistinctJobs
    <3>5. \A s \in Shard : job'[s] = IF s \in Leaves(p) THEN "waiting" ELSE "absent"
      BY <3>2, DistinctJobs
    <3>6. Leaves(planArt)' = Leaves(p)
      BY <3>1 DEF Leaves, LeafChecks, Initial, Dependencies, Names
    <3> QED
      BY <3>1, <3>3, <3>4, <3>5, <3>6
  <2> QED
    BY <2>1, <2>2 DEF PlanStep
<1>3. TypeOK'
  BY <1>2 DEF IInv, TypeOK
<1>4. PlanFirst' /\ JoinLast' /\ SharedCurrent' /\ JoinReady'
  BY <1>2 DEF PlanFirst, JoinLast, SharedCurrent, JoinReady, Phase
<1>5. \A s \in Shard : LeafReady(s)'
  BY <1>2 DEF IInv, LeafReady
<1> QED
  BY <1>3, <1>4, <1>5 DEF IInv

(* The job of the shared outputs is built, fails or is skipped.            *)
LEMMA SharedStepInv == IInv /\ (SharedBuild \/ Skip("shared")) => IInv'
<1> SUFFICES ASSUME IInv, SharedBuild \/ Skip("shared") PROVE IInv'
  OBVIOUS
<1>1. job["shared"] = "waiting" /\ job["plan"] # "waiting"
  BY JobsDistinct DEF SharedBuild, Skip, NeedsSucceeded, NeedsConcluded, Needs, Concluded
<1>2. PICK status \in {"success", "failure", "skipped"} :
        /\ Conclude("shared", status)
        /\ status = "success" =>
             job["plan"] = "success" /\ \E w \in Plans :
               sharedArt' = [digest |-> planArt.digest, targets |-> planArt.targets,
                             outputs |-> {w.outputs[t] : t \in planArt.targets}]
  BY JobsDistinct DEF SharedBuild, Skip, NeedsSucceeded, Needs, IInv, PlanFirst
<1>3. /\ UNCHANGED <<attempt, store, files, planArt, leafArt, built, builtBy>>
      /\ sharedArt' \in SharedEvidence \union {None}
  <2>1. CASE SharedBuild
    <3>1. planArt \in Plans
      BY <2>1, JobsDistinct DEF SharedBuild, NeedsSucceeded, Needs, IInv, PlanFirst
    <3>2. ASSUME NEW w \in Plans
          PROVE  [digest |-> planArt.digest, targets |-> planArt.targets,
                  outputs |-> {w.outputs[t] : t \in planArt.targets}] \in SharedEvidence
      <4>1. planArt.digest \in Nat /\ planArt.targets \subseteq Target
        BY <3>1, PlanFacts
      <4>2. \A t \in Target : w.outputs[t] \in Path
        BY PlansAssumption DEF PlanShape
      <4> QED
        BY <4>1, <4>2 DEF SharedEvidence
    <3> QED
      BY <2>1, <3>2 DEF SharedBuild, IInv, TypeOK
  <2>2. CASE Skip("shared")
    BY <2>2 DEF Skip, artifacts, IInv, TypeOK
  <2> QED
    BY <2>1, <2>2
<1>4. /\ job' \in [Job -> Status] /\ job'["shared"] = status
      /\ \A j \in Job \ {"shared"} : job'[j] = job[j]
  BY <1>2, DistinctJobs DEF Conclude, IInv, TypeOK, Status, Concluded
<1>5. /\ job'["plan"] = job["plan"] /\ job["join"] = "waiting" /\ job'["join"] = "waiting"
      /\ \A s \in Shard : job'[s] = job[s] /\ job'[s] \notin Phase \union {"success"}
  BY <1>1, <1>4, DistinctJobs DEF IInv, JoinLast, PlanFirst, Concluded
<1>6. TypeOK'
  BY <1>3, <1>4 DEF IInv, TypeOK
<1>7. PlanFirst'
  BY <1>1, <1>2, <1>3, <1>4, <1>5 DEF IInv, PlanFirst, Phase
<1>8. JoinLast' /\ JoinReady'
  BY <1>5 DEF JoinLast, JoinReady, Phase
<1>9. SharedCurrent'
  <2> SUFFICES ASSUME status = "success"
               PROVE  sharedArt' \in SharedEvidence /\ SharedMatches'
    BY <1>4 DEF SharedCurrent
  <2>1. PICK w \in Plans :
          sharedArt' = [digest |-> planArt.digest, targets |-> planArt.targets,
                        outputs |-> {w.outputs[t] : t \in planArt.targets}]
    BY <1>2
  <2>2. planArt \in Plans /\ planArt.digest \in Nat /\ planArt.targets \subseteq Target
    BY <1>2, PlanFacts DEF IInv, PlanFirst
  <2>3. \A t \in Target : w.outputs[t] \in Path
    BY PlansAssumption DEF PlanShape
  <2> QED
    BY <1>3, <2>1, <2>2, <2>3 DEF SharedEvidence, SharedMatches
<1>10. \A s \in Shard : LeafReady(s)'
  BY <1>3, <1>5 DEF IInv, LeafReady, Phase
<1> QED
  BY <1>6, <1>7, <1>8, <1>9, <1>10 DEF IInv

(* The build of a leaf realises its checks, building what its store lacks. *)
LEMMA LeafBuildInv ==
  ASSUME IInv, NEW s \in Shard, LeafBuild(s)
  PROVE  IInv'
<1>1. /\ job[s] = "checked" /\ Conclude(s, "built")
      /\ UNCHANGED <<attempt, planArt, sharedArt, leafArt>>
  BY DEF LeafBuild, artifacts
<1>2. PICK w \in Plans : \E done \in SUBSET Evaluated(w, LeafChecks(planArt, s)) :
        /\ Records(s, done)
        /\ IF AllRealised(w, LeafChecks(planArt, s), done)
             THEN \E e \in {EvidenceOf(planArt, s), None} :
                    files' = [files EXCEPT ![s] = [evidence |-> e, archive |-> Exported(done)]]
             ELSE UNCHANGED files
        /\ store' = [store EXCEPT ![s] = @ \union Closure(done)]
  BY DEF LeafBuild
<1>3. PICK done \in SUBSET Evaluated(w, LeafChecks(planArt, s)) :
        /\ Records(s, done)
        /\ IF AllRealised(w, LeafChecks(planArt, s), done)
             THEN \E e \in {EvidenceOf(planArt, s), None} :
                    files' = [files EXCEPT ![s] = [evidence |-> e, archive |-> Exported(done)]]
             ELSE UNCHANGED files
        /\ store' = [store EXCEPT ![s] = @ \union Closure(done)]
  BY <1>2
<1>4. /\ job["shared"] = "success" /\ job["plan"] = "success"
      /\ planArt \in Plans /\ sharedArt \in SharedEvidence
      /\ files[s] = NoFiles
  BY <1>1 DEF IInv, PlanFirst, SharedCurrent, LeafReady, Phase
<1>5. done \subseteq Drv
  BY PlanFacts DEF Evaluated
<1>6. /\ Closure(done) \subseteq Item
      /\ Run(done, store[s]) \subseteq Closure(done) \intersect Drv
  BY <1>5, ClosureFacts DEF Run
<1>7. /\ job' \in [Job -> Status] /\ job'[s] = "built"
      /\ \A j \in Job \ {s} : job'[j] = job[j]
      /\ PlanFirst' /\ JoinLast' /\ SharedCurrent' /\ JoinReady'
  BY <1>1, <1>4, ShardMoves DEF Status, Phase, Concluded
<1>8. /\ built' = built \union done
      /\ builtBy' = [builtBy EXCEPT ![s] = Run(done, store[s])]
  BY <1>3 DEF Records
<1>9. ASSUME NEW e \in {EvidenceOf(planArt, s), None}
      PROVE  [evidence |-> e, archive |-> Exported(done)] \in LeafFiles
  BY <1>4, <1>6 DEF LeafFiles, Exported, Evidence
<1>10. TypeOK'
  <2>1. files' \in [Shard -> LeafFiles]
    BY <1>3, <1>9 DEF IInv, TypeOK
  <2>2. store' \in [Machine -> SUBSET Item]
    BY <1>3, <1>6, DistinctJobs DEF IInv, TypeOK
  <2>3. built' \subseteq Drv /\ builtBy' \in [Machine -> SUBSET Drv]
    BY <1>5, <1>6, <1>8 DEF IInv, TypeOK
  <2> QED
    BY <1>1, <1>7, <2>1, <2>2, <2>3 DEF IInv, TypeOK
<1>11. /\ builtBy'[s] = Run(done, store[s])
       /\ \A t \in Shard \ {s} : UNCHANGED <<store[t], files[t], builtBy[t]>>
  BY <1>3, <1>8, DistinctJobs DEF IInv, TypeOK
<1>12. \A t \in Shard \ {s} : LeafReady(t)'
  BY <1>1, <1>7, <1>8, <1>11, LeafKept, DistinctJobs DEF IInv
<1>13. ASSUME files'[s].evidence # None
       PROVE  files'[s] = GoodFiles(s)' /\ Realised(s)'
  <2>1. AllRealised(w, LeafChecks(planArt, s), done)
    BY <1>3, <1>4, <1>13 DEF NoFiles
  <2>2. done = LeafDrvs(s)
    BY <2>1 DEF AllRealised, LeafDrvs
  <2>3. PICK e \in {EvidenceOf(planArt, s), None} :
          files' = [files EXCEPT ![s] = [evidence |-> e, archive |-> Exported(done)]]
    BY <1>3, <2>1
  <2>4. files'[s] = [evidence |-> e, archive |-> Exported(done)]
    BY <2>3 DEF IInv, TypeOK
  <2>5. files'[s] = GoodFiles(s)
    BY <1>13, <2>2, <2>4 DEF GoodFiles
  <2>6. /\ GoodFiles(s)' = GoodFiles(s) /\ LeafRun(s)' = LeafRun(s)
        /\ LeafDrvs(s)' = LeafDrvs(s)
    BY <1>1 DEF GoodFiles, LeafRun, LeafDrvs, Exported
  <2>7. builtBy'[s] \subseteq LeafRun(s) /\ LeafDrvs(s) \subseteq built'
    BY <1>6, <1>8, <1>11, <2>2 DEF LeafRun
  <2> QED
    BY <2>5, <2>6, <2>7 DEF Realised
<1>14. LeafReady(s)'
  BY <1>7, <1>13 DEF LeafReady
<1> QED
  BY <1>7, <1>10, <1>12, <1>14 DEF IInv

LEMMA LeafStepInv ==
  ASSUME IInv, NEW s \in Shard, LeafStep(s) \/ Skip(s) \/ LoseRunner(s)
  PROVE  IInv'
<1>1. CASE LeafBuild(s)
  BY <1>1, LeafBuildInv
<1>2. CASE NeedsSucceeded(s) /\ Restore(s)
  <2>1. /\ job[s] = "waiting" /\ Conclude(s, "restored")
        /\ UNCHANGED <<attempt, planArt, sharedArt, leafArt, built>>
        /\ files' = [files EXCEPT ![s] = NoFiles]
        /\ builtBy' = [builtBy EXCEPT ![s] = {}]
    BY <1>2 DEF Restore, artifacts
  <2>2. PICK items \in SUBSET Item : store' = [store EXCEPT ![s] = items]
    BY <1>2 DEF Restore
  <2>3. job["plan"] = "success" /\ job["shared"] = "success"
    BY <1>2, JobsDistinct DEF NeedsSucceeded, Needs, IInv, PlanFirst
  <2>4. /\ job' \in [Job -> Status] /\ job'[s] = "restored"
        /\ \A j \in Job \ {s} : job'[j] = job[j]
        /\ PlanFirst' /\ JoinLast' /\ SharedCurrent' /\ JoinReady'
    BY <2>1, <2>3, ShardMoves DEF Status, Phase, Concluded
  <2>5. TypeOK'
    <3>1. NoFiles \in LeafFiles
      BY DEF NoFiles, LeafFiles
    <3>2. store' \in [Machine -> SUBSET Item]
      BY <2>2 DEF IInv, TypeOK
    <3> QED
      BY <2>1, <2>4, <3>1, <3>2 DEF IInv, TypeOK
  <2>6. /\ files'[s] = NoFiles
        /\ \A t \in Shard \ {s} : UNCHANGED <<files[t], builtBy[t]>>
    BY <2>1, DistinctJobs DEF IInv, TypeOK
  <2>7. \A t \in Shard \ {s} : LeafReady(t)'
    BY <2>1, <2>4, <2>6, LeafKept, DistinctJobs DEF IInv
  <2>8. LeafReady(s)'
    BY <2>1, <2>4, <2>6 DEF IInv, LeafReady
  <2> QED
    BY <2>4, <2>5, <2>7, <2>8 DEF IInv
<1>3. CASE LeafUpload(s)
  <2>1. PICK status \in {"success", "failure"} :
          /\ Conclude(s, status)
          /\ \/ leafArt' = [leafArt EXCEPT ![s] = files[s]]
                /\ (status = "success" => files[s].evidence # None)
             \/ UNCHANGED leafArt /\ status = "failure"
    BY <1>3 DEF LeafUpload
  <2>2. /\ job[s] = "built"
        /\ UNCHANGED <<attempt, store, files, planArt, sharedArt, built, builtBy>>
    BY <1>3 DEF LeafUpload
  <2>3. job["shared"] = "success" /\ job["plan"] = "success"
    BY <2>2 DEF IInv, PlanFirst, Phase
  <2>4. /\ job' \in [Job -> Status] /\ job'[s] = status
        /\ \A j \in Job \ {s} : job'[j] = job[j]
        /\ PlanFirst' /\ JoinLast' /\ SharedCurrent' /\ JoinReady'
    BY <2>1, <2>2, <2>3, ShardMoves DEF Status, Phase, Concluded
  <2>5. leafArt' \in [Shard -> LeafFiles]
    BY <2>1 DEF IInv, TypeOK
  <2>6. TypeOK'
    BY <2>2, <2>4, <2>5 DEF IInv, TypeOK
  <2>7. /\ leafArt'[s] \in {leafArt[s], files[s]}
        /\ status = "success" => leafArt'[s] = files[s] /\ files[s].evidence # None
        /\ \A t \in Shard \ {s} : leafArt'[t] = leafArt[t]
    BY <2>1 DEF IInv, TypeOK
  <2>8. \A t \in Shard \ {s} : LeafReady(t)'
    BY <2>2, <2>4, <2>7, LeafKept, DistinctJobs DEF IInv
  <2>9. LeafReady(s)'
    <3>1. GoodFiles(s)' = GoodFiles(s) /\ (Realised(s) => Realised(s)')
      BY <2>2 DEF GoodFiles, Realised, LeafRun, LeafDrvs, Exported
    <3> QED
      BY <2>2, <2>4, <2>7, <3>1 DEF IInv, LeafReady
  <2> QED
    BY <2>4, <2>6, <2>8, <2>9 DEF IInv
<1>4. CASE RequireLocal(s) \/ Skip(s) \/ LoseRunner(s)
  <2>1. PICK status \in {"checked", "failure", "skipped"} :
          /\ Conclude(s, status)
          /\ status = "checked" => job[s] = "restored"
    BY <1>4 DEF RequireLocal, Skip, LoseRunner
  <2>2. /\ UNCHANGED <<attempt, store, files, planArt, sharedArt, leafArt, built, builtBy>>
        /\ job[s] \in {"waiting"} \union Phase
        /\ job[s] = "waiting" => NeedsConcluded(s)
    BY <1>4 DEF RequireLocal, Skip, LoseRunner, artifacts, Phase
  <2>3. job[s] \in Phase => job["shared"] = "success" /\ job["plan"] = "success"
    BY DEF IInv, PlanFirst
  <2>4. job["plan"] # "waiting"
    BY <2>2, <2>3, JobsDistinct DEF NeedsConcluded, Needs, Concluded
  <2>5. /\ job' \in [Job -> Status] /\ job'[s] = status
        /\ \A j \in Job \ {s} : job'[j] = job[j]
        /\ PlanFirst' /\ JoinLast' /\ SharedCurrent' /\ JoinReady'
    BY <2>1, <2>2, <2>3, <2>4, ShardMoves DEF Status, Phase, Concluded
  <2>6. TypeOK'
    BY <2>2, <2>5 DEF IInv, TypeOK
  <2>7. \A t \in Shard \ {s} : LeafReady(t)'
    BY <2>2, <2>5, LeafKept, DistinctJobs DEF IInv
  <2>8. LeafReady(s)'
    BY <2>1, <2>2, <2>5 DEF IInv, LeafReady
  <2> QED
    BY <2>5, <2>6, <2>7, <2>8 DEF IInv
<1> QED
  BY <1>1, <1>2, <1>3, <1>4 DEF LeafStep

(* After success of everything above it, what the join job finds is what   *)
(* the leaves of the plan in force handed over.                            *)
LEMMA LeavesGood ==
  ASSUME IInv, Predecessors
  PROVE  /\ planArt \in Plans /\ sharedArt \in SharedEvidence /\ SharedMatches
         /\ sharedArt.outputs \subseteq Path
         /\ \A s \in Leaves(planArt) :
              s \in Shard /\ leafArt[s] = GoodFiles(s) /\ Realised(s)
         /\ Leaves(planArt) \subseteq Handed
<1>1. job["plan"] = "success" /\ job["shared"] = "success"
  BY DistinctJobs DEF Predecessors, IInv, PlanFirst
<1>2. /\ planArt \in Plans /\ sharedArt \in SharedEvidence /\ SharedMatches
      /\ sharedArt.outputs \subseteq Path
  BY <1>1 DEF IInv, PlanFirst, SharedCurrent, SharedEvidence
<1>3. ASSUME NEW s \in Leaves(planArt)
      PROVE  s \in Shard /\ leafArt[s] = GoodFiles(s) /\ Realised(s)
  <2>1. s \in Shard /\ job[s] = "success"
    BY <1>1, DistinctJobs DEF Leaves, Predecessors, IInv, PlanFirst
  <2> QED
    BY <2>1 DEF IInv, LeafReady
<1>4. Leaves(planArt) \subseteq Handed
  BY <1>2, <1>3, GoodFacts DEF Handed
<1> QED
  BY <1>2, <1>3, <1>4

(* The archives of a complete handover.                                    *)
LEMMA ArchivesGood ==
  ASSUME IInv, Predecessors, Handed = Leaves(planArt)
  PROVE  /\ Archives = (UNION {Closure(LeafDrvs(s)) : s \in Leaves(planArt)}) \ sharedArt.outputs
         /\ Archives \subseteq Item
         /\ Archives \intersect Drv = HandedDrvs
<1>1. \A s \in Leaves(planArt) :
        /\ s \in Shard
        /\ leafArt[s].archive = Closure(LeafDrvs(s)) \ sharedArt.outputs
        /\ leafArt[s].archive \intersect Drv = LeafRun(s)
        /\ Closure(LeafDrvs(s)) \subseteq Item
  BY LeavesGood, GoodFacts, ClosureFacts
<1>2. Archives = (UNION {Closure(LeafDrvs(s)) : s \in Leaves(planArt)}) \ sharedArt.outputs
  BY <1>1 DEF Archives
<1>3. Archives \subseteq Item
  BY <1>1, <1>2
<1>4. Archives \intersect Drv = HandedDrvs
  BY <1>1 DEF Archives, HandedDrvs
<1> QED
  BY <1>2, <1>3, <1>4

(* The initial checks are among what was handed over.                      *)
LEMMA InitialHanded ==
  ASSUME planArt \in Plans, NEW c \in Initial(planArt)
  PROVE  \E s \in Leaves(planArt) : planArt.checks[c] \in LeafDrvs(s) \intersect LeafRun(s)
<1>1. PICK s \in Leaves(planArt) : c \in LeafChecks(planArt, s)
  BY PlanFacts
<1>2. planArt.checks[c] \in LeafDrvs(s) /\ LeafDrvs(s) \subseteq Drv
  BY <1>1, PlanFacts DEF LeafDrvs, DrvsOf, Leaves
<1>3. planArt.checks[c] \in LeafRun(s)
  BY <1>2, ClosureFacts DEF LeafRun
<1> QED
  BY <1>1, <1>2, <1>3

LEMMA JoinBuildInv ==
  ASSUME IInv, JoinBuild
  PROVE  IInv'
<1>1. /\ job["join"] = "imported"
      /\ UNCHANGED <<attempt, store, files, planArt, sharedArt, leafArt>>
  BY DEF JoinBuild, artifacts
<1>2. PICK w \in Plans : \E done \in SUBSET Evaluated(w, FinalChecks) :
        /\ Records("join", done)
        /\ Conclude("join", IF /\ AllRealised(w, FinalChecks, done)
                               /\ Initial(planArt) \union FinalChecks = Names(planArt)
                            THEN "joined" ELSE "broken")
  BY DEF JoinBuild
<1>3. PICK done \in SUBSET Evaluated(w, FinalChecks) :
        /\ Records("join", done)
        /\ Conclude("join", IF /\ AllRealised(w, FinalChecks, done)
                               /\ Initial(planArt) \union FinalChecks = Names(planArt)
                            THEN "joined" ELSE "broken")
  BY <1>2
<1>4. /\ Predecessors /\ \A j \in Job \ {"join"} : job[j] \in Concluded
      /\ HandedDrvs \subseteq store["join"]
  BY <1>1 DEF IInv, JoinLast, JoinReady, Phase
<1>5. planArt \in Plans /\ \A s \in Leaves(planArt) : LeafDrvs(s) \subseteq built
  BY <1>4, LeavesGood DEF Realised
<1>6. done \subseteq Drv
  BY PlanFacts DEF Evaluated
<1>7. Run(done, store["join"]) \intersect HandedDrvs = {}
  BY <1>4 DEF Run
<1>8. /\ built' = built \union done
      /\ builtBy' = [builtBy EXCEPT !["join"] = Run(done, store["join"])]
      /\ Run(done, store["join"]) \subseteq Drv
  BY <1>3 DEF Records, Run
<1>9. /\ builtBy'["join"] = Run(done, store["join"])
      /\ \A s \in Shard : UNCHANGED builtBy[s]
  BY <1>8, DistinctJobs DEF IInv, TypeOK
<1>10. PICK status \in {"joined", "broken"} :
         /\ Conclude("join", status)
         /\ status = "joined" => AllRealised(w, FinalChecks, done)
  BY <1>3
<1>11. /\ job' \in [Job -> Status] /\ job'["join"] = status
       /\ PlanFirst' /\ JoinLast' /\ SharedCurrent'
       /\ \A s \in Shard : LeafReady(s)'
  BY <1>1, <1>4, <1>8, <1>9, <1>10, JoinMoves DEF Phase
<1>12. TypeOK'
  BY <1>1, <1>6, <1>8, <1>11 DEF IInv, TypeOK
<1>13. JoinReady'
  <2> SUFFICES ASSUME status = "joined"
               PROVE  /\ builtBy'["join"] \intersect HandedDrvs = {}
                      /\ DrvsOf(planArt, Names(planArt)) \subseteq built'
    <3>1. HandedDrvs' = HandedDrvs /\ FinalChecks' = FinalChecks
      BY <1>1 DEF HandedDrvs, LeafRun, LeafDrvs, FinalChecks
    <3> QED
      BY <1>1, <1>10, <1>11, <3>1 DEF JoinReady
  <2>1. DrvsOf(planArt, FinalChecks) \subseteq built'
    BY <1>8, <1>10 DEF AllRealised
  <2>2. ASSUME NEW c \in Initial(planArt) PROVE planArt.checks[c] \in built'
    BY <1>5, <1>8, InitialHanded
  <2>3. DrvsOf(planArt, Names(planArt)) \subseteq built'
    BY <2>1, <2>2 DEF DrvsOf, FinalChecks, Delayed
  <2> QED
    BY <1>7, <1>9, <2>3
<1> QED
  BY <1>11, <1>12, <1>13 DEF IInv

LEMMA JoinStepInv == IInv /\ (JoinStep \/ LoseRunner("join")) => IInv'
<1> SUFFICES ASSUME IInv, JoinStep \/ LoseRunner("join") PROVE IInv'
  OBVIOUS
<1>1. CASE JoinBuild
  BY <1>1, JoinBuildInv
<1>2. CASE JoinStarts
  <2>1. /\ Conclude("join", "restored") /\ Predecessors
        /\ UNCHANGED <<attempt, files, planArt, sharedArt, leafArt, built>>
        /\ builtBy' = [builtBy EXCEPT !["join"] = {}]
        /\ \A j \in Job \ {"join"} : job[j] \in Concluded
    BY <1>2, JobsDistinct DEF JoinStarts, Restore, artifacts, NeedsConcluded, Needs
  <2>2. PICK items \in SUBSET Item : store' = [store EXCEPT !["join"] = items]
    BY <1>2 DEF JoinStarts, Restore
  <2>3. \A s \in Shard : UNCHANGED builtBy[s]
    BY <2>1, DistinctJobs DEF IInv, TypeOK
  <2>4. /\ job' \in [Job -> Status] /\ job'["join"] = "restored"
        /\ PlanFirst' /\ JoinLast' /\ SharedCurrent'
        /\ \A s \in Shard : LeafReady(s)'
    BY <2>1, <2>3, JoinMoves DEF Phase
  <2>5. TypeOK'
    <3>1. store' \in [Machine -> SUBSET Item]
      BY <2>2 DEF IInv, TypeOK
    <3> QED
      BY <2>1, <2>4, <3>1 DEF IInv, TypeOK
  <2> QED
    BY <2>4, <2>5 DEF IInv, JoinReady
<1>3. CASE JoinImport
  <2>1. /\ job["join"] = "checked"
        /\ UNCHANGED <<attempt, files, planArt, sharedArt, leafArt, built, builtBy>>
    BY <1>3 DEF JoinImport, artifacts
  <2>2. /\ Predecessors /\ \A j \in Job \ {"join"} : job[j] \in Concluded
    BY <2>1 DEF IInv, JoinLast, JoinReady, Phase
  <2>3. PICK status \in {"imported", "failure"} :
          /\ Conclude("join", status)
          /\ \/ status = "imported" /\ EvidenceComplete
                /\ store' = [store EXCEPT !["join"] = @ \union Archives]
             \/ status = "failure" /\ UNCHANGED store
    BY <1>3 DEF JoinImport
  <2>4. \A s \in Shard : UNCHANGED builtBy[s]
    BY <2>1
  <2>5. /\ job' \in [Job -> Status] /\ job'["join"] = status
        /\ PlanFirst' /\ JoinLast' /\ SharedCurrent'
        /\ \A s \in Shard : LeafReady(s)'
    BY <2>1, <2>2, <2>3, <2>4, JoinMoves DEF Phase
  <2>6. ASSUME status = "imported"
        PROVE  store' \in [Machine -> SUBSET Item] /\ HandedDrvs \subseteq store'["join"]
    <3>1. Handed = Leaves(planArt) /\ store' = [store EXCEPT !["join"] = @ \union Archives]
      BY <2>3, <2>6 DEF EvidenceComplete
    <3>2. Archives \subseteq Item /\ Archives \intersect Drv = HandedDrvs
      BY <2>2, <3>1, ArchivesGood
    <3>3. store' \in [Machine -> SUBSET Item]
      BY <3>1, <3>2, DistinctJobs DEF IInv, TypeOK
    <3>4. store'["join"] = store["join"] \union Archives
      BY <3>1, DistinctJobs DEF IInv, TypeOK
    <3> QED
      BY <3>2, <3>3, <3>4
  <2>7. TypeOK'
    BY <2>1, <2>3, <2>5, <2>6 DEF IInv, TypeOK
  <2>8. JoinReady'
    <3>1. HandedDrvs' = HandedDrvs
      BY <2>1 DEF HandedDrvs, LeafRun, LeafDrvs
    <3> QED
      BY <2>1, <2>5, <2>6, <3>1 DEF JoinReady
  <2> QED
    BY <2>5, <2>7, <2>8 DEF IInv
<1>4. CASE JoinRefuses \/ RequireLocal("join") \/ JoinGate \/ LoseRunner("join")
  <2>1. PICK status \in {"checked", "success", "failure"} :
          /\ Conclude("join", status)
          /\ status = "checked" => job["join"] = "restored" /\ LocallyComplete("join")
          /\ status = "success" => job["join"] = "joined"
    BY <1>4 DEF JoinRefuses, RequireLocal, JoinGate, LoseRunner
  <2>2. /\ UNCHANGED <<attempt, store, files, planArt, sharedArt, leafArt, built, builtBy>>
        /\ job["join"] \in {"waiting"} \union Phase
        /\ job["join"] = "waiting" => NeedsConcluded("join")
    BY <1>4 DEF JoinRefuses, RequireLocal, JoinGate, LoseRunner, artifacts, Phase
  <2>3. /\ \A j \in Job \ {"join"} : job[j] \in Concluded
        /\ status \in Phase \union {"success"} => Predecessors
    BY <2>1, <2>2, JobsDistinct DEF NeedsConcluded, Needs, IInv, JoinLast, Phase
  <2>4. /\ job' \in [Job -> Status] /\ job'["join"] = status
        /\ PlanFirst' /\ JoinLast' /\ SharedCurrent'
        /\ \A s \in Shard : LeafReady(s)'
    BY <2>1, <2>2, <2>3, JoinMoves DEF Phase
  <2>5. TypeOK'
    BY <2>2, <2>4 DEF IInv, TypeOK
  <2>6. JoinReady'
    <3>1. HandedDrvs' = HandedDrvs /\ FinalChecks' = FinalChecks
      BY <2>2 DEF HandedDrvs, LeafRun, LeafDrvs, FinalChecks
    <3> QED
      BY <2>1, <2>2, <2>4, <3>1 DEF IInv, JoinReady, LocallyComplete
  <2> QED
    BY <2>4, <2>5, <2>6 DEF IInv
<1> QED
  BY <1>1, <1>2, <1>3, <1>4 DEF JoinStep

LEMMA CancelInv == IInv /\ Cancel => IInv'
<1> SUFFICES ASSUME IInv, Cancel PROVE IInv'
  OBVIOUS
<1>1. /\ UNCHANGED <<attempt, store, files, planArt, sharedArt, built, builtBy>>
      /\ job' = [j \in Job |-> IF j # "join" /\ job[j] \notin Concluded
                                 THEN "cancelled" ELSE job[j]]
      /\ \E j \in Job \ {"join"} : job[j] \notin Concluded
  BY DEF Cancel
<1>2. PICK U \in SUBSET {s \in Shard : job[s] = "built" /\ files[s] # NoFiles} :
        leafArt' = [s \in Shard |-> IF s \in U THEN files[s] ELSE leafArt[s]]
  BY DEF Cancel
<1>3. /\ job' \in [Job -> Status]
      /\ \A j \in Job \ {"join"} : job'[j] = IF job[j] \in Concluded THEN job[j] ELSE "cancelled"
      /\ job["join"] = "waiting" /\ job'["join"] = "waiting"
  BY <1>1, DistinctJobs DEF IInv, TypeOK, JoinLast, Status, Concluded
<1>4. TypeOK'
  <2>1. leafArt' \in [Shard -> LeafFiles]
    BY <1>2 DEF IInv, TypeOK
  <2> QED
    BY <1>1, <1>3, <2>1 DEF IInv, TypeOK
<1>5. /\ job'["plan"] = IF job["plan"] = "waiting" THEN "cancelled" ELSE job["plan"]
      /\ job'["shared"] = IF job["shared"] \in Concluded THEN job["shared"] ELSE "cancelled"
      /\ \A s \in Shard : job'[s] = IF job[s] \in Concluded THEN job[s] ELSE "cancelled"
  BY <1>3, DistinctJobs DEF IInv, PlanFirst, Concluded
<1>6. PlanFirst'
  <2>1. job'["plan"] = "success" => job["plan"] = "success"
    BY <1>5
  <2>2. job'["plan"] # "waiting"
    BY <1>5
  <2>3. \A s \in Shard : job'[s] = "absent" <=> job[s] = "absent"
    BY <1>5 DEF Concluded
  <2>4. job'["shared"] = "success" <=> job["shared"] = "success"
    BY <1>5 DEF Concluded
  <2>5. job'["shared"] \notin Phase \union {"absent"}
    BY <1>5 DEF Concluded, Phase, IInv, PlanFirst
  <2>6. \A s \in Shard : job'[s] \in Phase \union {"success"} => job[s] = "success"
    BY <1>5 DEF Concluded, Phase
  <2>7. job["shared"] = "success" => job'["plan"] = "success"
    BY <1>5 DEF IInv, PlanFirst
  <2> QED
    BY <1>1, <1>5, <2>1, <2>2, <2>3, <2>4, <2>5, <2>6, <2>7 DEF IInv, PlanFirst
<1>7. JoinLast' /\ JoinReady'
  BY <1>3 DEF JoinLast, JoinReady, Phase
<1>8. SharedCurrent'
  BY <1>1, <1>5 DEF IInv, SharedCurrent, SharedMatches
<1>9. ASSUME NEW s \in Shard
      PROVE  LeafReady(s)'
  <2>1. leafArt'[s] = IF s \in U THEN files[s] ELSE leafArt[s]
    BY <1>2
  <2>2. CASE s \in U
    <3>1. job'[s] = "cancelled"
      BY <1>2, <1>5, <2>2 DEF Concluded
    <3> QED
      BY <1>1, <2>1, <2>2, <3>1 DEF IInv, LeafReady
  <2>3. CASE s \notin U
    BY <1>1, <1>5, <2>1, <2>3, LeafKept DEF IInv
  <2> QED
    BY <2>2, <2>3
<1> QED
  BY <1>4, <1>6, <1>7, <1>8, <1>9 DEF IInv

LEMMA RerunInv == IInv /\ Rerun => IInv' /\ job'["join"] = "waiting"
<1> SUFFICES ASSUME IInv, Rerun PROVE IInv' /\ job'["join"] = "waiting"
  OBVIOUS
<1>1. /\ UNCHANGED <<planArt, sharedArt, leafArt, built, builtBy>>
      /\ store' = [j \in Machine |-> {}] /\ files' = [s \in Shard |-> NoFiles]
      /\ attempt' = attempt + 1 /\ attempt < MaxAttempt
      /\ \A j \in Job : job[j] \in Concluded
  BY DEF Rerun, artifacts
<1>2. PICK chosen \in SUBSET Job :
        /\ chosen # {}
        /\ \A j \in chosen : job[j] # "absent"
        /\ job' = [j \in Job |->
             IF /\ j \in UNION {Dependents(i) : i \in chosen}
                /\ job[j] # "absent" \/ "plan" \in UNION {Dependents(i) : i \in chosen}
               THEN "waiting" ELSE job[j]]
  <2>1. PICK chosen \in {{"plan"}, Unsuccessful} \union {{j} : j \in {k \in Job : job[k] # "absent"}} :
          LET again == UNION {Dependents(j) : j \in chosen}
          IN  /\ chosen # {}
              /\ job' = [j \in Job |-> IF j \in again /\ (job[j] # "absent" \/ "plan" \in again)
                                         THEN "waiting" ELSE job[j]]
    BY DEF Rerun
  <2>2. Unsuccessful \subseteq Job /\ \A j \in Unsuccessful : job[j] # "absent"
    BY DEF Unsuccessful
  <2>3. job["plan"] # "absent"
    BY DEF IInv, PlanFirst
  <2>4. chosen \in SUBSET Job /\ \A j \in chosen : job[j] # "absent"
    BY <2>1, <2>2, <2>3, DistinctJobs
  <2> QED
    BY <2>1, <2>4
<1> DEFINE again == UNION {Dependents(i) : i \in chosen}
<1>3. /\ job' \in [Job -> Status]
      /\ \A j \in Job : job'[j] = IF j \in again /\ (job[j] # "absent" \/ "plan" \in again)
                                    THEN "waiting" ELSE job[j]
  BY <1>2 DEF IInv, TypeOK, Status
<1>4. /\ "join" \in again
      /\ "plan" \in again => \A j \in Job : j \in again
      /\ "shared" \in again => \A s \in Shard : s \in again
  <2>1. \A i \in Job : /\ "join" \in Dependents(i)
                       /\ "plan" \in Dependents(i) => \A j \in Job : j \in Dependents(i)
                       /\ "shared" \in Dependents(i) => \A s \in Shard : s \in Dependents(i)
    BY DistinctJobs DEF Dependents
  <2> QED
    BY <1>2, <2>1
<1> HIDE DEF again
<1>5. job["join"] # "absent" /\ job["plan"] # "absent" /\ job["shared"] # "absent"
  BY DEF IInv, PlanFirst, JoinLast, Phase
<1>6. job'["join"] = "waiting"
  BY <1>3, <1>4, <1>5, DistinctJobs
<1>7. TypeOK'
  <2>1. attempt' \in 1 .. MaxAttempt
    BY <1>1, AttemptAssumption DEF IInv, TypeOK
  <2>2. NoFiles \in LeafFiles
    BY DEF NoFiles, LeafFiles
  <2> QED
    BY <1>1, <1>3, <2>1, <2>2 DEF IInv, TypeOK
<1>8. CASE "plan" \in again
  <2>1. \A j \in Job : job'[j] = "waiting"
    BY <1>3, <1>4, <1>8
  <2>2. PlanFirst' /\ JoinLast' /\ SharedCurrent' /\ JoinReady'
    BY <2>1, DistinctJobs DEF PlanFirst, JoinLast, SharedCurrent, JoinReady, Phase
  <2>3. \A s \in Shard : LeafReady(s)'
    BY <1>1, <2>1, DistinctJobs DEF IInv, LeafReady
  <2> QED
    BY <1>6, <1>7, <2>2, <2>3 DEF IInv
<1>9. CASE "plan" \notin again
  <2>1. /\ job'["plan"] = job["plan"] /\ job'["plan"] # "waiting"
        /\ job'["shared"] \in {"waiting", job["shared"]}
        /\ \A s \in Shard : job'[s] \in {"waiting", job[s]}
        /\ \A s \in Shard : job'[s] = "absent" <=> job[s] = "absent"
        /\ job'["shared"] = "waiting" => \A s \in Shard : job'[s] # "success"
    <3>1. job["plan"] # "waiting" /\ job["shared"] # "waiting"
      BY <1>1, DistinctJobs DEF Concluded
    <3>2. ASSUME job'["shared"] = "waiting", NEW s \in Shard PROVE job'[s] # "success"
      <4>1. "shared" \in again
        BY <1>3, <3>1, <3>2, DistinctJobs
      <4> QED
        BY <1>3, <1>4, <4>1, DistinctJobs
    <3>3. \A s \in Shard : job'[s] = "absent" <=> job[s] = "absent"
      BY <1>3, <1>9, DistinctJobs
    <3> QED
      BY <1>3, <1>9, <3>1, <3>2, <3>3, DistinctJobs
  <2>2. \A s \in Shard : job'[s] \notin Phase
    BY <1>1, <2>1, DistinctJobs DEF Concluded, Phase
  <2>3. PlanFirst'
    BY <1>1, <2>1, <2>2 DEF IInv, PlanFirst, Phase
  <2>4. JoinLast' /\ JoinReady'
    BY <1>6 DEF JoinLast, JoinReady, Phase
  <2>5. SharedCurrent'
    BY <1>1, <2>1 DEF IInv, SharedCurrent, SharedMatches
  <2>6. \A s \in Shard : LeafReady(s)'
    BY <1>1, <2>1, <2>2, LeafKept DEF IInv, Phase
  <2> QED
    BY <1>6, <1>7, <2>3, <2>4, <2>5, <2>6 DEF IInv
<1> QED
  BY <1>8, <1>9

LEMMA NextInv == IInv /\ [Next]_vars => IInv'
<1> SUFFICES ASSUME IInv, [Next]_vars PROVE IInv'
  OBVIOUS
<1>1. CASE UNCHANGED vars
  <2>1. /\ UNCHANGED <<attempt, job, store, files, planArt, sharedArt, leafArt, built, builtBy>>
    BY <1>1 DEF vars
  <2>2. TypeOK' /\ PlanFirst' /\ JoinLast' /\ SharedCurrent'
    BY <2>1 DEF IInv, TypeOK, PlanFirst, JoinLast, Predecessors, SharedCurrent, SharedMatches
  <2>3. \A s \in Shard : LeafReady(s)'
    BY <2>1, LeafKept DEF IInv
  <2>4. JoinReady'
    <3>1. HandedDrvs' = HandedDrvs /\ FinalChecks' = FinalChecks
      BY <2>1 DEF HandedDrvs, LeafRun, LeafDrvs, FinalChecks
    <3> QED
      BY <2>1, <3>1 DEF IInv, JoinReady
  <2> QED
    BY <2>2, <2>3, <2>4 DEF IInv
<1>2. ASSUME NEW j \in Job, Skip(j) \/ LoseRunner(j) PROVE IInv'
  <2>1. CASE j = "plan"
    <3>1. ~Skip(j) /\ ~LoseRunner(j)
      BY <2>1, JobsDistinct DEF Skip, LoseRunner, NeedsSucceeded, Needs, IInv, PlanFirst, Phase
    <3> QED
      BY <1>2, <3>1
  <2>2. CASE j = "shared"
    BY <1>2, <2>2, SharedStepInv DEF LoseRunner, IInv, PlanFirst
  <2>3. CASE j = "join"
    BY <1>2, <2>3, JoinStepInv DEF Skip
  <2>4. CASE j \in Shard
    BY <1>2, <2>4, LeafStepInv
  <2> QED
    BY <2>1, <2>2, <2>3, <2>4 DEF Job
<1> QED
  BY <1>1, <1>2, PlanStepInv, SharedStepInv, LeafStepInv, JoinStepInv, CancelInv, RerunInv DEF Next

-----------------------------------------------------------------------------
(***************************************************************************)
(* What the invariant implies.                                             *)
(***************************************************************************)

LEMMA HandoverWorks == IInv => HandoverComplete
<1> SUFFICES ASSUME IInv, job["join"] = "checked", Handed \subseteq Leaves(planArt)
             PROVE  EvidenceComplete /\ Importable /\ OutputsPresent(store["join"] \union Archives)
  BY DEF HandoverComplete
<1>1. Predecessors /\ sharedArt.outputs \subseteq store["join"]
  BY DEF IInv, JoinLast, JoinReady, Phase
<1>2. Handed = Leaves(planArt)
  BY <1>1, LeavesGood
<1>3. planArt \in Plans /\ sharedArt \in SharedEvidence
  BY <1>1, LeavesGood
<1>4. EvidenceComplete
  BY <1>1, <1>2, <1>3, LeavesGood, GoodFacts DEF EvidenceComplete, LeafVerified
<1>5. /\ Archives = (UNION {Closure(LeafDrvs(s)) : s \in Leaves(planArt)}) \ sharedArt.outputs
      /\ Archives \intersect Drv = HandedDrvs
  BY <1>1, <1>2, ArchivesGood
<1>6. Importable
  <2> SUFFICES ASSUME NEW d \in Archives \intersect Drv, NEW i \in Inputs[d] \intersect Path
               PROVE  i \in store["join"] \union Archives
    BY DEF Importable
  <2>1. PICK s \in Leaves(planArt) : d \in Closure(LeafDrvs(s))
    BY <1>5
  <2>2. s \in Shard /\ LeafDrvs(s) \subseteq Drv
    BY <1>3, <2>1, GoodFacts DEF Leaves
  <2>3. i \in Closure(LeafDrvs(s))
    BY <2>1, <2>2, ClosureFacts
  <2> QED
    BY <1>1, <1>5, <2>1, <2>3
<1>7. OutputsPresent(store["join"] \union Archives)
  BY <1>3, <1>5, InitialHanded DEF OutputsPresent, DrvsOf, HandedDrvs
<1> QED
  BY <1>4, <1>6, <1>7

LEMMA OnceOnly == IInv => BuiltOnce
<1> SUFFICES ASSUME IInv, job["join"] = "success", NEW c \in Names(planArt),
                    \A d \in Names(planArt) \ {c} : planArt.checks[d] # planArt.checks[c],
                    NEW j \in Leaves(planArt) \union {"join"},
                    NEW k \in Leaves(planArt) \union {"join"},
                    planArt.checks[c] \in builtBy[j] \intersect builtBy[k]
             PROVE  j = k
  BY DEF BuiltOnce
<1>1. Predecessors /\ builtBy["join"] \intersect HandedDrvs = {}
  BY DEF IInv, JoinLast, JoinReady
<1>2. /\ planArt \in Plans
      /\ \A s \in Leaves(planArt) : s \in Shard /\ builtBy[s] \subseteq LeafRun(s)
  BY <1>1, LeavesGood DEF Realised
<1>3. ASSUME NEW s \in Leaves(planArt), planArt.checks[c] \in builtBy[s]
      PROVE  c \in LeafChecks(planArt, s) /\ planArt.checks[c] \in HandedDrvs
  <2>1. planArt.checks[c] \in LeafRun(s)
    BY <1>2, <1>3
  <2>2. c \in LeafChecks(planArt, s)
    BY <1>2, <2>1, LeafOwns DEF LeafRun, LeafDrvs
  <2> QED
    BY <2>1, <2>2 DEF HandedDrvs
<1>4. CASE j = "join" \/ k = "join"
  BY <1>1, <1>3, <1>4
<1>5. CASE j \in Leaves(planArt) /\ k \in Leaves(planArt)
  <2>1. c \in LeafChecks(planArt, j) \intersect LeafChecks(planArt, k)
    BY <1>3, <1>5
  <2> QED
    BY <1>2, <1>5, <2>1, PlanFacts
<1> QED
  BY <1>4, <1>5

-----------------------------------------------------------------------------
(***************************************************************************)
(* Refinement: seen through its join job, the run is an exact-head gate.   *)
(***************************************************************************)

Inventory == IF planArt = None THEN {} ELSE DrvsOf(planArt, Names(planArt))

LEMMA InventoryOf ==
  ASSUME planArt \in Plans
  PROVE  /\ Inventory = DrvsOf(planArt, Names(planArt))
         /\ Inventory \in {DrvsOf(p, Names(p)) : p \in Plans}
BY PlansAssumption DEF Inventory

(* Steps before the join's verdict re-evaluate, build, or stutter.         *)
LEMMA OpenStep ==
  ASSUME IInv, IInv', Verdict = "open", Verdict' = "open",
         \/ UNCHANGED built /\ planArt' \in Plans \union {planArt}
         \/ UNCHANGED planArt /\ built \subseteq built'
  PROVE  [Gate!Next]_Gate!vars
<1>1. CASE UNCHANGED built /\ planArt' \in Plans
  <2>1. Inventory' \in {DrvsOf(p, Names(p)) : p \in Plans}
    BY <1>1, PlansAssumption DEF Inventory
  <2> QED
    BY <1>1, <2>1 DEF Gate!Next, Gate!Evaluate, Inventory
<1>2. CASE UNCHANGED planArt /\ built \subseteq built'
  <2>1. UNCHANGED Inventory
    BY <1>2 DEF Inventory
  <2>2. built' = built \union built' /\ built' \in SUBSET Drv
    BY <1>2 DEF IInv, TypeOK
  <2> QED
    BY <2>1, <2>2 DEF Gate!Next, Gate!Build, Inventory
<1> QED
  BY <1>1, <1>2

LEMMA OpenWhileWaiting ==
  ASSUME job["join"] \in {"waiting"} \union Phase
  PROVE  Verdict = "open"
BY DEF Verdict, Phase

(* The join job turns green only once everything planned has been built.   *)
LEMMA JoinRefines ==
  ASSUME IInv, IInv', JoinStep \/ LoseRunner("join")
  PROVE  [Gate!Next]_Gate!vars
<1>1. UNCHANGED planArt /\ built \subseteq built' /\ Verdict = "open"
  <2>1. UNCHANGED planArt /\ built \subseteq built' /\ job["join"] \in {"waiting"} \union Phase
    BY DEF JoinStep, JoinRefuses, JoinStarts, Restore, RequireLocal, JoinImport, JoinBuild, JoinGate,
           LoseRunner, Records, artifacts, Phase
  <2> QED
    BY <2>1, OpenWhileWaiting
<1>2. UNCHANGED Inventory
  BY <1>1 DEF Inventory
<1>3. CASE JoinBuild
  <2>1. job'["join"] \in {"joined", "broken"}
    BY <1>3, DistinctJobs DEF JoinBuild, Conclude, IInv, TypeOK
  <2>2. Verdict' = "open"
    BY <2>1 DEF Verdict
  <2> QED
    BY <1>1, <2>2, OpenStep
<1>4. CASE ~JoinBuild
  <2>1. UNCHANGED built /\ job'["join"] \in Phase \union {"success", "failure"}
    <3>1. UNCHANGED built
      BY <1>4 DEF JoinStep, JoinRefuses, JoinStarts, Restore, RequireLocal, JoinImport, JoinGate, LoseRunner
    <3>2. \E status \in Phase \union {"success", "failure"} : Conclude("join", status)
      BY <1>4 DEF JoinStep, JoinRefuses, JoinStarts, Restore, RequireLocal, JoinImport, JoinGate, LoseRunner, Phase
    <3> QED
      BY <3>1, <3>2, DistinctJobs DEF Conclude, IInv, TypeOK
  <2>2. CASE job'["join"] \in Phase
    <3>1. Verdict' = "open"
      BY <2>2 DEF Verdict, Phase
    <3> QED
      BY <1>1, <3>1, OpenStep
  <2>3. CASE job'["join"] = "failure"
    <3>1. Verdict' = "red"
      BY <2>3 DEF Verdict
    <3> QED
      BY <1>1, <1>2, <2>1, <3>1 DEF Gate!Next, Gate!Reject, Inventory
  <2>4. CASE job'["join"] = "success"
    <3>1. Verdict' = "green"
      BY <2>4 DEF Verdict
    <3>2. job'["plan"] = "success"
      <4>1. Predecessors'
        BY <2>4 DEF IInv, JoinLast
      <4> QED
        BY <4>1, DistinctJobs DEF Predecessors, IInv, PlanFirst
    <3>3. planArt \in Plans
      BY <1>1, <3>2 DEF IInv, PlanFirst
    <3>4. DrvsOf(planArt, Names(planArt)) \subseteq built
      BY <1>1, <2>1, <2>4 DEF IInv, JoinReady
    <3> QED
      BY <1>1, <1>2, <2>1, <3>1, <3>3, <3>4, InventoryOf DEF Gate!Next, Gate!Accept, Inventory
  <2> QED
    BY <2>1, <2>2, <2>3, <2>4
<1> QED
  BY <1>3, <1>4

(* The other jobs work while the join waits, and leave it waiting.         *)
LEMMA OtherRefines ==
  ASSUME IInv, IInv', NEW j \in Job \ {"join"}, job[j] \notin Concluded,
         job'["join"] = job["join"],
         \/ UNCHANGED built /\ planArt' \in Plans \union {planArt}
         \/ UNCHANGED planArt /\ built \subseteq built'
  PROVE  [Gate!Next]_Gate!vars
<1>1. job["join"] = "waiting"
  BY DEF IInv, JoinLast
<1>2. Verdict = "open" /\ Verdict' = "open"
  BY <1>1 DEF Verdict
<1> QED
  BY <1>2, OpenStep

LEMMA StepRefines == IInv /\ IInv' /\ [Next]_vars => [Gate!Next]_Gate!vars
<1> SUFFICES ASSUME IInv, IInv', [Next]_vars PROVE [Gate!Next]_Gate!vars
  OBVIOUS
<1>1. CASE UNCHANGED vars
  <2>1. UNCHANGED <<Verdict, Inventory, built>>
    BY <1>1 DEF vars, Verdict, Inventory
  <2> QED
    BY <2>1 DEF Gate!vars, Inventory
<1>2. CASE PlanStep
  <2>1. job["plan"] \notin Concluded /\ UNCHANGED built /\ planArt' \in Plans \union {planArt}
    BY <1>2 DEF PlanStep, PlanSucceeds, PlanFails, Concluded
  <2>2. job'["join"] = job["join"]
    BY <1>2, DistinctJobs DEF PlanStep, PlanSucceeds, PlanFails, Conclude, IInv, TypeOK
  <2> QED
    BY <2>1, <2>2, DistinctJobs, OtherRefines
<1>3. CASE SharedBuild
  <2>1. job["shared"] \notin Concluded /\ UNCHANGED <<built, planArt>>
    BY <1>3 DEF SharedBuild, Concluded
  <2>2. job'["join"] = job["join"]
    BY <1>3, DistinctJobs DEF SharedBuild, Conclude, IInv, TypeOK
  <2> QED
    BY <2>1, <2>2, DistinctJobs, OtherRefines
<1>4. ASSUME NEW s \in Shard, LeafStep(s) PROVE [Gate!Next]_Gate!vars
  <2>1. job[s] \notin Concluded /\ UNCHANGED planArt /\ built \subseteq built'
    BY <1>4 DEF LeafStep, Restore, RequireLocal, LeafBuild, LeafUpload, Records, artifacts, Concluded
  <2>2. job'["join"] = job["join"]
    BY <1>4, DistinctJobs DEF LeafStep, Restore, RequireLocal, LeafBuild, LeafUpload, Conclude, IInv, TypeOK
  <2> QED
    BY <2>1, <2>2, DistinctJobs, OtherRefines
<1>5. CASE JoinStep
  BY <1>5, JoinRefines
<1>6. ASSUME NEW j \in Job, Skip(j) \/ LoseRunner(j) PROVE [Gate!Next]_Gate!vars
  <2>1. CASE j = "join"
    BY <1>6, <2>1, JoinRefines DEF Skip
  <2>2. CASE j # "join"
    <3>1. job[j] \notin Concluded /\ UNCHANGED <<built, planArt>>
      BY <1>6 DEF Skip, LoseRunner, artifacts, Phase, Concluded
    <3>2. job'["join"] = job["join"]
      BY <1>6, <2>2, DistinctJobs DEF Skip, LoseRunner, Conclude, IInv, TypeOK
    <3> QED
      BY <2>2, <3>1, <3>2, OtherRefines
  <2> QED
    BY <2>1, <2>2
<1>7. CASE Cancel
  <2>1. PICK j \in Job \ {"join"} : job[j] \notin Concluded
    BY <1>7 DEF Cancel
  <2>2. UNCHANGED <<built, planArt>> /\ job'["join"] = job["join"]
    BY <1>7, DistinctJobs DEF Cancel
  <2> QED
    BY <2>1, <2>2, OtherRefines
<1>8. CASE Rerun
  <2>1. job["join"] \in {"success", "failure"} /\ UNCHANGED <<built, planArt>>
    BY <1>8, DistinctJobs DEF Rerun, artifacts, IInv, JoinLast, Phase, Concluded
  <2>2. job'["join"] = "waiting"
    BY <1>8, RerunInv
  <2>3. Verdict # "open" /\ Verdict' = "open" /\ UNCHANGED Inventory
    BY <2>1, <2>2 DEF Verdict, Inventory
  <2> QED
    BY <2>1, <2>3 DEF Gate!Next, Gate!Reopen, Inventory
<1> QED
  BY <1>1, <1>2, <1>3, <1>4, <1>5, <1>6, <1>7, <1>8 DEF Next

-----------------------------------------------------------------------------
(* The strengthening is an invariant of every run.                         *)
THEOREM Invariance == Spec => []IInv
<1> QED
  BY InitIInv, NextInv, PTL DEF Spec

(* The state of a run keeps its types, over any number of attempts.        *)
THEOREM TypeCorrect == Spec => []TypeOK
<1>1. IInv => TypeOK
  BY DEF IInv
<1> QED
  BY <1>1, Invariance, PTL

(* What the leaves export can be imported over the shared outputs and      *)
(* completes the join's store (export_incremental_archive, join_command).  *)
THEOREM Handover == Spec => []HandoverComplete
BY Invariance, HandoverWorks, PTL

(* Whatever caches brought, a check with a derivation of its own is built  *)
(* by at most one machine of the runs that a green join rests on           *)
(* (partition, export_incremental_archive, join_command).                  *)
THEOREM BuiltOnceEach == Spec => []BuiltOnce
BY Invariance, OnceOnly, PTL

(* The staged run implements the exact-head gate: initial states map to    *)
(* initial states and every step to a gate step or a stutter.              *)
THEOREM StagedDagImplementsGate == Spec => ImplementsGate
<1>1. Init => Gate!Init
  BY DistinctJobs DEF Init, Gate!Init, Verdict
<1> QED
  BY <1>1, StepRefines, Invariance, PTL DEF Spec, ImplementsGate, Gate!Spec
=============================================================================
