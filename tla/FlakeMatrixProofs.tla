-------------------------- MODULE FlakeMatrixProofs --------------------------
(***************************************************************************)
(* For every set of shards, checks, derivations and plans, and any number  *)
(* of attempts: the types of FlakeMatrix, the truth of the evidence, the   *)
(* soundness of the merge gate, its refinement of ExactHeadGate, and that  *)
(* an attempt is never stuck and cannot go on forever.                     *)
(***************************************************************************)
EXTENDS FlakeMatrix, TLAPS

(* A started job has a plan to work on; no job runs next to a plan job.    *)
PlanFirst ==
  /\ \A j \in Job \ {"plan", "result"} : job[j] \in Phase => job["plan"] = "success"
  /\ job["plan"] \notin Phase
  /\ job["plan"] = "success" => planArt # None

(* The result job has no steps of its own and is never skipped.  It starts *)
(* last, so nothing is left to run once it has concluded.                  *)
ResultLast ==
  /\ job["result"] \in {"waiting", "success", "failure"}
  /\ job["result"] # "waiting" => \A j \in Job : job[j] \in Concluded

IInv ==
  /\ TypeOK
  /\ PlanFirst
  /\ ResultLast
  /\ EvidenceTruthful
  /\ GateSound
  /\ SharedOutputsLocal

-----------------------------------------------------------------------------
(* What the planner's validation gives: a plan's shards hold its checks,   *)
(* and those have derivations.                                             *)
LEMMA PlanFacts ==
  ASSUME NEW p \in Plans
  PROVE  /\ p.digest \in Nat
         /\ p.targets \subseteq Target
         /\ \A s \in Shard : p.shards[s] \subseteq Names(p)
         /\ \A c \in Names(p) : p.checks[c] \in Drv /\ c \in Check
         /\ \A c \in Names(p) : \E s \in Listed(p) : c \in p.shards[s]
         /\ \A q \in Plans : q.digest = p.digest => q = p
<1>1. /\ p \in PlanShape
      /\ Names(p) = UNION {p.shards[s] : s \in Shard}
      /\ \A q \in Plans : q.digest = p.digest => q = p
  BY PlansAssumption
<1>2. p.digest \in Nat /\ p.targets \subseteq Target
  BY <1>1 DEF PlanShape
<1>3. \A s \in Shard : p.shards[s] \subseteq Names(p)
  BY <1>1
<1>4. \A c \in Names(p) : p.checks[c] \in Drv /\ c \in Check
  BY <1>1 DEF PlanShape, Names
<1>5. \A c \in Names(p) : \E s \in Listed(p) : c \in p.shards[s]
  BY <1>1 DEF Listed
<1> QED
  BY <1>1, <1>2, <1>3, <1>4, <1>5

LEMMA InitIInv == Init => IInv
<1> SUFFICES ASSUME Init PROVE IInv
  OBVIOUS
<1>1. TypeOK
  <2>1. attempt \in 1 .. MaxAttempt /\ ran \in [Shard -> 0 .. MaxAttempt]
    BY AttemptAssumption DEF Init
  <2>2. job \in [Job -> Status] /\ hit \in BOOLEAN
    BY DEF Init, Status
  <2>3. store \in [Shard \union {"prebuild"} -> SUBSET Target]
    BY DEF Init
  <2>4. cache \in (SUBSET Target) \union {None} /\ built \subseteq Drv
    BY DEF Init
  <2>5. /\ planArt \in Plans \union {None}
        /\ prebuildArt \in PrebuildEvidence \union {None}
        /\ file \in [Shard -> Evidence \union {None}]
        /\ shardArt \in [Shard -> Evidence \union {None}]
    BY DEF Init
  <2> QED
    BY <2>1, <2>2, <2>3, <2>4, <2>5 DEF TypeOK
<1>2. PlanFirst /\ ResultLast
  BY DEF Init, PlanFirst, ResultLast, Job, Phase
<1>3. EvidenceTruthful /\ GateSound /\ SharedOutputsLocal
  BY DEF Init, EvidenceTruthful, Truthful, GateSound, Accepted,
         SharedOutputsLocal, Job
<1> QED
  BY <1>1, <1>2, <1>3 DEF IInv
(***************************************************************************)
(* Every step preserves the invariant: one lemma per kind of step.         *)
(***************************************************************************)

LEMMA PlanStepInv == IInv /\ PlanStep => IInv'
<1> SUFFICES ASSUME IInv, PlanStep PROVE IInv'
  OBVIOUS
<1> USE DEF IInv
<1>1. /\ job["plan"] = "waiting" /\ job["result"] = "waiting"
      /\ job'["plan"] \in {"success", "failure"} /\ job'["result"] = "waiting"
      /\ planArt' \in Plans \union {planArt}
      /\ job'["plan"] = "success" => planArt' \in Plans
      /\ job' \in [Job -> Status]
      /\ \A j \in Job \ {"plan"} : job'[j] \in {job[j], "absent"}
      /\ UNCHANGED <<attempt, store, hit, file, prebuildArt, shardArt, cache,
                    built, ran>>
  <2>1. CASE PlanFails
    BY <2>1, JobsDistinct DEF PlanFails, Conclude, TypeOK, Job, Status, Concluded, ResultLast
  <2>2. CASE \E p \in Plans : PlanSucceeds(p)
    <3>1. PICK p \in Plans : PlanSucceeds(p)
      BY <2>2
    <3>2. /\ job["plan"] = "waiting" /\ planArt' = p
          /\ job' = [j \in Job |-> CASE j = "plan" -> "success"
                             [] j \in Shard \ Listed(p) -> "absent"
                             [] OTHER -> job[j]]
          /\ UNCHANGED <<attempt, store, hit, file, prebuildArt, shardArt, cache,
                    built, ran>>
      BY <3>1 DEF PlanSucceeds
    <3>3. \A j \in Job : job'[j] = IF j = "plan" THEN "success"
                                  ELSE IF j \in Shard \ Listed(p) THEN "absent"
                                  ELSE job[j]
      BY <3>2, JobsDistinct
    <3>4. "result" \notin Shard /\ "plan" \in Job /\ "result" \in Job
      BY JobsDistinct DEF Job
    <3>5. job["result"] = "waiting"
      BY <3>2, <3>4 DEF ResultLast, Concluded
    <3>6. job' \in [Job -> Status]
      BY <3>2, <3>3 DEF TypeOK, Status, Concluded
    <3> QED
      BY <3>2, <3>3, <3>4, <3>5, <3>6
  <2> QED
    BY <2>1, <2>2 DEF PlanStep
<1>2. TypeOK'
  BY <1>1 DEF TypeOK
<1>3. \A j \in Job : job'[j] \notin Phase
  BY <1>1 DEF PlanFirst, Phase, ResultLast, Job
<1>4. PlanFirst' /\ ResultLast'
  BY <1>1, <1>3, PlansAssumption DEF PlanFirst, ResultLast, Job
<1>5. EvidenceTruthful' /\ GateSound'
  BY <1>1 DEF EvidenceTruthful, Truthful, GateSound, Accepted
<1>6. SharedOutputsLocal'
  BY <1>3 DEF SharedOutputsLocal, Job, Phase
<1> QED
  BY <1>2, <1>4, <1>5, <1>6
LEMMA EnvironmentInv == IInv /\ (Evict \/ ForeignSave) => IInv'
<1> SUFFICES ASSUME IInv, Evict \/ ForeignSave PROVE IInv'
  OBVIOUS
<1>1. /\ UNCHANGED <<attempt, job, store, hit, file, planArt, prebuildArt,
                    shardArt, built, ran>>
      /\ cache' \in (SUBSET Target) \union {None}
  BY DEF Evict, ForeignSave, artifacts
<1>2. TypeOK'
  BY <1>1 DEF IInv, TypeOK
<1>3. PlanFirst' /\ ResultLast'
  BY <1>1 DEF IInv, PlanFirst, ResultLast
<1>4. EvidenceTruthful' /\ GateSound' /\ SharedOutputsLocal'
  BY <1>1 DEF IInv, EvidenceTruthful, Truthful, GateSound, Accepted,
              SharedOutputsLocal
<1> QED
  BY <1>2, <1>3, <1>4 DEF IInv

(* A step of one job other than plan and result that concludes or carries  *)
(* on that job: what the job-status invariants need to know about it.      *)
JobStep(j) ==
  /\ j \in Job \ {"plan", "result"}
  /\ job[j] \in {"waiting"} \union Phase
  /\ \E status \in Phase \union {"success", "failure", "skipped"} :
       /\ job' = [job EXCEPT ![j] = status]
       /\ status \in Phase => job["plan"] = "success"
  /\ UNCHANGED <<attempt, planArt>>

LEMMA JobStepInv ==
  ASSUME NEW j, IInv, JobStep(j)
  PROVE  /\ job' \in [Job -> Status]
         /\ PlanFirst' /\ ResultLast'
         /\ job["result"] = "waiting" /\ job'["result"] = "waiting"
<1>1. PICK status \in Phase \union {"success", "failure", "skipped"} :
           /\ job' = [job EXCEPT ![j] = status]
           /\ status \in Phase => job["plan"] = "success"
  BY DEF JobStep
<1>2. j \in Job /\ j # "plan" /\ j # "result" /\ UNCHANGED planArt
      /\ job[j] \in {"waiting"} \union Phase
  BY DEF JobStep
<1>3. status \in Status /\ job \in [Job -> Status]
  BY DEF Status, Concluded, IInv, TypeOK
<1>4. /\ job' \in [Job -> Status]
      /\ job'[j] = status
      /\ \A k \in Job \ {j} : job'[k] = job[k]
  BY <1>1, <1>2, <1>3
<1>5. "plan" \in Job /\ "result" \in Job
  BY DEF Job
<1>6. job["result"] = "waiting"
  BY <1>2 DEF IInv, ResultLast, Concluded, Phase
<1>7. ResultLast'
  BY <1>2, <1>4, <1>5, <1>6 DEF ResultLast
<1>8. PlanFirst'
  BY <1>1, <1>2, <1>4, <1>5 DEF IInv, PlanFirst
<1> QED
  BY <1>2, <1>4, <1>5, <1>6, <1>7, <1>8

LEMMA PrebuildStepInv == IInv /\ PrebuildStep => IInv'
<1> SUFFICES ASSUME IInv, PrebuildStep PROVE IInv'
  OBVIOUS
<1>1. "prebuild" \in Job \ {"plan", "result"} /\ "prebuild" \notin Shard
  BY JobsDistinct DEF Job
<1>2. JobStep("prebuild")
  <2>1. CASE PrebuildRestore
    BY <2>1, <1>1 DEF PrebuildRestore, JobStep, NeedsSucceeded, Needs, Conclude,
                      artifacts, Phase
  <2>2. CASE PrebuildBuild
    BY <2>2, <1>1 DEF PrebuildBuild, JobStep, Conclude, artifacts, Phase, IInv,
                      PlanFirst
  <2>3. CASE PrebuildUpload
    BY <2>3, <1>1 DEF PrebuildUpload, JobStep, Conclude, artifacts, Phase, IInv,
                      PlanFirst
  <2>4. CASE PrebuildSave
    BY <2>4, <1>1 DEF PrebuildSave, JobStep, Conclude, artifacts, Phase
  <2> QED
    BY <2>1, <2>2, <2>3, <2>4 DEF PrebuildStep
<1>3. /\ job' \in [Job -> Status]
      /\ PlanFirst' /\ ResultLast'
      /\ job["result"] = "waiting" /\ job'["result"] = "waiting"
  BY <1>2, JobStepInv
<1>4. /\ UNCHANGED <<attempt, file, planArt, shardArt, built, ran>>
      /\ \A s \in Shard : store'[s] = store[s] /\ job'[s] = job[s]
  <2>1. \A s \in Shard : s # "prebuild" /\ s \in Job
    BY <1>1 DEF Job
  <2>2. store \in [Shard \union {"prebuild"} -> SUBSET Target] /\ job \in [Job -> Status]
    BY DEF IInv, TypeOK
  <2> QED
    BY <2>1, <2>2 DEF PrebuildStep, PrebuildRestore, PrebuildBuild, PrebuildUpload,
         PrebuildSave, artifacts, Conclude
<1>5. TypeOK'
  <2>1. job["prebuild"] \in Phase => planArt \in Plans
    BY <1>1 DEF IInv, PlanFirst, TypeOK
  <2>2. job["prebuild"] \in Phase =>
          planArt.targets \subseteq Target /\ planArt.digest \in Nat
    BY <2>1, PlanFacts
  <2>3. store' \in [Shard \union {"prebuild"} -> SUBSET Target] /\ hit' \in BOOLEAN
    <3>1. store \in [Shard \union {"prebuild"} -> SUBSET Target] /\ hit \in BOOLEAN
          /\ cache \in (SUBSET Target) \union {None}
      BY DEF IInv, TypeOK
    <3>2. CASE PrebuildRestore
      <4>1. PICK outputs \in Restorable :
               /\ store' = [store EXCEPT !["prebuild"] = outputs]
               /\ hit' = (cache # None /\ outputs = cache)
        BY <3>2 DEF PrebuildRestore
      <4>2. outputs \in SUBSET Target
        BY <3>1 DEF Restorable
      <4>3. hit' \in BOOLEAN
        BY <4>1
      <4> QED
        BY <3>1, <4>1, <4>2, <4>3
    <3>3. CASE PrebuildBuild
      BY <2>2, <3>1, <3>3 DEF PrebuildBuild, Phase
    <3>4. CASE PrebuildUpload \/ PrebuildSave
      BY <3>1, <3>4 DEF PrebuildUpload, PrebuildSave
    <3> QED
      BY <3>2, <3>3, <3>4 DEF PrebuildStep
  <2>4. prebuildArt' \in PrebuildEvidence \union {None}
    BY <2>2 DEF PrebuildStep, PrebuildRestore, PrebuildBuild, PrebuildUpload,
                PrebuildSave, PrebuildEvidence, IInv, TypeOK, Phase, artifacts
  <2>5. cache' \in (SUBSET Target) \union {None}
    <3>1. store["prebuild"] \in SUBSET Target
      BY DEF IInv, TypeOK
    <3> QED
      BY <3>1 DEF PrebuildStep, PrebuildRestore, PrebuildBuild, PrebuildUpload,
                  PrebuildSave, IInv, TypeOK
  <2> QED
    BY <1>3, <1>4, <2>3, <2>4, <2>5 DEF IInv, TypeOK
<1>6. EvidenceTruthful' /\ GateSound'
  BY <1>3, <1>4 DEF IInv, EvidenceTruthful, Truthful, GateSound, Accepted
<1>7. SharedOutputsLocal'
  BY <1>4 DEF IInv, SharedOutputsLocal
<1> QED
  BY <1>3, <1>5, <1>6, <1>7 DEF IInv

(* Whatever a shard job writes is evidence.                                *)
LEMMA EvidenceShape ==
  ASSUME TypeOK, planArt \in Plans, NEW s \in Shard
  PROVE  PassEvidence(s) \in Evidence /\ FailedEvidence \in Evidence
<1>1. {<<c, planArt.checks[c]>> : c \in planArt.shards[s]} \in SUBSET (Check \X Drv)
  BY PlanFacts
<1> QED
  BY <1>1, PlanFacts DEF PassEvidence, FailedEvidence, Evidence, TypeOK

LEMMA ShardStepInv ==
  ASSUME NEW s \in Shard
  PROVE  IInv /\ ShardStep(s) => IInv'
<1> SUFFICES ASSUME IInv, ShardStep(s) PROVE IInv'
  OBVIOUS
<1>1. s \in Job \ {"plan", "result"} /\ s # "prebuild" /\ s \in Shard \union {"prebuild"}
  BY JobsDistinct DEF Job
<1>2. JobStep(s)
  <2>1. CASE ShardRestore(s)
    <3>1. "plan" \in Needs(s)
      BY <1>1 DEF Needs
    <3> QED
      BY <2>1, <1>1, <3>1 DEF ShardRestore, JobStep, NeedsSucceeded, Conclude,
                              artifacts, Phase
  <2>2. CASE RequireLocal(s)
    BY <2>2, <1>1 DEF RequireLocal, JobStep, Conclude, artifacts, Phase, IInv,
                      PlanFirst
  <2>3. CASE ShardBuild(s)
    BY <2>3, <1>1 DEF ShardBuild, JobStep, Conclude, artifacts, Phase, IInv,
                      PlanFirst
  <2>4. CASE ShardUpload(s)
    BY <2>4, <1>1 DEF ShardUpload, JobStep, Conclude, artifacts, Phase
  <2> QED
    BY <2>1, <2>2, <2>3, <2>4 DEF ShardStep
<1>3. /\ job' \in [Job -> Status]
      /\ PlanFirst' /\ ResultLast'
      /\ job["result"] = "waiting" /\ job'["result"] = "waiting"
  BY <1>2, JobStepInv
<1>4. GateSound'
  BY <1>3 DEF GateSound, Accepted
<1>5. job[s] \in Phase => planArt \in Plans
  BY <1>1 DEF IInv, PlanFirst, TypeOK
<1>6. /\ UNCHANGED <<attempt, hit, planArt, prebuildArt, cache>>
      /\ \A k \in Shard \ {s} : job'[k] = job[k]
  <2>1. \A k \in Shard : k \in Job
    BY DEF Job
  <2> QED
    BY <2>1 DEF ShardStep, ShardRestore, RequireLocal, ShardBuild, ShardUpload,
                artifacts, Conclude, IInv, TypeOK
<1>7. CASE ShardRestore(s)
  <2>1. PICK outputs \in Restorable : store' = [store EXCEPT ![s] = outputs]
    BY <1>7 DEF ShardRestore
  <2>2. outputs \in SUBSET Target
    BY DEF Restorable, IInv, TypeOK
  <2>3. /\ store' \in [Shard \union {"prebuild"} -> SUBSET Target]
        /\ \A k \in Shard \ {s} : store'[k] = store[k]
    BY <2>1, <2>2, <1>1 DEF IInv, TypeOK
  <2>4. /\ file' = [file EXCEPT ![s] = None] /\ ran' = [ran EXCEPT ![s] = attempt]
        /\ UNCHANGED <<shardArt, built>> /\ job'[s] = "restored"
    BY <1>7, <1>1 DEF ShardRestore, artifacts, Conclude, IInv, TypeOK
  <2>5. TypeOK'
    BY <1>3, <1>6, <2>3, <2>4 DEF IInv, TypeOK
  <2>6. EvidenceTruthful'
    BY <2>4 DEF IInv, TypeOK, EvidenceTruthful, Truthful
  <2>7. SharedOutputsLocal'
    BY <1>6, <2>3, <2>4 DEF IInv, SharedOutputsLocal
  <2> QED
    BY <1>3, <1>4, <2>5, <2>6, <2>7 DEF IInv
<1>8. CASE RequireLocal(s)
  <2>1. /\ UNCHANGED <<store, file, shardArt, built, ran>>
        /\ job'[s] = "checked" => planArt.targets \subseteq store[s]
        /\ job'[s] # "built"
    BY <1>8, <1>1 DEF RequireLocal, PrebuildMatches, LocallyComplete, artifacts, Conclude, IInv, TypeOK
  <2>2. TypeOK'
    BY <1>3, <1>6, <2>1 DEF IInv, TypeOK
  <2>3. EvidenceTruthful'
    BY <2>1 DEF IInv, EvidenceTruthful, Truthful
  <2>4. SharedOutputsLocal'
    BY <1>6, <2>1 DEF IInv, SharedOutputsLocal
  <2> QED
    BY <1>3, <1>4, <2>2, <2>3, <2>4 DEF IInv
<1>9. CASE ShardBuild(s)
  <2>1. planArt \in Plans /\ job[s] = "checked"
    BY <1>5, <1>9 DEF ShardBuild, Phase
  <2> PICK w \in Plans : \E done \in SUBSET Evaluated(w, s) :
          /\ built' = built \union done
          /\ file' = [file EXCEPT ![s] = IF AllRealised(w, s, done)
                                          THEN PassEvidence(s) ELSE FailedEvidence]
    BY <1>9 DEF ShardBuild
  <2>2. PICK done \in SUBSET Evaluated(w, s) :
          /\ built' = built \union done
          /\ file' = [file EXCEPT ![s] = IF AllRealised(w, s, done)
                                          THEN PassEvidence(s) ELSE FailedEvidence]
    OBVIOUS
  <2>3. UNCHANGED <<store, shardArt, ran>> /\ job'[s] = "built"
    BY <1>9, <1>1 DEF ShardBuild, artifacts, Conclude, IInv, TypeOK
  <2>4. built \subseteq built' /\ built' \subseteq Drv
    BY <2>2, PlanFacts DEF Evaluated, DrvsOf, IInv, TypeOK
  <2>5. /\ PassEvidence(s) \in Evidence /\ FailedEvidence \in Evidence
        /\ FailedEvidence.status # "pass"
        /\ PassEvidence(s).digest = planArt.digest
    BY <2>1, EvidenceShape DEF IInv, PassEvidence, FailedEvidence
  <2>6. TypeOK'
    BY <1>3, <1>6, <2>2, <2>3, <2>4, <2>5 DEF IInv, TypeOK
  <2>7. Truthful(file[s], s)' /\ \A k \in Shard \ {s} : Truthful(file[k], k)'
    <3>1. CASE AllRealised(w, s, done)
      <4>1. file'[s] = PassEvidence(s) /\ \A k \in Shard \ {s} : file'[k] = file[k]
        BY <2>2, <3>1 DEF IInv, TypeOK
      <4>2. DrvsOf(planArt, planArt.shards[s]) \subseteq built'
        BY <2>2, <3>1 DEF AllRealised
      <4>3. \A p \in Plans : p.digest = planArt.digest => p = planArt
        BY <2>1, PlanFacts
      <4>4. \A p \in Plans : p.digest = file'[s].digest =>
              DrvsOf(p, p.shards[s]) \subseteq built'
        BY <4>1, <4>2, <4>3, <2>5
      <4> QED
        BY <4>1, <4>4, <2>4 DEF IInv, EvidenceTruthful, Truthful
    <3>2. CASE ~AllRealised(w, s, done)
      <4>1. file'[s] = FailedEvidence /\ \A k \in Shard \ {s} : file'[k] = file[k]
        BY <2>2, <3>2 DEF IInv, TypeOK
      <4> QED
        BY <4>1, <2>4, <2>5 DEF IInv, EvidenceTruthful, Truthful
    <3> QED
      BY <3>1, <3>2
  <2>8. EvidenceTruthful'
    BY <2>3, <2>4, <2>7 DEF IInv, EvidenceTruthful, Truthful
  <2>9. SharedOutputsLocal'
    BY <1>6, <2>1, <2>3 DEF IInv, SharedOutputsLocal
  <2> QED
    BY <1>3, <1>4, <2>6, <2>8, <2>9 DEF IInv
<1>10. CASE ShardUpload(s)
  <2>1. /\ UNCHANGED <<store, file, built, ran>>
        /\ job'[s] \notin {"checked", "built"}
        /\ shardArt' \in [Shard -> Evidence \union {None}]
        /\ shardArt'[s] \in {shardArt[s], file[s]}
        /\ \A k \in Shard \ {s} : shardArt'[k] = shardArt[k]
    BY <1>10, <1>1 DEF ShardUpload, Conclude, IInv, TypeOK
  <2>2. TypeOK'
    BY <1>3, <1>6, <2>1 DEF IInv, TypeOK
  <2>3. EvidenceTruthful'
    BY <2>1 DEF IInv, EvidenceTruthful, Truthful
  <2>4. SharedOutputsLocal'
    BY <1>6, <2>1 DEF IInv, SharedOutputsLocal
  <2> QED
    BY <1>3, <1>4, <2>2, <2>3, <2>4 DEF IInv
<1> QED
  BY <1>7, <1>8, <1>9, <1>10 DEF ShardStep
LEMMA ResultStepInv == IInv /\ ResultStep => IInv'
<1> SUFFICES ASSUME IInv, ResultStep PROVE IInv'
  OBVIOUS
<1>1. "result" \in Job /\ "result" \notin Shard /\ Needs("result") = Job \ {"result"}
  BY JobsDistinct DEF Job, Needs
<1>2. /\ UNCHANGED <<attempt, store, hit, file, planArt, prebuildArt, shardArt,
                    cache, built, ran>>
      /\ \A j \in Job \ {"result"} : job[j] \in Concluded
      /\ job'["result"] \in {"success", "failure"}
      /\ \A j \in Job \ {"result"} : job'[j] = job[j]
      /\ job' \in [Job -> Status]
  BY <1>1 DEF ResultStep, ResultPasses, ResultFails, ResultMayStart, NeedsConcluded,
              Conclude, artifacts, IInv, TypeOK, Status, Concluded
<1>3. TypeOK'
  BY <1>2 DEF IInv, TypeOK
<1>4. PlanFirst' /\ ResultLast'
  BY <1>1, <1>2 DEF IInv, PlanFirst, ResultLast, Job, Concluded
<1>5. EvidenceTruthful'
  BY <1>2 DEF IInv, EvidenceTruthful, Truthful
<1>6. GateSound'
  <2>1. CASE ResultFails
    BY <2>1, <1>1 DEF ResultFails, Conclude, GateSound, Accepted, IInv, TypeOK
  <2>2. CASE ResultPasses
    <3>1. planArt \in Plans /\ Verify
      BY <2>2 DEF ResultPasses, IInv, TypeOK
    <3>2. ASSUME NEW c \in Names(planArt) PROVE planArt.checks[c] \in built
      <4>1. PICK s \in Listed(planArt) : c \in planArt.shards[s]
        BY <3>1, PlanFacts
      <4>2. /\ s \in Shard /\ shardArt[s] # None
            /\ shardArt[s].digest = planArt.digest
            /\ shardArt[s].status = "pass"
        BY <3>1 DEF Verify, Listed
      <4>3. DrvsOf(planArt, planArt.shards[s]) \subseteq built
        BY <3>1, <4>2 DEF IInv, EvidenceTruthful, Truthful
      <4> QED
        BY <4>1, <4>3 DEF DrvsOf
    <3>3. DrvsOf(planArt, Names(planArt)) \subseteq built
      BY <3>2 DEF DrvsOf
    <3> QED
      BY <1>2, <3>1, <3>3 DEF GateSound
  <2> QED
    BY <2>1, <2>2 DEF ResultStep
<1>7. SharedOutputsLocal'
  BY <1>1, <1>2 DEF IInv, SharedOutputsLocal, Job
<1> QED
  BY <1>3, <1>4, <1>5, <1>6, <1>7 DEF IInv

LEMMA SkipOrLoseInv ==
  ASSUME NEW j \in Job
  PROVE  IInv /\ (Skip(j) \/ LoseRunner(j)) => IInv'
<1> SUFFICES ASSUME IInv, Skip(j) \/ LoseRunner(j) PROVE IInv'
  OBVIOUS
<1>1. /\ UNCHANGED <<attempt, store, hit, file, planArt, prebuildArt, shardArt,
                    cache, built, ran>>
      /\ \E status \in {"skipped", "failure"} : job' = [job EXCEPT ![j] = status]
  BY DEF Skip, LoseRunner, Conclude, artifacts
<1>2. j # "plan"
  BY DEF Skip, SkippedBy, LoseRunner, NeedsSucceeded, Needs, IInv, PlanFirst
<1>3. j # "result" /\ job[j] \in {"waiting"} \union Phase
  BY DEF Skip, SkippedBy, LoseRunner, IInv, ResultLast, Phase
<1>4. JobStep(j)
  BY <1>1, <1>2, <1>3 DEF JobStep, Phase
<1>5. /\ job' \in [Job -> Status]
      /\ PlanFirst' /\ ResultLast'
      /\ job["result"] = "waiting" /\ job'["result"] = "waiting"
  BY <1>4, JobStepInv
<1>6. TypeOK'
  BY <1>1, <1>5 DEF IInv, TypeOK
<1>7. EvidenceTruthful' /\ GateSound'
  BY <1>1, <1>5 DEF IInv, EvidenceTruthful, Truthful, GateSound, Accepted
<1>8. SharedOutputsLocal'
  BY <1>1 DEF IInv, TypeOK, SharedOutputsLocal, Job
<1> QED
  BY <1>5, <1>6, <1>7, <1>8 DEF IInv

LEMMA CancelInv == IInv /\ Cancel => IInv'
<1> SUFFICES ASSUME IInv, Cancel PROVE IInv'
  OBVIOUS
<1>1. /\ UNCHANGED <<attempt, store, hit, file, planArt, prebuildArt, cache,
                    built, ran>>
      /\ \E j \in Job \ {"result"} : job[j] \notin Concluded
      /\ \A j \in Job : job'[j] \in {job[j], "cancelled"}
      /\ job'["result"] = job["result"]
      /\ job' \in [Job -> Status]
  <2>1. job' = [j \in Job |-> IF j # "result" /\ job[j] \notin Concluded
                              THEN "cancelled" ELSE job[j]]
    BY DEF Cancel
  <2>2. "cancelled" \in Status /\ job \in [Job -> Status] /\ "result" \in Job
    BY DEF Status, Concluded, IInv, TypeOK, Job
  <2> QED
    BY <2>1, <2>2 DEF Cancel
<1>2. \A j \in Job \ {"result"} : job'[j] \in Concluded
  BY DEF Cancel, Concluded
<1>3. job["result"] = "waiting" /\ job'["result"] = "waiting"
  BY <1>1 DEF IInv, ResultLast
<1>4. PICK U \in SUBSET {s \in Shard : job[s] \in {"checked", "built"}} :
        shardArt' = [s \in Shard |->
          IF s \notin U THEN shardArt[s]
          ELSE IF job[s] = "built" THEN file[s] ELSE FailedEvidence]
  BY DEF Cancel
<1>5. \A s \in U : FailedEvidence \in Evidence /\ FailedEvidence.status # "pass"
  <2> SUFFICES ASSUME NEW s \in U
               PROVE  FailedEvidence \in Evidence /\ FailedEvidence.status # "pass"
    OBVIOUS
  <2>1. planArt \in Plans
    BY <1>4, JobsDistinct DEF IInv, PlanFirst, TypeOK, Job, Phase
  <2> QED
    BY <2>1, PlanFacts DEF FailedEvidence, Evidence, IInv, TypeOK
<1>6. TypeOK'
  <2>1. shardArt' \in [Shard -> Evidence \union {None}]
    BY <1>4, <1>5 DEF IInv, TypeOK
  <2> QED
    BY <1>1, <2>1 DEF IInv, TypeOK
<1>7. PlanFirst' /\ ResultLast'
  BY <1>1, <1>2, <1>3 DEF IInv, PlanFirst, ResultLast, Job, Phase, Concluded
<1>8. EvidenceTruthful'
  <2>1. ASSUME NEW s \in Shard PROVE Truthful(shardArt[s], s)'
    <3>1. CASE s \in U /\ job[s] # "built"
      BY <3>1, <1>4, <1>5 DEF Truthful
    <3>2. CASE ~(s \in U /\ job[s] # "built")
      BY <3>2, <1>1, <1>4 DEF Truthful, IInv, EvidenceTruthful
    <3> QED
      BY <3>1, <3>2
  <2>2. \A s \in Shard : Truthful(file[s], s)'
    BY <1>1 DEF IInv, EvidenceTruthful, Truthful
  <2> QED
    BY <2>1, <2>2 DEF EvidenceTruthful
<1>9. GateSound' /\ SharedOutputsLocal'
  BY <1>1, <1>3 DEF IInv, GateSound, Accepted, SharedOutputsLocal, Job
<1> QED
  BY <1>6, <1>7, <1>8, <1>9 DEF IInv

LEMMA RerunInv == IInv /\ Rerun => IInv'
<1> SUFFICES ASSUME IInv, Rerun PROVE IInv'
  OBVIOUS
<1>1. /\ UNCHANGED <<store, hit, file, planArt, prebuildArt, shardArt, cache,
                    built, ran>>
      /\ attempt' = attempt + 1 /\ attempt < MaxAttempt
      /\ \A j \in Job : job[j] \in Concluded
  BY DEF Rerun, Ended, artifacts
<1>2. PICK chosen \in SUBSET Job :
        /\ chosen # {}
        /\ job' = [j \in Job |->
             IF /\ j \in UNION {Dependents(k) : k \in chosen}
                /\ job[j] # "absent" \/ "plan" \in UNION {Dependents(k) : k \in chosen}
               THEN "waiting" ELSE job[j]]
  <2>1. PICK chosen \in {{"plan"}, Unsuccessful} \union
                   {{j} : j \in {k \in Job : job[k] # "absent"}} :
          /\ chosen # {}
          /\ job' = [j \in Job |->
               IF /\ j \in UNION {Dependents(k) : k \in chosen}
                  /\ job[j] # "absent" \/ "plan" \in UNION {Dependents(k) : k \in chosen}
                 THEN "waiting" ELSE job[j]]
    BY DEF Rerun
  <2>2. chosen \in SUBSET Job
    BY DEF Unsuccessful, Job
  <2> QED
    BY <2>1, <2>2
<1>3. \A k \in chosen : "result" \in Dependents(k)
  BY DEF Dependents, Job
<1>4. "result" \in UNION {Dependents(k) : k \in chosen}
  BY <1>2, <1>3
<1>5. /\ job' \in [Job -> Status]
      /\ \A j \in Job : job'[j] \in {"waiting", job[j]}
  BY <1>2 DEF IInv, TypeOK, Status
<1>6. job'["result"] = "waiting"
  BY <1>2, <1>4 DEF IInv, ResultLast, Job
<1>7. TypeOK'
  <2>1. attempt' \in 1 .. MaxAttempt
    BY <1>1, AttemptAssumption DEF IInv, TypeOK
  <2> QED
    BY <1>1, <1>5, <2>1 DEF IInv, TypeOK
<1>8. \A j \in Job : job'[j] \notin Phase
  BY <1>1, <1>5 DEF Concluded, Phase
<1>9. PlanFirst' /\ ResultLast'
  BY <1>1, <1>5, <1>6, <1>8 DEF IInv, PlanFirst, ResultLast, Job
<1>10. EvidenceTruthful' /\ GateSound'
  BY <1>1, <1>6 DEF IInv, EvidenceTruthful, Truthful, GateSound, Accepted
<1>11. SharedOutputsLocal'
  BY <1>8 DEF SharedOutputsLocal, Job, Phase
<1> QED
  BY <1>7, <1>9, <1>10, <1>11 DEF IInv

LEMMA StutterInv == IInv /\ UNCHANGED vars => IInv'
<1> SUFFICES ASSUME IInv, UNCHANGED vars PROVE IInv'
  OBVIOUS
<1>1. TypeOK' /\ PlanFirst' /\ ResultLast'
  BY DEF vars, IInv, TypeOK, PlanFirst, ResultLast
<1>2. EvidenceTruthful' /\ GateSound' /\ SharedOutputsLocal'
  BY DEF vars, IInv, EvidenceTruthful, Truthful, GateSound, Accepted,
         SharedOutputsLocal
<1> QED
  BY <1>1, <1>2 DEF IInv

LEMMA NextIInv == IInv /\ [Next]_vars => IInv'
<1> SUFFICES ASSUME IInv, [Next]_vars PROVE IInv'
  OBVIOUS
<1>1. CASE PlanStep
  BY <1>1, PlanStepInv
<1>2. CASE PrebuildStep
  BY <1>2, PrebuildStepInv
<1>3. ASSUME NEW s \in Shard, ShardStep(s) PROVE IInv'
  BY <1>3, ShardStepInv
<1>4. CASE ResultStep
  BY <1>4, ResultStepInv
<1>5. ASSUME NEW j \in Job, Skip(j) \/ LoseRunner(j) PROVE IInv'
  BY <1>5, SkipOrLoseInv
<1>6. CASE Cancel
  BY <1>6, CancelInv
<1>7. CASE Evict \/ ForeignSave
  BY <1>7, EnvironmentInv
<1>8. CASE Rerun
  BY <1>8, RerunInv
<1>9. CASE UNCHANGED vars
  BY <1>9, StutterInv
<1> QED
  BY <1>1, <1>2, <1>3, <1>4, <1>5, <1>6, <1>7, <1>8, <1>9 DEF Next

(* The inductive invariant holds in every reachable state of the run.      *)
THEOREM Invariance == Spec => []IInv
<1>1. Init => IInv
  BY InitIInv
<1>2. IInv /\ [Next]_vars => IInv'
  BY NextIInv
<1> QED
  BY <1>1, <1>2, PTL DEF Spec

(* The state of a run keeps its types, over any number of attempts.        *)
THEOREM TypeCorrect == Spec => []TypeOK
<1>1. IInv => TypeOK
  BY DEF IInv
<1> QED
  BY <1>1, Invariance, PTL

(* Passing evidence never lies, for any number of shards and attempts and  *)
(* any set of differing evaluations (build_command's evidence status).     *)
THEOREM TruthfulEvidence == Spec => []EvidenceTruthful
<1>1. IInv => EvidenceTruthful
  BY DEF IInv
<1> QED
  BY <1>1, Invariance, PTL

(* The required check passes only when every check of the plan in force    *)
(* was built (the result job and verify_command).                          *)
THEOREM SoundGate == Spec => []GateSound
<1>1. IInv => GateSound
  BY DEF IInv
<1> QED
  BY <1>1, Invariance, PTL

(* A shard builds only over a complete local set of shared outputs         *)
(* (prebuild_local_command), whatever happened to the cache meanwhile.     *)
THEOREM LocalSharedOutputs == Spec => []SharedOutputsLocal
<1>1. IInv => SharedOutputsLocal
  BY DEF IInv
<1> QED
  BY <1>1, Invariance, PTL
-----------------------------------------------------------------------------
(***************************************************************************)
(* Refinement: seen through its required check, the run is an exact-head   *)
(* gate.                                                                   *)
(***************************************************************************)

(* The mapped verdict depends on the result job alone ...                  *)
LEMMA VerdictOf ==
  ASSUME ResultLast
  PROVE  Verdict = IF job["result"] = "success" THEN "green"
                   ELSE IF job["result"] = "failure" THEN "red" ELSE "open"
<1>1. CASE job["result"] = "success"
  BY <1>1 DEF Verdict, Accepted
<1>2. CASE job["result"] = "failure"
  BY <1>2 DEF Verdict, Accepted
<1>3. CASE job["result"] = "waiting"
  BY <1>3 DEF Verdict, Accepted
<1> QED
  BY <1>1, <1>2, <1>3 DEF ResultLast

(* ... and a plan's inventory is one of the inventories.                   *)
LEMMA InventoryOf ==
  ASSUME planArt \in Plans
  PROVE  /\ InventoryInForce = DrvsOf(planArt, Names(planArt))
         /\ InventoryInForce \in {DrvsOf(p, Names(p)) : p \in Plans}
  BY PlansAssumption DEF InventoryInForce

(* Steps that leave the result job alone re-evaluate, build, or stutter.   *)
LEMMA OpenStep ==
  ASSUME IInv, IInv', job["result"] = "waiting", job'["result"] = "waiting",
         \/ UNCHANGED built /\ planArt' \in Plans
         \/ UNCHANGED planArt /\ built \subseteq built'
  PROVE  [Gate!Next]_Gate!vars
<1>1. Verdict = "open" /\ Verdict' = "open"
  BY VerdictOf DEF IInv, Verdict, Accepted
<1>2. CASE UNCHANGED built /\ planArt' \in Plans
  <2>1. InventoryInForce' \in {DrvsOf(p, Names(p)) : p \in Plans}
    BY <1>2, PlansAssumption DEF InventoryInForce
  <2> QED
    BY <1>1, <1>2, <2>1 DEF Gate!Next, Gate!Evaluate
<1>3. CASE UNCHANGED planArt /\ built \subseteq built'
  <2>1. UNCHANGED InventoryInForce
    BY <1>3 DEF InventoryInForce
  <2>2. built' = built \union built' /\ built' \in SUBSET Drv
    BY <1>3 DEF IInv, TypeOK
  <2> QED
    BY <1>1, <2>1, <2>2 DEF Gate!Next, Gate!Build
<1> QED
  BY <1>2, <1>3

LEMMA ResultStepRefines ==
  ASSUME IInv, IInv', ResultStep
  PROVE  [Gate!Next]_Gate!vars
<1>1. /\ UNCHANGED <<planArt, built>> /\ job["result"] = "waiting"
      /\ "result" \in Job /\ job \in [Job -> Status]
  BY DEF ResultStep, ResultPasses, ResultFails, artifacts, Job, IInv, TypeOK
<1>2. Verdict = "open" /\ UNCHANGED InventoryInForce
  BY <1>1, VerdictOf DEF IInv, InventoryInForce
<1>3. CASE ResultFails
  <2>1. job'["result"] = "failure"
    BY <1>1, <1>3 DEF ResultFails, Conclude
  <2>2. Verdict' = "red"
    BY <2>1 DEF Verdict, Accepted
  <2> QED
    BY <1>1, <1>2, <2>2 DEF Gate!Next, Gate!Reject
<1>4. CASE ResultPasses
  <2>1. job'["result"] = "success"
    BY <1>1, <1>4 DEF ResultPasses, Conclude
  <2>2. Verdict' = "green"
    BY <2>1 DEF Verdict, Accepted
  <2>3. planArt \in Plans /\ DrvsOf(planArt, Names(planArt)) \subseteq built
    BY <1>1, <2>1 DEF IInv, GateSound, Accepted
  <2>4. /\ InventoryInForce \in {DrvsOf(p, Names(p)) : p \in Plans}
        /\ InventoryInForce \subseteq built
    BY <2>3, InventoryOf
  <2> QED
    BY <1>1, <1>2, <2>2, <2>4 DEF Gate!Next, Gate!Accept
<1> QED
  BY <1>3, <1>4 DEF ResultStep

LEMMA RerunRefines ==
  ASSUME IInv, IInv', Rerun
  PROVE  [Gate!Next]_Gate!vars
<1>1. UNCHANGED <<planArt, built>> /\ job["result"] \in {"success", "failure"}
  BY DEF Rerun, Ended, artifacts, IInv, ResultLast, Job, Concluded
<1>2. job'["result"] = "waiting"
  <2>1. PICK chosen \in {{"plan"}, Unsuccessful} \union
                   {{j} : j \in {k \in Job : job[k] # "absent"}} :
          /\ chosen # {}
          /\ job' = [j \in Job |->
               IF /\ j \in UNION {Dependents(k) : k \in chosen}
                  /\ job[j] # "absent" \/ "plan" \in UNION {Dependents(k) : k \in chosen}
                 THEN "waiting" ELSE job[j]]
    BY DEF Rerun
  <2>2. \A k \in chosen : "result" \in Dependents(k)
    BY DEF Dependents, Job
  <2> QED
    BY <1>1, <2>1, <2>2 DEF Job
<1>3. Verdict \in {"green", "red"} /\ Verdict' = "open"
  BY <1>1, <1>2, VerdictOf DEF IInv, Verdict, Accepted
<1>4. UNCHANGED InventoryInForce
  BY <1>1 DEF InventoryInForce
<1> QED
  BY <1>1, <1>3, <1>4 DEF Gate!Next, Gate!Reopen

LEMMA StepRefines == IInv /\ IInv' /\ [Next]_vars => [Gate!Next]_Gate!vars
<1> SUFFICES ASSUME IInv, IInv', [Next]_vars PROVE [Gate!Next]_Gate!vars
  OBVIOUS
<1>1. CASE ResultStep
  BY <1>1, ResultStepRefines
<1>2. CASE Rerun
  BY <1>2, RerunRefines
<1>3. CASE Evict \/ ForeignSave \/ UNCHANGED vars
  <2>1. UNCHANGED <<job, planArt, built>>
    BY <1>3 DEF Evict, ForeignSave, artifacts, vars
  <2>2. UNCHANGED <<Verdict, InventoryInForce, built>>
    BY <2>1 DEF Verdict, Accepted, InventoryInForce
  <2> QED
    BY <2>2 DEF Gate!vars
<1>4. CASE PlanStep
  <2>1. /\ UNCHANGED built /\ planArt' \in Plans \union {planArt}
        /\ job["plan"] = "waiting"
    BY <1>4 DEF PlanStep, PlanSucceeds, PlanFails
  <2>2. job["result"] = "waiting"
    BY <2>1 DEF IInv, ResultLast, Job, Concluded
  <2>3. job'["result"] = "waiting"
    <3>1. CASE PlanFails
      BY <2>2, <3>1 DEF PlanFails, Conclude, IInv, TypeOK, Job
    <3>2. ASSUME NEW p \in Plans, PlanSucceeds(p) PROVE job'["result"] = "waiting"
      BY <2>2, <3>2, JobsDistinct DEF PlanSucceeds, Job
    <3> QED
      BY <1>4, <3>1, <3>2 DEF PlanStep
  <2> QED
    BY <2>1, <2>2, <2>3, OpenStep
<1>5. CASE PrebuildStep
  <2>1. UNCHANGED <<planArt, built>> /\ job["prebuild"] \in {"waiting"} \union Phase
    BY <1>5 DEF PrebuildStep, PrebuildRestore, PrebuildBuild, PrebuildUpload,
                PrebuildSave, artifacts, Phase
  <2>2. job["result"] = "waiting"
    BY <2>1 DEF IInv, ResultLast, Job, Concluded, Phase
  <2>3. job'["result"] = "waiting"
    BY <1>5, <2>2 DEF PrebuildStep, PrebuildRestore, PrebuildBuild, PrebuildUpload,
                PrebuildSave, Conclude, IInv, TypeOK, Job
  <2> QED
    BY <2>1, <2>2, <2>3, OpenStep
<1>6. ASSUME NEW s \in Shard, ShardStep(s) PROVE [Gate!Next]_Gate!vars
  <2>1. /\ UNCHANGED planArt /\ built \subseteq built'
        /\ job[s] \in {"waiting"} \union Phase
    BY <1>6 DEF ShardStep, ShardRestore, RequireLocal, ShardBuild, ShardUpload,
                artifacts, Phase
  <2>2. job["result"] = "waiting" /\ s # "result"
    BY <2>1, JobsDistinct DEF IInv, ResultLast, Job, Concluded, Phase
  <2>3. job'["result"] = "waiting"
    BY <1>6, <2>2 DEF ShardStep, ShardRestore, RequireLocal, ShardBuild, ShardUpload,
                Conclude, IInv, TypeOK, Job
  <2> QED
    BY <2>1, <2>2, <2>3, OpenStep
<1>7. ASSUME NEW j \in Job, Skip(j) \/ LoseRunner(j) PROVE [Gate!Next]_Gate!vars
  <2>1. /\ UNCHANGED <<planArt, built>> /\ job[j] \in {"waiting"} \union Phase
        /\ j # "result"
    BY <1>7 DEF Skip, SkippedBy, LoseRunner, artifacts, IInv, ResultLast, Phase
  <2>2. job["result"] = "waiting"
    BY <2>1 DEF IInv, ResultLast, Concluded, Phase
  <2>3. job'["result"] = "waiting"
    BY <1>7, <2>1, <2>2 DEF Skip, LoseRunner, Conclude, IInv, TypeOK, Job
  <2> QED
    BY <2>1, <2>2, <2>3, OpenStep
<1>8. CASE Cancel
  <2>1. UNCHANGED <<planArt, built>> /\ job["result"] = "waiting"
    BY <1>8 DEF Cancel, IInv, ResultLast
  <2>2. job'["result"] = "waiting"
    BY <1>8, <2>1 DEF Cancel, Job
  <2> QED
    BY <2>1, <2>2, OpenStep
<1> QED
  BY <1>1, <1>2, <1>3, <1>4, <1>5, <1>6, <1>7, <1>8 DEF Next

(* The matrix run implements the exact-head gate: initial states map to    *)
(* initial states and every step to a gate step or a stutter.              *)
THEOREM MatrixImplementsGate == Spec => ImplementsGate
<1>1. Init => Gate!Init
  BY DEF Init, Gate!Init, Verdict, Accepted, InventoryInForce, Job
<1>2. IInv /\ IInv' /\ [Next]_vars => [Gate!Next]_Gate!vars
  BY StepRefines
<1> QED
  BY <1>1, <1>2, Invariance, PTL DEF Spec, ImplementsGate, Gate!Spec
-----------------------------------------------------------------------------
(***************************************************************************)
(* The evidence in force.  A second invariant follows the jobs of the      *)
(* current attempt: what a job that succeeded, or is about to, leaves      *)
(* behind is of the plan in force and of that job's last start.            *)
(***************************************************************************)

(* Until the plan job concludes, no other job does anything; a job is      *)
(* absent only next to a plan that does not list it.                       *)
PlanOpens ==
  /\ job["plan"] = "waiting" => \A j \in Job : job[j] = "waiting"
  /\ job["plan"] # "absent" /\ job["prebuild"] # "absent"
  /\ job["plan"] = "success" => \A s \in Listed(planArt) : job[s] # "absent"

(* Passing evidence of the plan in force, from the shard's last start.     *)
CurrentPass(s) ==
  [digest |-> planArt.digest, status |-> "pass",
   checks |-> {<<c, planArt.checks[c]>> : c \in planArt.shards[s]},
   by |-> ran[s]]

(* A running shard job belongs to this attempt; the evidence it holds, and *)
(* that of one that succeeded, is of its last start and the plan in force. *)
ShardCurrent(s) ==
  /\ job[s] \in Phase => ran[s] = attempt
  /\ job[s] = "built" => file[s] # None /\ (file[s].status = "pass" => file[s] = CurrentPass(s))
  /\ job["plan"] = "success" /\ job[s] = "success" =>
       shardArt[s] # None /\ shardArt[s] = CurrentPass(s)

(* The same for the prebuild job and its store.                            *)
PrebuildCurrent ==
  /\ job["prebuild"] \in {"built", "uploaded"} => planArt.targets \subseteq store["prebuild"]
  /\ \/ job["prebuild"] = "uploaded"
     \/ job["plan"] = "success" /\ job["prebuild"] = "success"
     => prebuildArt = [digest |-> planArt.digest, outputs |-> planArt.targets]

EvidenceInv ==
  /\ PlanOpens
  /\ PrebuildCurrent
  /\ \A s \in Shard : ShardCurrent(s)
  /\ NewestEvidence

(* Once the plan and every listed job succeeded, the evidence of each      *)
(* listed shard and of the shared outputs is current.                      *)
LEMMA SucceededCurrent ==
  ASSUME IInv, PlanOpens, PrebuildCurrent, \A s \in Shard : ShardCurrent(s),
         JobsSucceeded
  PROVE  /\ planArt \in Plans
         /\ PrebuildMatches
         /\ \A s \in Listed(planArt) : shardArt[s] # None /\ shardArt[s] = CurrentPass(s)
<1>1. job["plan"] = "success" /\ job["prebuild"] = "success"
  BY JobsDistinct DEF JobsSucceeded, PlanOpens, Job
<1>2. planArt \in Plans
  BY <1>1 DEF IInv, PlanFirst, TypeOK
<1>3. PrebuildMatches
  BY <1>1 DEF PrebuildCurrent, PrebuildMatches
<1>4. ASSUME NEW s \in Listed(planArt) 
      PROVE  shardArt[s] # None /\ shardArt[s] = CurrentPass(s)
  <2>1. s \in Shard /\ s \in Job \ {"result"}
    BY JobsDistinct DEF Listed, Job
  <2>2. job[s] = "success"
    BY <1>1, <2>1 DEF JobsSucceeded, PlanOpens
  <2> QED
    BY <1>1, <2>1, <2>2 DEF ShardCurrent
<1> QED
  BY <1>2, <1>3, <1>4

LEMMA CurrentPassFields ==
  \A s : /\ CurrentPass(s).digest = planArt.digest
         /\ CurrentPass(s).status = "pass"
         /\ CurrentPass(s).checks = {<<c, planArt.checks[c]>> : c \in planArt.shards[s]}
         /\ CurrentPass(s).by = ran[s]
  BY DEF CurrentPass

LEMMA InitEvidence == Init => EvidenceInv
<1> SUFFICES ASSUME Init PROVE EvidenceInv
  OBVIOUS
<1>1. \A j \in Job : job[j] = "waiting"
  BY DEF Init
<1> QED
  BY <1>1 DEF EvidenceInv, PlanOpens, PrebuildCurrent, ShardCurrent, NewestEvidence,
              Accepted, Job, Phase

(* A step that only ends, skips or reopens jobs, or moves the result job,  *)
(* disturbs none of it, whatever is uploaded for the shards it ends.       *)
LEMMA QuietStep ==
  ASSUME EvidenceInv,
         UNCHANGED <<store, file, planArt, prebuildArt, ran>>,
         \A j \in Job \ {"result"} :
           job'[j] \in {job[j], "waiting", "failure", "cancelled", "skipped"},
         job'["plan"] = "waiting" => \A j \in Job : job'[j] = "waiting",
         \A s \in Shard : job'[s] \in Phase => UNCHANGED attempt,
         \A s \in Shard : job'[s] = "success" => UNCHANGED shardArt[s]
  PROVE  /\ PlanOpens' /\ PrebuildCurrent'
         /\ \A s \in Shard : ShardCurrent(s)'
<1>1. /\ "plan" \in Job \ {"result"} /\ "prebuild" \in Job \ {"result"}
      /\ \A s \in Shard : s \in Job \ {"result"}
  BY JobsDistinct DEF Job
<1>2. PlanOpens'
  BY <1>1 DEF EvidenceInv, PlanOpens, Listed
<1>3. PrebuildCurrent'
  BY <1>1 DEF EvidenceInv, PrebuildCurrent
<1>4. ASSUME NEW s \in Shard PROVE ShardCurrent(s)'
  <2>1. ShardCurrent(s)
    BY DEF EvidenceInv
  <2>2. UNCHANGED CurrentPass(s)
    BY DEF CurrentPass
  <2>3. job'[s] \in Phase => job[s] = job'[s] /\ UNCHANGED attempt
    BY <1>1 DEF Phase
  <2>4. /\ job'[s] = "success" => job[s] = "success" /\ UNCHANGED shardArt[s]
        /\ job'["plan"] = "success" => job["plan"] = "success"
    BY <1>1
  <2>5. job'[s] \in Phase => ran'[s] = attempt'
    BY <2>1, <2>3 DEF ShardCurrent
  <2>6. job'[s] = "built" =>
          file'[s] # None /\ (file'[s].status = "pass" => file'[s] = CurrentPass(s)')
    BY <2>1, <2>2, <2>3 DEF ShardCurrent, Phase
  <2>7. job'["plan"] = "success" /\ job'[s] = "success" =>
          shardArt'[s] # None /\ shardArt'[s] = CurrentPass(s)'
    BY <2>1, <2>2, <2>4 DEF ShardCurrent
  <2> QED
    BY <2>5, <2>6, <2>7 DEF ShardCurrent
<1> QED
  BY <1>2, <1>3, <1>4

LEMMA PlanStepEvidence == IInv /\ EvidenceInv /\ PlanStep => EvidenceInv'
<1> SUFFICES ASSUME IInv, EvidenceInv, PlanStep PROVE EvidenceInv'
  OBVIOUS
<1>1. job["plan"] = "waiting" /\ \A j \in Job : job[j] = "waiting"
  BY DEF PlanStep, PlanFails, PlanSucceeds, EvidenceInv, PlanOpens
<1>2. /\ job'["plan"] \in {"success", "failure"}
      /\ job'["prebuild"] = "waiting" /\ job'["result"] = "waiting"
      /\ \A s \in Shard : job'[s] \in {"waiting", "absent"}
      /\ job'["plan"] = "success" => \A s \in Listed(planArt)' : job'[s] = "waiting"
  <2>1. CASE PlanFails
    BY <1>1, <2>1, JobsDistinct DEF PlanFails, Conclude, IInv, TypeOK, Job
  <2>2. ASSUME NEW p \in Plans, PlanSucceeds(p)
        PROVE  /\ job'["plan"] = "success"
               /\ job'["prebuild"] = "waiting" /\ job'["result"] = "waiting"
               /\ \A s \in Shard : job'[s] \in {"waiting", "absent"}
               /\ \A s \in Listed(planArt)' : job'[s] = "waiting"
    <3>1. /\ planArt' = p
          /\ \A j \in Job : job'[j] = CASE j = "plan" -> "success"
                                        [] j \in Shard \ Listed(p) -> "absent"
                                        [] OTHER -> job[j]
      BY <2>2 DEF PlanSucceeds
    <3>2. /\ {"plan", "prebuild", "result"} \subseteq Job
          /\ "plan" \notin Shard /\ "prebuild" \notin Shard /\ "result" \notin Shard
          /\ \A s \in Shard : s \in Job
      BY JobsDistinct DEF Job
    <3>3. Listed(planArt)' = Listed(p) /\ Listed(p) \subseteq Shard
      BY <3>1 DEF Listed
    <3> QED
      BY <1>1, <3>1, <3>2, <3>3
  <2> QED
    BY <2>1, <2>2 DEF PlanStep
<1>3. PlanOpens'
  BY <1>2 DEF PlanOpens
<1>4. PrebuildCurrent' /\ NewestEvidence'
  BY <1>2 DEF PrebuildCurrent, NewestEvidence, Accepted
<1>5. ASSUME NEW s \in Shard PROVE ShardCurrent(s)'
  BY <1>2 DEF ShardCurrent, Phase
<1> QED
  BY <1>3, <1>4, <1>5 DEF EvidenceInv

LEMMA PrebuildStepEvidence == IInv /\ IInv' /\ EvidenceInv /\ PrebuildStep => EvidenceInv'
<1> SUFFICES ASSUME IInv, IInv', EvidenceInv, PrebuildStep PROVE EvidenceInv'
  OBVIOUS
<1>1. /\ "prebuild" \in Job /\ "plan" \in Job /\ "result" \in Job
      /\ "prebuild" \in Shard \union {"prebuild"}
      /\ \A s \in Shard : s \in Job /\ s # "prebuild"
      /\ job \in [Job -> Status] /\ store \in [Shard \union {"prebuild"} -> SUBSET Target]
  BY JobsDistinct DEF Job, IInv, TypeOK
<1>2. /\ job["prebuild"] \in {"waiting", "restored", "built", "uploaded"}
      /\ job["prebuild"] = "waiting" => job'["prebuild"] = "restored"
      /\ UNCHANGED <<attempt, file, planArt, shardArt, ran>>
      /\ \A j \in Job \ {"prebuild"} : job'[j] = job[j]
  BY <1>1 DEF PrebuildStep, PrebuildRestore, PrebuildBuild, PrebuildUpload,
              PrebuildSave, Conclude, artifacts
<1>3. job["plan"] # "waiting" /\ job'["plan"] = job["plan"]
  <2>1. job["prebuild"] = "waiting" => NeedsSucceeded("prebuild")
    BY DEF PrebuildStep, PrebuildRestore, PrebuildBuild, PrebuildUpload, PrebuildSave
  <2> QED
    BY <1>1, <1>2, <2>1 DEF NeedsSucceeded, Needs, EvidenceInv, PlanOpens
<1>4. job["result"] = "waiting" /\ job'["result"] = "waiting"
  BY <1>1, <1>2 DEF IInv, ResultLast, Concluded
<1>5. NewestEvidence'
  BY <1>4 DEF NewestEvidence, Accepted
<1>6. ASSUME NEW s \in Shard PROVE ShardCurrent(s)'
  <2>1. ShardCurrent(s) /\ job'[s] = job[s]
    BY <1>1, <1>2 DEF EvidenceInv
  <2> QED
    BY <1>2, <1>3, <2>1 DEF ShardCurrent, CurrentPass
<1>7. PrebuildCurrent' /\ job'["prebuild"] # "absent"
  <2>1. CASE PrebuildRestore
    BY <1>1, <2>1 DEF PrebuildRestore, Conclude, PrebuildCurrent
  <2>2. CASE PrebuildBuild
    BY <1>1, <1>2, <2>2 DEF PrebuildBuild, Conclude, PrebuildCurrent
  <2>3. CASE PrebuildUpload
    BY <1>1, <1>2, <2>3 DEF PrebuildUpload, Conclude, PrebuildCurrent, EvidenceInv
  <2>4. CASE PrebuildSave
    BY <1>1, <1>2, <2>4 DEF PrebuildSave, Conclude, PrebuildCurrent, EvidenceInv,
                            artifacts
  <2> QED
    BY <2>1, <2>2, <2>3, <2>4 DEF PrebuildStep
<1>8. PlanOpens'
  BY <1>1, <1>2, <1>3, <1>7 DEF EvidenceInv, PlanOpens, Listed
<1> QED
  BY <1>5, <1>6, <1>7, <1>8 DEF EvidenceInv

LEMMA ShardStepEvidence ==
  ASSUME NEW s \in Shard, IInv, IInv', EvidenceInv, ShardStep(s)
  PROVE  EvidenceInv'
<1>1. /\ s \in Job /\ "plan" \in Job /\ "prebuild" \in Job /\ "result" \in Job
      /\ s # "plan" /\ s # "prebuild" /\ s # "result"
      /\ \A k \in Shard : k \in Job /\ k # "prebuild"
      /\ job \in [Job -> Status] /\ store \in [Shard \union {"prebuild"} -> SUBSET Target]
      /\ "prebuild" \in Shard \union {"prebuild"} /\ s \in Shard \union {"prebuild"}
      /\ file \in [Shard -> Evidence \union {None}]
      /\ shardArt \in [Shard -> Evidence \union {None}]
      /\ ran \in [Shard -> 0 .. MaxAttempt]
  BY JobsDistinct DEF Job, IInv, TypeOK
<1>2. /\ job[s] \in {"waiting", "restored", "checked", "built"}
      /\ job'[s] \in {"restored", "checked", "built", "success", "failure"}
      /\ UNCHANGED <<attempt, planArt, prebuildArt>>
      /\ store'["prebuild"] = store["prebuild"]
      /\ \A j \in Job \ {s} : job'[j] = job[j]
      /\ \A k \in Shard \ {s} : /\ file'[k] = file[k] /\ ran'[k] = ran[k]
                                /\ shardArt'[k] = shardArt[k]
  <2>1. /\ job[s] \in {"waiting", "restored", "checked", "built"}
        /\ \E status \in {"restored", "checked", "built", "success", "failure"} :
             job' = [job EXCEPT ![s] = status]
        /\ UNCHANGED <<attempt, planArt, prebuildArt>>
    BY DEF ShardStep, ShardRestore, RequireLocal, ShardBuild, ShardUpload, Conclude,
           artifacts
  <2>2. store' = store \/ \E outputs \in Restorable : store' = [store EXCEPT ![s] = outputs]
    BY DEF ShardStep, ShardRestore, RequireLocal, ShardBuild, ShardUpload
  <2>3. \A k \in Shard \ {s} : /\ file'[k] = file[k] /\ ran'[k] = ran[k]
                               /\ shardArt'[k] = shardArt[k]
    BY <1>1 DEF ShardStep, ShardRestore, RequireLocal, ShardBuild, ShardUpload, artifacts
  <2> QED
    BY <1>1, <2>1, <2>2, <2>3
<1>3. job["plan"] # "waiting"
  <2>1. job[s] = "waiting" => NeedsSucceeded(s)
    BY DEF ShardStep, ShardRestore, RequireLocal, ShardBuild, ShardUpload
  <2>2. "plan" \in Needs(s)
    BY <1>1 DEF Needs
  <2> QED
    BY <1>1, <1>2, <2>1, <2>2 DEF NeedsSucceeded, EvidenceInv, PlanOpens
<1>4. job["result"] = "waiting" /\ job'["result"] = "waiting"
  BY <1>1, <1>2 DEF IInv, ResultLast, Concluded
<1>5. NewestEvidence'
  BY <1>4 DEF NewestEvidence, Accepted
<1>6. PlanOpens' /\ PrebuildCurrent'
  <2>1. \A k \in Shard : job[k] # "absent" => job'[k] # "absent"
    BY <1>1, <1>2
  <2>2. job'["plan"] = job["plan"] /\ job'["prebuild"] = job["prebuild"]
    BY <1>1, <1>2
  <2>3. PlanOpens'
    BY <1>2, <1>3, <2>1, <2>2 DEF EvidenceInv, PlanOpens, Listed
  <2> QED
    BY <1>2, <2>2, <2>3 DEF EvidenceInv, PrebuildCurrent
<1>7. ASSUME NEW k \in Shard \ {s} PROVE ShardCurrent(k)'
  <2>1. ShardCurrent(k)
    BY DEF EvidenceInv
  <2>2. job'[k] = job[k] /\ job'["plan"] = job["plan"]
    BY <1>1, <1>2
  <2>3. /\ ran'[k] = ran[k] /\ file'[k] = file[k] /\ shardArt'[k] = shardArt[k]
        /\ planArt' = planArt /\ attempt' = attempt
    BY <1>2
  <2> QED
    BY <2>1, <2>2, <2>3 DEF ShardCurrent, CurrentPass
<1>8. ShardCurrent(s)'
  <2>1. CASE ShardRestore(s)
    <3>1. job'[s] = "restored" /\ ran'[s] = attempt
      BY <1>1, <2>1 DEF ShardRestore, Conclude
    <3> QED
      BY <1>2, <3>1 DEF ShardCurrent
  <2>2. CASE RequireLocal(s)
    <3>1. job'[s] \in {"checked", "failure"} /\ ran'[s] = ran[s] /\ job[s] = "restored"
      BY <1>1, <2>2 DEF RequireLocal, Conclude
    <3>2. ran[s] = attempt
      BY <3>1 DEF EvidenceInv, ShardCurrent, Phase
    <3> QED
      BY <1>2, <3>1, <3>2 DEF ShardCurrent
  <2>3. CASE ShardBuild(s)
    <3>1. job'[s] = "built" /\ ran'[s] = ran[s] /\ job[s] = "checked"
      BY <1>1, <2>3 DEF ShardBuild, Conclude
    <3>2. ran[s] = attempt
      BY <3>1 DEF EvidenceInv, ShardCurrent, Phase
    <3>3. file'[s] \in {PassEvidence(s), FailedEvidence}
      BY <1>1, <2>3 DEF ShardBuild
    <3>4. PassEvidence(s) = CurrentPass(s)'
      BY <1>2, <3>1, <3>2 DEF PassEvidence, CurrentPass
    <3>5. PassEvidence(s) \in Evidence /\ FailedEvidence \in Evidence
      <4>1. planArt \in Plans
        BY <1>1, <3>1 DEF IInv, PlanFirst, TypeOK, Phase
      <4> QED
        BY <4>1, EvidenceShape DEF IInv
    <3>6. /\ file'[s] # None
          /\ file'[s].status = "pass" => file'[s] = CurrentPass(s)'
      BY <3>3, <3>4, <3>5, NoneAssumption DEF FailedEvidence
    <3> QED
      BY <1>2, <3>1, <3>2, <3>6 DEF ShardCurrent
  <2>4. CASE ShardUpload(s)
    <3>1. /\ job'[s] \in {"success", "failure"} /\ job[s] = "built"
          /\ UNCHANGED <<ran, file>>
          /\ job'[s] = "success" => file[s].status = "pass" /\ shardArt'[s] = file[s]
      BY <1>1, <2>4 DEF ShardUpload, Conclude
    <3>2. job'[s] = "success" => shardArt'[s] # None /\ shardArt'[s] = CurrentPass(s)
      BY <3>1 DEF EvidenceInv, ShardCurrent
    <3>3. UNCHANGED CurrentPass(s)
      BY <1>2, <3>1 DEF CurrentPass
    <3> QED
      BY <3>1, <3>2, <3>3 DEF ShardCurrent, Phase
  <2> QED
    BY <2>1, <2>2, <2>3, <2>4 DEF ShardStep
<1> QED
  BY <1>5, <1>6, <1>7, <1>8 DEF EvidenceInv

LEMMA ResultStepEvidence == IInv /\ EvidenceInv /\ ResultStep => EvidenceInv'
<1> SUFFICES ASSUME IInv, EvidenceInv, ResultStep PROVE EvidenceInv'
  OBVIOUS
<1>1. /\ UNCHANGED <<attempt, store, file, planArt, prebuildArt, shardArt, ran>>
      /\ \A j \in Job \ {"result"} : job'[j] = job[j]
      /\ job["plan"] # "waiting"
      /\ "result" \in Job /\ "plan" \in Job /\ "plan" # "result"
  <2>1. Needs("result") = Job \ {"result"} /\ "result" \in Job /\ "plan" \in Job
    BY JobsDistinct DEF Job, Needs
  <2> QED
    BY <2>1 DEF ResultStep, ResultPasses, ResultFails, ResultMayStart, NeedsConcluded,
                Conclude, artifacts, Concluded, IInv, TypeOK
<1>2. /\ PlanOpens' /\ PrebuildCurrent'
      /\ \A s \in Shard : ShardCurrent(s)'
  BY <1>1, QuietStep
<1>3. NewestEvidence'
  <2>1. CASE ResultFails
    BY <2>1, <1>1 DEF ResultFails, Conclude, NewestEvidence, Accepted, IInv, TypeOK
  <2>2. CASE ResultPasses
    <3>1. \A s \in Listed(planArt) : shardArt[s] = CurrentPass(s)
      BY <2>2, SucceededCurrent DEF ResultPasses, EvidenceInv
    <3>2. \A s \in Listed(planArt) : shardArt[s].by = ran[s]
      BY <3>1, CurrentPassFields
    <3> QED
      BY <1>1, <3>2 DEF NewestEvidence, Listed
  <2> QED
    BY <2>1, <2>2 DEF ResultStep
<1> QED
  BY <1>2, <1>3 DEF EvidenceInv

LEMMA SkipOrLoseEvidence ==
  ASSUME NEW j \in Job, IInv, EvidenceInv, Skip(j) \/ LoseRunner(j)
  PROVE  EvidenceInv'
<1>1. /\ UNCHANGED <<attempt, store, file, planArt, prebuildArt, shardArt, ran>>
      /\ j # "plan" /\ j # "result" /\ job[j] \in {"waiting"} \union Phase
      /\ \E status \in {"skipped", "failure"} : job' = [job EXCEPT ![j] = status]
  BY DEF Skip, SkippedBy, LoseRunner, NeedsSucceeded, Needs, Conclude, artifacts,
         IInv, PlanFirst, ResultLast, Phase
<1>2. "plan" \in Job /\ "result" \in Job /\ job \in [Job -> Status]
  BY DEF Job, IInv, TypeOK
<1>3. job["plan"] # "waiting"
  BY <1>1, <1>2 DEF EvidenceInv, PlanOpens, Skip, SkippedBy, NeedsConcluded, Needs,
                    LoseRunner, Phase, Concluded
<1>4. job["result"] = "waiting" /\ job'["result"] = "waiting"
  BY <1>1, <1>2 DEF IInv, ResultLast, Concluded, Phase
<1>5. /\ \A k \in Job : job'[k] \in {job[k], "skipped", "failure"}
      /\ job'["plan"] = job["plan"]
  BY <1>1, <1>2
<1>6. /\ PlanOpens' /\ PrebuildCurrent'
      /\ \A s \in Shard : ShardCurrent(s)'
  BY <1>1, <1>3, <1>5, QuietStep
<1> QED
  BY <1>4, <1>6 DEF EvidenceInv, NewestEvidence, Accepted

LEMMA CancelEvidence == IInv /\ EvidenceInv /\ Cancel => EvidenceInv'
<1> SUFFICES ASSUME IInv, EvidenceInv, Cancel PROVE EvidenceInv'
  OBVIOUS
<1>1. /\ UNCHANGED <<attempt, store, file, planArt, prebuildArt, ran>>
      /\ job' = [j \in Job |-> IF j # "result" /\ job[j] \notin Concluded
                                 THEN "cancelled" ELSE job[j]]
      /\ \E j \in Job \ {"result"} : job[j] \notin Concluded
      /\ \E U \in SUBSET {s \in Shard : job[s] \in {"checked", "built"}} :
           shardArt' = [s \in Shard |->
             IF s \notin U THEN shardArt[s]
             ELSE IF job[s] = "built" THEN file[s] ELSE FailedEvidence]
  BY DEF Cancel
<1>2. /\ "plan" \in Job /\ "result" \in Job /\ "plan" # "result"
      /\ \A s \in Shard : s \in Job /\ s # "result"
      /\ shardArt \in [Shard -> Evidence \union {None}]
  BY JobsDistinct DEF Job, IInv, TypeOK
<1>3. /\ \A j \in Job : job'[j] \in {job[j], "cancelled"}
      /\ job'["plan"] # "waiting"
      /\ job["result"] = "waiting" /\ job'["result"] = "waiting"
  BY <1>1, <1>2 DEF Concluded, IInv, ResultLast
<1>4. ASSUME NEW s \in Shard, job'[s] = "success" PROVE UNCHANGED shardArt[s]
  <2>1. job[s] = "success"
    BY <1>2, <1>3, <1>4
  <2> QED
    BY <1>1, <1>2, <2>1
<1>5. /\ PlanOpens' /\ PrebuildCurrent'
      /\ \A s \in Shard : ShardCurrent(s)'
  BY <1>1, <1>3, <1>4, QuietStep
<1> QED
  BY <1>3, <1>5 DEF EvidenceInv, NewestEvidence, Accepted

LEMMA RerunEvidence == IInv /\ IInv' /\ EvidenceInv /\ Rerun => EvidenceInv'
<1> SUFFICES ASSUME IInv, IInv', EvidenceInv, Rerun PROVE EvidenceInv'
  OBVIOUS
<1>1. /\ UNCHANGED <<store, file, planArt, prebuildArt, shardArt, ran>>
      /\ \A j \in Job : job[j] \in Concluded
      /\ "plan" \in Job /\ "result" \in Job /\ \A s \in Shard : s \in Job
  BY DEF Rerun, Ended, artifacts, Job
<1>2. PICK chosen \in {{"plan"}, Unsuccessful} \union
                   {{j} : j \in {k \in Job : job[k] # "absent"}} :
        /\ chosen # {}
        /\ job' = [j \in Job |->
             IF /\ j \in UNION {Dependents(k) : k \in chosen}
                /\ job[j] # "absent" \/ "plan" \in UNION {Dependents(k) : k \in chosen}
               THEN "waiting" ELSE job[j]]
  BY DEF Rerun
<1>3. \A j \in Job : job'[j] \in {"waiting", job[j]}
  BY <1>2
<1>4. ASSUME job'["plan"] = "waiting" PROVE \A j \in Job : job'[j] = "waiting"
  <2>1. "plan" \in UNION {Dependents(k) : k \in chosen}
    BY <1>1, <1>2, <1>4 DEF Concluded
  <2>2. PICK k \in chosen : "plan" \in Dependents(k)
    BY <2>1
  <2>3. k = "plan"
    <3>1. k \in Job
      BY <1>1 DEF Unsuccessful
    <3> QED
      BY <2>2, <3>1, JobsDistinct DEF Dependents, Job
  <2>4. Dependents(k) = Job
    BY <2>3 DEF Dependents
  <2> QED
    BY <1>2, <2>1, <2>2, <2>4
<1>5. \A s \in Shard : job'[s] \notin Phase
  BY <1>1, <1>3 DEF Concluded, Phase
<1>6. job'["result"] = "waiting"
  <2>1. \A k \in chosen : "result" \in Dependents(k)
    BY DEF Dependents, Job
  <2>2. job["result"] # "absent"
    BY DEF IInv, ResultLast
  <2> QED
    BY <1>1, <1>2, <2>1, <2>2
<1>7. /\ PlanOpens' /\ PrebuildCurrent'
      /\ \A s \in Shard : ShardCurrent(s)'
  BY <1>1, <1>3, <1>4, <1>5, QuietStep
<1> QED
  BY <1>6, <1>7 DEF EvidenceInv, NewestEvidence, Accepted

LEMMA UnchangedEvidence ==
  ASSUME EvidenceInv, Evict \/ ForeignSave \/ UNCHANGED vars
  PROVE  EvidenceInv'
<1>1. UNCHANGED <<attempt, job, store, file, planArt, prebuildArt, shardArt, ran>>
  BY DEF Evict, ForeignSave, artifacts, vars
<1> QED
  BY <1>1 DEF EvidenceInv, PlanOpens, PrebuildCurrent, ShardCurrent, CurrentPass,
              NewestEvidence, Accepted, Listed

LEMMA NextEvidence == IInv /\ IInv' /\ EvidenceInv /\ [Next]_vars => EvidenceInv'
<1> SUFFICES ASSUME IInv, IInv', EvidenceInv, [Next]_vars PROVE EvidenceInv'
  OBVIOUS
<1>1. CASE PlanStep
  BY <1>1, PlanStepEvidence
<1>2. CASE PrebuildStep
  BY <1>2, PrebuildStepEvidence
<1>3. ASSUME NEW s \in Shard, ShardStep(s) PROVE EvidenceInv'
  BY <1>3, ShardStepEvidence
<1>4. CASE ResultStep
  BY <1>4, ResultStepEvidence
<1>5. ASSUME NEW j \in Job, Skip(j) \/ LoseRunner(j) PROVE EvidenceInv'
  BY <1>5, SkipOrLoseEvidence
<1>6. CASE Cancel
  BY <1>6, CancelEvidence
<1>7. CASE Rerun
  BY <1>7, RerunEvidence
<1>8. CASE Evict \/ ForeignSave \/ UNCHANGED vars
  BY <1>8, UnchangedEvidence
<1> QED
  BY <1>1, <1>2, <1>3, <1>4, <1>5, <1>6, <1>7, <1>8 DEF Next

LEMMA EvidenceInvariance == Spec => [](IInv /\ EvidenceInv)
<1>1. Init => EvidenceInv
  BY InitEvidence
<1>2. IInv /\ IInv' /\ EvidenceInv /\ [Next]_vars => EvidenceInv'
  BY NextEvidence
<1> QED
  BY <1>1, <1>2, Invariance, PTL DEF Spec

(* A green gate rests on the evidence of each listed shard's last start,   *)
(* however many attempts left evidence of their own under the same names   *)
(* (the status tests of the result job, before verify_command).            *)
THEOREM NewestEvidenceOnly == Spec => []NewestEvidence
<1>1. EvidenceInv => NewestEvidence
  BY DEF EvidenceInv
<1> QED
  BY <1>1, EvidenceInvariance, PTL

(* When every job succeeded and no shard that the plan in force does not   *)
(* list left evidence, verify_command accepts.                             *)
THEOREM NoFalseAlarm == Spec => []NoFalseRed
<1>1. IInv /\ EvidenceInv => NoFalseRed
  <2> SUFFICES ASSUME IInv, EvidenceInv, JobsSucceeded,
                      \A s \in Shard \ Listed(planArt) : shardArt[s] = None
               PROVE  Verify
    BY DEF NoFalseRed
  <2>1. /\ PrebuildMatches
        /\ \A s \in Listed(planArt) : shardArt[s] # None /\ shardArt[s] = CurrentPass(s)
    BY SucceededCurrent DEF EvidenceInv
  <2>2. {s \in Shard : shardArt[s] # None} = Listed(planArt)
    BY <2>1 DEF Listed
  <2> QED
    BY <2>1, <2>2, CurrentPassFields DEF Verify
<1> QED
  BY <1>1, EvidenceInvariance, PTL

(* Only the save of the prebuild job stores an archive as that job         *)
(* succeeds, and the collector before it spares every shared output.       *)
THEOREM CompleteArchive == Spec => ArchiveComplete
<1> DEFINE Archived == job["prebuild"] = "uploaded" /\ job'["prebuild"] = "success"
                       /\ cache' # cache => planArt.targets \subseteq cache'
<1>1. IInv /\ EvidenceInv /\ [Next]_vars => [Archived]_vars
  <2> SUFFICES ASSUME IInv, EvidenceInv, Next, job["prebuild"] = "uploaded",
                      job'["prebuild"] = "success", cache' # cache
               PROVE  planArt.targets \subseteq cache'
    OBVIOUS
  <2>1. CASE PrebuildStep
    <3>1. PrebuildSave
      BY <2>1 DEF PrebuildStep, PrebuildRestore, PrebuildBuild, PrebuildUpload
    <3>2. planArt.targets \subseteq store["prebuild"]
      BY DEF EvidenceInv, PrebuildCurrent
    <3> QED
      BY <3>1, <3>2 DEF PrebuildSave, Rooted
  <2>2. ~PrebuildStep => UNCHANGED cache \/ ForeignSave \/ Evict
    BY DEF Next, PlanStep, PlanSucceeds, PlanFails, ShardStep, ShardRestore,
           RequireLocal, ShardBuild, ShardUpload, ResultStep, ResultPasses, ResultFails,
           Skip, LoseRunner, Cancel, Rerun
  <2>3. ~(ForeignSave \/ Evict)
    BY DEF ForeignSave, Evict
  <2> QED
    BY <2>1, <2>2, <2>3
<1> QED
  BY <1>1, EvidenceInvariance, PTL DEF Spec, ArchiveComplete

-----------------------------------------------------------------------------
(***************************************************************************)
(* Every attempt is decided, apart from the fairness of GitHub: until it   *)
(* has ended some job may go on, and every step of a job brings it on.     *)
(***************************************************************************)

(* What is left of a job in the given state.                               *)
Left(status) ==
  CASE status = "waiting"  -> 5
    [] status = "restored" -> 4
    [] status = "checked"  -> 3
    [] status = "built"    -> 2
    [] status = "uploaded" -> 1
    [] OTHER               -> 0

(* Which steps the prebuild job and the shard jobs do not have.            *)
OwnPhases ==
  job["prebuild"] # "checked" /\ \A s \in Shard : job[s] # "uploaded"

(* The jobs of an attempt only get on, unless a re-run of the ended one    *)
(* starts over; nothing else but the cache can change.                     *)
AttemptShrinks ==
  \/ Ended /\ attempt' = attempt + 1
  \/ UNCHANGED <<attempt, job, artifacts>> /\ cache' # cache
  \/ /\ attempt' = attempt
     /\ \A j \in Job : Left(job'[j]) <= Left(job[j])
     /\ \E j \in Job : Left(job'[j]) < Left(job[j])

LEMMA Lefts ==
  /\ \A status \in Status : Left(status) \in 0 .. 5
  /\ \A status \in Concluded : Left(status) = 0
  /\ \A status \in Phase : Left(status) > 0 /\ Left(status) < 5
  /\ Left("waiting") = 5 /\ Left("restored") = 4 /\ Left("checked") = 3
  /\ Left("built") = 2 /\ Left("uploaded") = 1
BY DEF Left, Status, Phase, Concluded

(* One job moves on.                                                       *)
LEMMA Moves ==
  ASSUME IInv, NEW k \in Job, NEW status \in Status, Conclude(k, status),
         Left(status) < Left(job[k]), UNCHANGED attempt
  PROVE  AttemptShrinks
<1>1. /\ job'[k] = status /\ \A j \in Job \ {k} : job'[j] = job[j]
      /\ \A j \in Job : job[j] \in Status
  BY DEF IInv, TypeOK, Conclude
<1>2. \A j \in Job : Left(job[j]) \in 0 .. 5
  BY <1>1, Lefts
<1>3. Left(status) \in 0 .. 5
  BY Lefts
<1>4. \A j \in Job : Left(job'[j]) <= Left(job[j])
  BY <1>1, <1>2, <1>3
<1> QED
  BY <1>1, <1>4 DEF AttemptShrinks

LEMMA Keeps ==
  ASSUME IInv, OwnPhases, NEW k \in Job, NEW status \in Status, Conclude(k, status),
         status = "checked" => k \in Shard, status = "uploaded" => k = "prebuild"
  PROVE  OwnPhases'
<1>1. /\ job'[k] = status /\ \A j \in Job \ {k} : job'[j] = job[j]
      /\ "prebuild" \in Job /\ "prebuild" \notin Shard /\ Shard \subseteq Job
  BY JobsDistinct DEF IInv, TypeOK, Conclude, Job
<1> QED
  BY <1>1 DEF OwnPhases

LEMMA JobStepShrinks ==
  ASSUME IInv, OwnPhases,
         \/ PlanFails \/ PrebuildStep \/ (\E s \in Shard : ShardStep(s)) \/ ResultStep
         \/ \E j \in Job : Skip(j) \/ LoseRunner(j)
  PROVE  AttemptShrinks /\ OwnPhases'
<1>1. PICK k \in Job, status \in Status :
        /\ Conclude(k, status) /\ UNCHANGED attempt
        /\ Left(status) < Left(job[k])
        /\ status = "checked" => k \in Shard
        /\ status = "uploaded" => k = "prebuild"
  <2>1. /\ {"plan", "prebuild", "result"} \subseteq Job /\ Shard \subseteq Job
        /\ {"success", "failure", "skipped", "restored", "checked", "built", "uploaded"}
             \subseteq Status
        /\ Left("success") = 0 /\ Left("failure") = 0 /\ Left("skipped") = 0
    BY DEF Job, Status, Phase, Concluded, Left
  <2>2. CASE PlanFails
    BY <2>1, <2>2, Lefts DEF PlanFails
  <2>3. CASE PrebuildStep
    <3>1. CASE PrebuildRestore
      BY <2>1, <3>1, Lefts DEF PrebuildRestore
    <3>2. CASE PrebuildBuild
      BY <2>1, <3>2, Lefts DEF PrebuildBuild
    <3>3. CASE PrebuildUpload
      BY <2>1, <3>3, Lefts DEF PrebuildUpload
    <3>4. CASE PrebuildSave
      BY <2>1, <3>4, Lefts DEF PrebuildSave
    <3> QED
      BY <2>3, <3>1, <3>2, <3>3, <3>4 DEF PrebuildStep
  <2>4. ASSUME NEW s \in Shard, ShardStep(s)
        PROVE  \E k \in Job, status \in Status :
                 /\ Conclude(k, status) /\ UNCHANGED attempt
                 /\ Left(status) < Left(job[k])
                 /\ status = "checked" => k \in Shard
                 /\ status = "uploaded" => k = "prebuild"
    <3>1. CASE ShardRestore(s)
      BY <2>1, <3>1, Lefts DEF ShardRestore
    <3>2. CASE RequireLocal(s)
      BY <2>1, <3>2, Lefts DEF RequireLocal
    <3>3. CASE ShardBuild(s)
      BY <2>1, <3>3, Lefts DEF ShardBuild
    <3>4. CASE ShardUpload(s)
      BY <2>1, <3>4, Lefts DEF ShardUpload
    <3> QED
      BY <2>4, <3>1, <3>2, <3>3, <3>4 DEF ShardStep
  <2>5. CASE ResultStep
    BY <2>1, <2>5, Lefts DEF ResultStep, ResultPasses, ResultFails
  <2>6. ASSUME NEW j \in Job, Skip(j)
        PROVE  Conclude(j, "skipped") /\ UNCHANGED attempt /\ job[j] = "waiting"
    BY <2>6 DEF Skip
  <2>7. ASSUME NEW j \in Job, LoseRunner(j)
        PROVE  Conclude(j, "failure") /\ UNCHANGED attempt /\ Left(job[j]) > 0
    BY <2>7, Lefts DEF LoseRunner
  <2> QED
    BY <2>1, <2>2, <2>3, <2>4, <2>5, <2>6, <2>7, Lefts
<1> QED
  BY <1>1, Moves, Keeps

LEMMA AllMove ==
  ASSUME IInv, OwnPhases, \A j \in Job : job'[j] = job[j] \/ job'[j] \in Concluded \union {"waiting"}
  PROVE  OwnPhases'
<1>1. "prebuild" \in Job /\ Shard \subseteq Job
  BY DEF Job
<1> QED
  BY <1>1 DEF OwnPhases, Concluded

LEMMA NextShrinks ==
  ASSUME IInv, OwnPhases, Next
  PROVE  (vars' # vars => AttemptShrinks) /\ OwnPhases'
<1>1. \A j \in Job : job[j] \in Status /\ Left(job[j]) \in 0 .. 5
  BY Lefts DEF IInv, TypeOK
<1>2. ASSUME NEW p \in Plans, PlanSucceeds(p) PROVE AttemptShrinks /\ OwnPhases'
  <2>1. /\ job["plan"] = "waiting" /\ "plan" \in Job /\ attempt' = attempt
        /\ job'["plan"] = "success"
        /\ \A j \in Job : job'[j] = job[j] \/ job'[j] \in {"success", "absent"}
    <3>1. /\ job["plan"] = "waiting" /\ attempt' = attempt
          /\ job' = [j \in Job |-> CASE j = "plan" -> "success"
                                    [] j \in Shard \ Listed(p) -> "absent"
                                    [] OTHER -> job[j]]
      BY <1>2 DEF PlanSucceeds
    <3>2. \A j \in Job : job'[j] = IF j = "plan" THEN "success"
                                   ELSE IF j \in Shard \ Listed(p) THEN "absent"
                                   ELSE job[j]
      BY <3>1, JobsDistinct
    <3> QED
      BY <3>1, <3>2 DEF Job
  <2>2. Left("success") = 0 /\ Left("absent") = 0 /\ Left("waiting") = 5
    BY DEF Left
  <2>3. \A j \in Job : Left(job'[j]) <= Left(job[j])
    BY <1>1, <2>1, <2>2
  <2>4. Left(job'["plan"]) < Left(job["plan"])
    BY <2>1, <2>2
  <2> QED
    BY <2>1, <2>3, <2>4, AllMove DEF AttemptShrinks, Concluded
<1>3. CASE Cancel
  <2>1. /\ attempt' = attempt
        /\ \A j \in Job : job'[j] = job[j] \/ job'[j] = "cancelled"
    BY <1>3 DEF Cancel
  <2>2. PICK k \in Job \ {"result"} : job[k] \notin Concluded
    BY <1>3 DEF Cancel
  <2>3. job'[k] = "cancelled" /\ Left(job[k]) > 0
    BY <1>1, <1>3, <2>2, Lefts DEF Cancel, Status
  <2>4. Left("cancelled") = 0
    BY DEF Left
  <2>5. \A j \in Job : Left(job'[j]) <= Left(job[j])
    BY <1>1, <2>1, <2>4
  <2>6. Left(job'[k]) < Left(job[k])
    BY <2>3, <2>4, <1>1
  <2> QED
    BY <2>1, <2>5, <2>6, AllMove DEF AttemptShrinks, Concluded
<1>4. CASE Evict \/ ForeignSave
  BY <1>4 DEF Evict, ForeignSave, AttemptShrinks, OwnPhases, vars, artifacts
<1>5. CASE Rerun
  <2>1. \A j \in Job : job'[j] = job[j] \/ job'[j] = "waiting"
    BY <1>5 DEF Rerun
  <2> QED
    BY <1>5, <2>1, AllMove DEF Rerun, AttemptShrinks
<1> QED
  BY <1>2, <1>3, <1>4, <1>5, JobStepShrinks DEF Next, PlanStep

LEMMA PhasesInvariance == Spec => [](IInv /\ OwnPhases)
<1>1. Init => OwnPhases
  BY DEF Init, OwnPhases, Job
<1>2. IInv /\ OwnPhases /\ [Next]_vars => OwnPhases'
  BY NextShrinks DEF OwnPhases, vars
<1> QED
  BY <1>1, <1>2, Invariance, PTL DEF Spec

(* No attempt goes on for ever: no job repeats a step, and only the        *)
(* service's cache can change without one (needs and steps of the jobs of  *)
(* flake-checks.yml).                                                      *)
THEOREM AttemptTerminates == Spec => [][AttemptShrinks]_vars
<1>1. IInv /\ OwnPhases /\ [Next]_vars => [AttemptShrinks]_vars
  BY NextShrinks
<1> QED
  BY <1>1, PhasesInvariance, PTL DEF Spec

(* The guards of the steps of a job.  A job that waits for nothing more    *)
(* starts or is skipped; the result job starts in any case.                *)
MayGoOn(j) ==
  \/ job[j] = "waiting" /\ NeedsConcluded(j)
  \/ j = "prebuild" /\ job[j] \in {"restored", "built", "uploaded"}
  \/ j \in Shard /\ job[j] \in {"restored", "checked", "built"}

SomeJobMayGoOn == ~Ended => \E j \in Job : MayGoOn(j)

(* No job waits for ever: whatever failed, was lost, cancelled or run      *)
(* again, some job may go on until the required check has concluded.       *)
THEOREM RunNeverStuck == Spec => []SomeJobMayGoOn
<1>1. IInv /\ OwnPhases => SomeJobMayGoOn
  <2> SUFFICES ASSUME IInv, OwnPhases, \A j \in Job : ~MayGoOn(j) PROVE Ended
    BY DEF SomeJobMayGoOn
  <2>1. /\ {"plan", "prebuild", "result"} \subseteq Job /\ Shard \subseteq Job
        /\ {"plan", "prebuild", "result"} \intersect Shard = {}
        /\ \A j \in Job : job[j] \in {"waiting"} \union Phase \union Concluded
    BY JobsDistinct DEF Job, IInv, TypeOK, Status
  <2>2. job["plan"] \in Concluded
    BY <2>1 DEF MayGoOn, NeedsConcluded, Needs, IInv, PlanFirst
  <2>3. job["prebuild"] \in Concluded
    <3>1. Needs("prebuild") = {"plan"}
      BY DEF Needs
    <3> QED
      BY <2>1, <2>2, <3>1 DEF MayGoOn, NeedsConcluded, OwnPhases, Phase
  <2>4. \A s \in Shard : job[s] \in Concluded
    <3> TAKE s \in Shard
    <3>1. Needs(s) = {"plan", "prebuild"}
      BY <2>1 DEF Needs
    <3> QED
      BY <2>1, <2>2, <2>3, <3>1 DEF MayGoOn, NeedsConcluded, OwnPhases, Phase
  <2>5. job["result"] \in Concluded
    <3>1. Needs("result") = Job \ {"result"}
      BY DEF Needs
    <3>2. \A j \in Job \ {"result"} : job[j] \in Concluded
      BY <2>2, <2>3, <2>4 DEF Job
    <3> QED
      BY <2>1, <3>1, <3>2 DEF MayGoOn, NeedsConcluded, IInv, ResultLast, Concluded
  <2> QED
    BY <2>2, <2>3, <2>4, <2>5 DEF Ended, Job
<1> QED
  BY <1>1, PhasesInvariance, PTL
=============================================================================
