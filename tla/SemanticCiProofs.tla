--------------------------- MODULE SemanticCiProofs ---------------------------
(***************************************************************************)
(* For every set of suites and declarations, any number of attempts and    *)
(* every planner that covers the change: the types of SemanticCi, the      *)
(* order of the suites, the soundness of the required check and that it    *)
(* raises no false alarm; that an attempt is never stuck and cannot go on  *)
(* forever; and that all of this survives the shared cache of SuiteCache.  *)
(***************************************************************************)
EXTENDS SuiteCache, TLAPS

(* Only a valid declaration becomes a workflow, and only a workflow runs.  *)
Rendered ==
  /\ workflow = "rendered" => NeedsValid /\ Acyclic /\ PullRequestJobsValid
  /\ workflow # "rendered" => \A j \in Job : job[j] = "waiting"
  /\ job["impact"] # "running" /\ job["checks"] # "running"

(* The required check is the last job of an attempt.                       *)
GateLast == job["checks"] # "waiting" => \A j \in Job : job[j] \in Concluded

(* A successful planner has answered, and is skipped only where it has     *)
(* nothing to say.                                                         *)
PlannerAnswered ==
  /\ job["impact"] = "success" =>
       selected # Unset /\ touched \cap ImpactConfig \subseteq selected
  /\ job["impact"] = "skipped" => event # "pull" \/ ~decl.prImpact

(* A cancelled attempt goes on in impacted jobs only.                      *)
CancelStops ==
  cancelled => \A j \in Job \ {"checks"} :
                 job[j] \in Concluded \/ (j \in Suite /\ Affected(j))

(* Whatever is above a job that has started or concluded has concluded.    *)
Settled(s) ==
  ~cancelled /\ job[s] # "waiting" => \A n \in Chain(s) : job[n] \in Concluded

(* A skipped suite was skipped for a reason that still holds.              *)
OutOfScope(s) == ~(event = "push" \/ (event = "pull" /\ InPullRequest(s)))

SkippedRightly(s) ==
  job[s] = "skipped" =>
    /\ Ready(s)
    /\ IF Affected(s) THEN ~Runs(s)
       ELSE OutOfScope(s) \/ \E n \in Chain(s) : job[n] \in Concluded \ {"success"}

Ordered == \A s \in Suite : Settled(s) /\ SkippedRightly(s)

IInv ==
  /\ TypeOK /\ Rendered /\ GateLast /\ PlannerAnswered /\ CancelStops
  /\ Ordered /\ StartsAfterNeeds /\ GateSound

-----------------------------------------------------------------------------
(***************************************************************************)
(* The order of the suites: Upstream is the least set closed under needs.  *)
(***************************************************************************)

LEMMA DistinctJobs ==
  /\ "impact" \in Job /\ "checks" \in Job
  /\ "impact" \notin Suite /\ "checks" \notin Suite
  /\ Suite \subseteq Job
BY DeclarationsAssumption DEF Job

LEMMA UpstreamClosed ==
  ASSUME NeedsValid, NEW s \in Suite
  PROVE  /\ Upstream(s) \subseteq Suite
         /\ Needs(s) \subseteq Upstream(s)
         /\ \A t \in Upstream(s) : Needs(t) \subseteq Upstream(s)
         /\ \A t \in Upstream(s) : Upstream(t) \subseteq Upstream(s)
<1>1. Upstream(s) \subseteq Suite
  BY DEF Upstream
<1>2. Needs(s) \subseteq Upstream(s)
  BY DEF Upstream, NeedsValid
<1>3. ASSUME NEW t \in Upstream(s), NEW n \in Needs(t)
      PROVE  n \in Upstream(s)
  BY <1>1, <1>3 DEF Upstream, NeedsValid
<1>4. ASSUME NEW t \in Upstream(s), NEW n \in Upstream(t)
      PROVE  n \in Upstream(s)
  <2>1. Upstream(s) \in SUBSET Suite /\ Needs(t) \subseteq Upstream(s)
    BY <1>1, <1>3
  <2> QED
    BY <1>3, <1>4, <2>1 DEF Upstream
<1> QED
  BY <1>1, <1>2, <1>3, <1>4

LEMMA UpstreamLeast ==
  ASSUME NEW s \in Suite, NEW C \in SUBSET Suite,
         Needs(s) \subseteq C, \A u \in C : Needs(u) \subseteq C
  PROVE  Upstream(s) \subseteq C
BY DEF Upstream

(* The chain above a suite: its own needs and the chains above those.      *)
LEMMA ChainFacts ==
  ASSUME NeedsValid, NEW s \in Suite
  PROVE  /\ Chain(s) \subseteq Suite \union {"impact"}
         /\ Chain(s) \cap Suite = Upstream(s)
         /\ GraphNeeds(s) \subseteq Chain(s)
         /\ \A n \in Upstream(s) : Chain(n) \subseteq Chain(s)
         /\ \A n \in Chain(s) : n \in GraphNeeds(s) \/ \E t \in Needs(s) : n \in Chain(t)
<1>1. /\ Upstream(s) \subseteq Suite /\ Needs(s) \subseteq Upstream(s)
      /\ \A t \in Upstream(s) : Needs(t) \subseteq Upstream(s)
      /\ \A t \in Upstream(s) : Upstream(t) \subseteq Upstream(s)
  BY UpstreamClosed
<1>2. Chain(s) \subseteq Suite \union {"impact"}
  BY <1>1 DEF Chain, GraphNeeds
<1>3. GraphNeeds(s) \subseteq Chain(s)
  BY DEF Chain
<1>4. \A n \in Upstream(s) : Chain(n) \subseteq Chain(s)
  BY <1>1 DEF Chain
<1>5. Upstream(s) \subseteq Needs(s) \union UNION {Upstream(t) : t \in Needs(s)}
  <2> DEFINE C == Needs(s) \union UNION {Upstream(t) : t \in Needs(s)}
  <2>1. Needs(s) \subseteq Suite
    BY DEF NeedsValid
  <2>2. \A t \in Needs(s) : Needs(t) \subseteq Upstream(t) /\ Upstream(t) \subseteq Suite
                            /\ \A u \in Upstream(t) : Needs(u) \subseteq Upstream(t)
    BY <2>1, UpstreamClosed
  <2>3. C \in SUBSET Suite /\ Needs(s) \subseteq C
    BY <2>1, <2>2
  <2>4. \A u \in C : Needs(u) \subseteq C
    BY <2>2
  <2> HIDE DEF C
  <2>5. Upstream(s) \subseteq C
    BY <2>3, <2>4, UpstreamLeast
  <2> QED
    BY <2>5 DEF C
<1>6. Chain(s) \cap Suite = Upstream(s)
  <2>1. Chain(s) \cap Suite \subseteq Upstream(s)
    BY <1>1, DistinctJobs DEF Chain, GraphNeeds
  <2>2. Upstream(s) \subseteq Chain(s)
    <3> SUFFICES ASSUME NEW u \in Upstream(s) PROVE u \in Chain(s)
      OBVIOUS
    <3>1. CASE u \in Needs(s)
      BY <3>1 DEF Chain, GraphNeeds
    <3>2. ASSUME NEW t \in Needs(s), u \in Upstream(t) PROVE u \in Chain(s)
      <4> DEFINE C == {v \in Upstream(s) : v \in Chain(s)}
      <4>1. C \in SUBSET Suite /\ Needs(s) \subseteq C
        BY <1>1 DEF Chain, GraphNeeds
      <4>2. \A v \in C : Needs(v) \subseteq C
        BY <1>1 DEF Chain, GraphNeeds
      <4>3. Upstream(s) \subseteq C
        BY <4>1, <4>2, UpstreamLeast
      <4> QED
        BY <4>3
    <3> QED
      BY <1>5, <3>1, <3>2
  <2> QED
    BY <1>1, <2>1, <2>2
<1>7. \A n \in Chain(s) : n \in GraphNeeds(s) \/ \E t \in Needs(s) : n \in Chain(t)
  BY <1>5 DEF Chain
<1> QED
  BY <1>2, <1>3, <1>4, <1>6, <1>7

(* The declaration decides all of these, and it never changes.             *)
LEMMA DeclKept ==
  ASSUME UNCHANGED decl
  PROVE  /\ NeedsValid' <=> NeedsValid
         /\ Acyclic' <=> Acyclic
         /\ PullRequestJobsValid' <=> PullRequestJobsValid
         /\ ImpactConfig' = ImpactConfig
         /\ \A s : /\ Needs(s)' = Needs(s) /\ GraphNeeds(s)' = GraphNeeds(s)
                   /\ Upstream(s)' = Upstream(s) /\ Chain(s)' = Chain(s)
                   /\ Affected(s)' <=> Affected(s)
                   /\ InPullRequest(s)' <=> InPullRequest(s)
<1>1. \A s : Needs(s)' = Needs(s)
  BY DEF Needs
<1>2. \A s : InPullRequest(s)' <=> InPullRequest(s)
  BY DEF InPullRequest
<1>3. \A s : Affected(s)' <=> Affected(s)
  BY <1>2 DEF Affected
<1>4. \A s : GraphNeeds(s)' = GraphNeeds(s)
  BY <1>1, <1>3 DEF GraphNeeds
<1>5. \A s : Upstream(s)' = Upstream(s)
  BY <1>1 DEF Upstream
<1>6. \A s : Chain(s)' = Chain(s)
  BY <1>4, <1>5 DEF Chain
<1>7. (NeedsValid' <=> NeedsValid) /\ (Acyclic' <=> Acyclic)
  BY <1>1 DEF NeedsValid, Acyclic
<1>8. PullRequestJobsValid' <=> PullRequestJobsValid
  BY <1>1, <1>2 DEF PullRequestJobsValid
<1>9. ImpactConfig' = ImpactConfig
  BY <1>2 DEF ImpactConfig
<1> QED
  BY <1>1, <1>2, <1>3, <1>4, <1>5, <1>6, <1>7, <1>8, <1>9

-----------------------------------------------------------------------------
(***************************************************************************)
(* The inductive invariant.                                                *)
(***************************************************************************)

LEMMA InitIInv == Init => IInv
<1> SUFFICES ASSUME Init PROVE IInv
  OBVIOUS
<1>1. decl.cargo \subseteq Suite /\ touched \subseteq Suite
  BY DeclarationsAssumption DEF Init
<1>2. TypeOK
  <2>1. attempt \in 1 .. MaxAttempt
    BY DeclarationsAssumption DEF Init
  <2>2. job \in [Job -> {"waiting", "running"} \union Concluded]
    BY DEF Init
  <2> QED
    BY <1>1, <2>1, <2>2 DEF Init, TypeOK
<1>3. Rendered /\ GateLast /\ PlannerAnswered /\ CancelStops
  BY DistinctJobs DEF Init, Rendered, GateLast, PlannerAnswered, CancelStops
<1>4. Ordered /\ StartsAfterNeeds /\ GateSound
  BY DistinctJobs DEF Init, Ordered, Settled, SkippedRightly, StartsAfterNeeds, GateSound, Started
<1> QED
  BY <1>2, <1>3, <1>4 DEF IInv

(* A step that keeps what has concluded, and the planner's answer once it  *)
(* was given.                                                              *)
Onward ==
  /\ workflow = "rendered"
  /\ UNCHANGED <<decl, workflow, event, touched>>
  /\ cancelled => cancelled'
  /\ \A j \in Job : job[j] \in Concluded => job'[j] = job[j]
  /\ job["impact"] # "waiting" => UNCHANGED selected

LEMMA ConcludedKept ==
  ASSUME IInv, Onward, NEW s \in Suite
  PROVE  /\ job[s] # "waiting" => Settled(s)'
         /\ job[s] = "skipped" => SkippedRightly(s)'
         /\ job[s] \in Started => \A n \in Needs(s)' : job'[n] = "success"
<1>1. /\ Needs(s)' = Needs(s) /\ GraphNeeds(s)' = GraphNeeds(s) /\ Chain(s)' = Chain(s)
      /\ Affected(s)' <=> Affected(s)
      /\ InPullRequest(s)' <=> InPullRequest(s)
  BY DeclKept DEF Onward
<1>2. /\ Chain(s) \subseteq Job /\ GraphNeeds(s) \subseteq Chain(s)
      /\ Needs(s) \subseteq GraphNeeds(s)
  BY ChainFacts, DistinctJobs DEF IInv, Rendered, Onward, GraphNeeds
<1>3. \A n \in Chain(s) : job[n] \in Concluded => job'[n] = job[n]
  BY <1>2 DEF Onward
<1>4. job[s] # "waiting" => Settled(s)'
  BY <1>1, <1>3 DEF IInv, Ordered, Settled, Onward
<1>5. ASSUME job[s] = "skipped" PROVE SkippedRightly(s)'
  <2>1. /\ Ready(s)
        /\ IF Affected(s) THEN ~Runs(s)
           ELSE OutOfScope(s) \/ \E n \in Chain(s) : job[n] \in Concluded \ {"success"}
    BY <1>5 DEF IInv, Ordered, SkippedRightly
  <2>2. \A n \in GraphNeeds(s) : job[n] \in Concluded /\ job'[n] = job[n]
    BY <2>1, <1>2, <1>3 DEF Ready
  <2>3. Ready(s)'
    BY <2>2, <1>1 DEF Ready
  <2>4. CASE Affected(s)
    <3>1. "impact" \in GraphNeeds(s)
      BY <2>4 DEF GraphNeeds
    <3>2. job'["impact"] = job["impact"] /\ selected' = selected
      BY <3>1, <2>2 DEF Onward, Concluded
    <3>3. BaseReady(s)' <=> BaseReady(s)
      BY <1>1, <1>2, <2>2 DEF BaseReady
    <3>4. ~Runs(s)'
      BY <2>1, <2>4, <1>1, <3>2, <3>3 DEF Runs, Onward
    <3> QED
      BY <2>3, <2>4, <1>1, <3>4 DEF SkippedRightly
  <2>5. CASE ~Affected(s)
    BY <2>1, <2>3, <2>5, <1>1, <1>3 DEF SkippedRightly, OutOfScope, Onward
  <2> QED
    BY <2>4, <2>5
<1>6. job[s] \in Started => \A n \in Needs(s)' : job'[n] = "success"
  BY <1>1, <1>2, <1>3 DEF IInv, StartsAfterNeeds, Concluded
<1> QED
  BY <1>4, <1>5, <1>6

(* A suite that becomes ready has everything above it concluded.           *)
LEMMA ReadySettled ==
  ASSUME IInv, workflow = "rendered", NEW s \in Suite, Ready(s), ~cancelled
  PROVE  \A n \in Chain(s) : job[n] \in Concluded
<1>1. NeedsValid /\ Needs(s) \subseteq Suite /\ Needs(s) \subseteq GraphNeeds(s)
  BY DEF IInv, Rendered, NeedsValid, GraphNeeds
<1>2. \A t \in Needs(s) : \A n \in Chain(t) : job[n] \in Concluded
  BY <1>1 DEF IInv, Ordered, Settled, Ready, Concluded
<1> QED
  BY <1>1, <1>2, ChainFacts DEF Ready

-----------------------------------------------------------------------------
(***************************************************************************)
(* Every step preserves the invariant.                                     *)
(***************************************************************************)

LEMMA EvaluateInv ==
  ASSUME IInv, workflow = "declared", workflow' \in {"rendered", "rejected"},
         workflow' = "rendered" => NeedsValid /\ Acyclic /\ PullRequestJobsValid,
         UNCHANGED <<decl, event, touched, attempt, job, selected, cancelled>>
  PROVE  IInv'
<1>1. \A j \in Job : job'[j] = "waiting"
  BY DEF IInv, Rendered
<1>2. TypeOK'
  BY DeclKept DEF IInv, TypeOK
<1>3. Rendered'
  BY <1>1, DeclKept, DistinctJobs DEF Rendered
<1>4. CancelStops'
  BY DeclKept DEF IInv, CancelStops
<1>5. GateLast' /\ PlannerAnswered' /\ Ordered' /\ StartsAfterNeeds' /\ GateSound'
  BY <1>1, DistinctJobs DEF GateLast, PlannerAnswered, Ordered, Settled, SkippedRightly,
                            StartsAfterNeeds, Started, GateSound
<1> QED
  BY <1>2, <1>3, <1>4, <1>5 DEF IInv

(* The planner concludes.                                                  *)
LEMMA ImpactStepInv == IInv /\ ImpactStep => IInv'
<1> SUFFICES ASSUME IInv, ImpactStep PROVE IInv'
  OBVIOUS
<1>1. PICK status \in {"success", "failure", "skipped"} :
        /\ Conclude("impact", status)
        /\ status = "success" =>
             \E more \in SUBSET ImpactConfig : selected' = more \union (touched \cap ImpactConfig)
        /\ status # "success" => UNCHANGED selected
        /\ status = "skipped" => event # "pull" \/ ~decl.prImpact
        /\ status = "success" => decl.prImpact
  BY DEF ImpactStep, ImpactPlans, ImpactFails, ImpactSkipped
<1>2. /\ workflow = "rendered" /\ job["impact"] = "waiting"
      /\ UNCHANGED <<decl, workflow, event, touched, attempt, cancelled>>
  BY DEF ImpactStep, ImpactPlans, ImpactFails, ImpactSkipped
<1>3. /\ job' \in [Job -> {"waiting", "running"} \union Concluded]
      /\ job'["impact"] = status /\ \A j \in Job \ {"impact"} : job'[j] = job[j]
  BY <1>1, DistinctJobs DEF Conclude, IInv, TypeOK, Concluded
<1>4. Onward
  BY <1>2, <1>3 DEF Onward, Concluded
<1>5. job["checks"] = "waiting" /\ job'["checks"] = "waiting"
  BY <1>2, <1>3, DistinctJobs DEF IInv, GateLast, Concluded
<1>6. selected' = Unset \/ \A s \in selected' : s \in Suite /\ Affected(s)'
  BY <1>1, <1>2, DeclKept, DeclarationsAssumption DEF IInv, TypeOK, ImpactConfig, Affected
<1>7. TypeOK'
  BY <1>2, <1>3, <1>6 DEF IInv, TypeOK
<1>8. Rendered' /\ GateLast'
  BY <1>2, <1>3, <1>5, DeclKept, DistinctJobs DEF IInv, Rendered, GateLast
<1>9. PlannerAnswered'
  <2>1. ImpactConfig \in SUBSET Suite
    BY DeclarationsAssumption DEF ImpactConfig, IInv, TypeOK
  <2>2. status = "success" => selected' \in SUBSET Suite /\ touched \cap ImpactConfig \subseteq selected'
    BY <1>1, <2>1
  <2> QED
    BY <1>1, <1>2, <1>3, <2>2, DeclKept, DeclarationsAssumption DEF PlannerAnswered
<1>10. CancelStops'
  BY <1>2, <1>3, DeclKept DEF IInv, CancelStops, Concluded
<1>11. \A s \in Suite : job'[s] = job[s]
  BY <1>3, DistinctJobs
<1>12. Ordered'
  <2> SUFFICES ASSUME NEW s \in Suite PROVE Settled(s)' /\ SkippedRightly(s)'
    BY DEF Ordered
  <2> QED
    BY <1>4, <1>11, ConcludedKept DEF Settled, SkippedRightly
<1>13. StartsAfterNeeds'
  BY <1>4, <1>11, ConcludedKept DEF StartsAfterNeeds
<1>14. GateSound'
  BY <1>5 DEF GateSound
<1> QED
  BY <1>7, <1>8, <1>9, <1>10, <1>12, <1>13, <1>14 DEF IInv

(* A suite takes a step: it starts, is skipped or ends.                    *)
LEMMA SuiteMoves ==
  ASSUME IInv, workflow = "rendered", NEW s \in Suite,
         NEW status \in {"running", "success", "failure", "skipped"},
         job[s] \notin Concluded, Conclude(s, status),
         UNCHANGED <<decl, workflow, event, touched, attempt, selected, cancelled>>,
         Settled(s)', SkippedRightly(s)',
         status \in Started => \A n \in Needs(s) : job[n] = "success"
  PROVE  IInv'
<1>1. /\ job' \in [Job -> {"waiting", "running"} \union Concluded]
      /\ job'[s] = status /\ \A j \in Job \ {s} : job'[j] = job[j]
  BY DistinctJobs DEF Conclude, IInv, TypeOK, Concluded
<1>2. Onward
  BY <1>1 DEF Onward
<1>3. s # "impact" /\ s # "checks" /\ s \in Job
  BY DistinctJobs
<1>4. job["checks"] = "waiting" /\ job'["checks"] = "waiting"
  BY <1>1, <1>3, DistinctJobs DEF IInv, GateLast
<1>5. TypeOK'
  BY <1>1, DeclKept DEF IInv, TypeOK
<1>6. Rendered' /\ GateLast' /\ PlannerAnswered'
  BY <1>1, <1>3, <1>4, DeclKept, DistinctJobs DEF IInv, Rendered, GateLast, PlannerAnswered
<1>7. CancelStops'
  BY <1>1, <1>3, DeclKept DEF IInv, CancelStops
<1>8. Ordered'
  <2> SUFFICES ASSUME NEW t \in Suite, t # s PROVE Settled(t)' /\ SkippedRightly(t)'
    BY DEF Ordered
  <2>1. job'[t] = job[t]
    BY <1>1, DistinctJobs
  <2> QED
    BY <1>2, <2>1, ConcludedKept DEF Settled, SkippedRightly
<1>9. StartsAfterNeeds'
  <2> SUFFICES ASSUME NEW t \in Suite, job'[t] \in Started, NEW n \in Needs(t)'
               PROVE  job'[n] = "success"
    BY DEF StartsAfterNeeds
  <2>1. CASE t = s
    <3>1. n \in Needs(s) /\ n \in Job
      BY <2>1, DeclKept, DistinctJobs DEF IInv, Rendered, NeedsValid
    <3>2. job[n] = "success"
      BY <1>1, <2>1, <3>1
    <3> QED
      BY <1>1, <3>1, <3>2 DEF Concluded
  <2>2. CASE t # s
    <3>1. job[t] \in Started
      BY <1>1, <2>2, DistinctJobs
    <3> QED
      BY <1>2, <3>1, ConcludedKept
  <2> QED
    BY <2>1, <2>2
<1>10. GateSound'
  BY <1>4 DEF GateSound
<1> QED
  BY <1>5, <1>6, <1>7, <1>8, <1>9, <1>10 DEF IInv

LEMMA SuiteStepInv ==
  ASSUME NEW s \in Suite
  PROVE  IInv /\ SuiteStep(s) => IInv'
<1> SUFFICES ASSUME IInv, SuiteStep(s) PROVE IInv'
  OBVIOUS
<1>1. workflow = "rendered"
  BY DistinctJobs DEF IInv, Rendered, SuiteStep, SuiteStarts, SuiteSkipped, SuiteEnds
<1>2. UNCHANGED <<decl, workflow, event, touched, attempt, selected, cancelled>>
  BY DEF SuiteStep, SuiteStarts, SuiteSkipped, SuiteEnds
<1>3. /\ Needs(s)' = Needs(s) /\ GraphNeeds(s)' = GraphNeeds(s) /\ Chain(s)' = Chain(s)
      /\ Affected(s)' <=> Affected(s)
      /\ InPullRequest(s)' <=> InPullRequest(s)
  BY <1>2, DeclKept
<1>4. /\ Chain(s) \subseteq Job /\ GraphNeeds(s) \subseteq Chain(s)
      /\ Needs(s) \subseteq GraphNeeds(s)
  BY <1>1, ChainFacts, DistinctJobs DEF IInv, Rendered, GraphNeeds
<1>5. ASSUME NEW status, Conclude(s, status), job[s] \notin Concluded
      PROVE  /\ \A j \in Job : job[j] \in Concluded => job'[j] = job[j]
             /\ job'[s] = status
  BY <1>5, DistinctJobs DEF Conclude, IInv, TypeOK
<1>6. ASSUME Ready(s), job[s] \notin Concluded, NEW status, Conclude(s, status)
      PROVE  Settled(s)' /\ Ready(s)' /\ \A n \in GraphNeeds(s) : job'[n] = job[n]
  BY <1>1, <1>2, <1>3, <1>4, <1>5, <1>6, ReadySettled DEF Settled, Ready
<1>7. CASE SuiteStarts(s)
  <2>1. Conclude(s, "running") /\ job[s] \notin Concluded /\ Ready(s) /\ Runs(s)
    BY <1>7 DEF SuiteStarts, Concluded
  <2>2. \A n \in Needs(s) : job[n] = "success"
    BY <2>1, <1>4 DEF Runs, BaseReady, ImplicitSuccess
  <2>3. SkippedRightly(s)'
    BY <2>1, <1>5 DEF SkippedRightly
  <2> QED
    BY <1>1, <1>2, <1>6, <2>1, <2>2, <2>3, SuiteMoves
<1>8. CASE SuiteSkipped(s)
  <2>1. Conclude(s, "skipped") /\ job[s] = "waiting" /\ Ready(s) /\ ~Runs(s)
    BY <1>8 DEF SuiteSkipped
  <2>2. /\ job[s] \notin Concluded /\ Settled(s)' /\ Ready(s)'
        /\ \A n \in GraphNeeds(s) : job'[n] = job[n]
    BY <2>1, <1>6 DEF Concluded
  <2>3. CASE Affected(s)
    <3>1. job'["impact"] = job["impact"]
      BY <2>2, <2>3 DEF GraphNeeds
    <3>2. BaseReady(s)' <=> BaseReady(s)
      BY <1>3, <1>4, <2>2 DEF BaseReady
    <3>3. ~Runs(s)'
      BY <2>1, <2>3, <1>2, <1>3, <3>1, <3>2 DEF Runs
    <3> QED
      BY <1>1, <1>2, <1>3, <2>1, <2>2, <2>3, <3>3, SuiteMoves DEF SkippedRightly, Started
  <2>4. CASE ~Affected(s)
    <3>1. ~cancelled
      BY <2>1, <2>4, DistinctJobs DEF IInv, CancelStops, Concluded
    <3>2. \A n \in Chain(s) : job[n] \in Concluded
      BY <1>1, <2>1, <3>1, ReadySettled
    <3>3. OutOfScope(s) \/ \E n \in Chain(s) : job[n] # "success"
      BY <2>1, <2>4, <3>1 DEF Runs, ImplicitSuccess, OutOfScope
    <3>4. OutOfScope(s)' \/ \E n \in Chain(s)' : job'[n] \in Concluded \ {"success"}
      BY <1>2, <1>3, <1>4, <1>5, <2>1, <2>2, <3>2, <3>3 DEF OutOfScope
    <3>5. SkippedRightly(s)'
      BY <1>3, <2>2, <2>4, <3>4 DEF SkippedRightly
    <3> QED
      BY <1>1, <1>2, <2>1, <2>2, <3>5, SuiteMoves DEF Started
  <2> QED
    BY <2>3, <2>4
<1>9. CASE SuiteEnds(s)
  <2>1. PICK status \in {"success", "failure"} : Conclude(s, status)
    BY <1>9 DEF SuiteEnds
  <2>2. job[s] \notin Concluded /\ job[s] = "running"
    BY <1>9 DEF SuiteEnds, Concluded
  <2>3. Onward
    BY <1>1, <1>2, <1>5, <2>1, <2>2 DEF Onward
  <2>4. Settled(s)'
    BY <2>2, <2>3, ConcludedKept
  <2>5. SkippedRightly(s)'
    BY <1>5, <2>1, <2>2 DEF SkippedRightly
  <2>6. \A n \in Needs(s) : job[n] = "success"
    BY <2>2 DEF IInv, StartsAfterNeeds, Started
  <2> QED
    BY <1>1, <1>2, <2>1, <2>2, <2>4, <2>5, <2>6, SuiteMoves
<1> QED
  BY <1>7, <1>8, <1>9 DEF SuiteStep

(* The required check accepts only what it stands for.                     *)
LEMMA GateTestSound ==
  ASSUME IInv, GateMayRun, GateTest
  PROVE  \A s \in Suite : Required(s) => job[s] = "success"
<1> SUFFICES ASSUME NEW s \in Suite, Required(s), job[s] # "success" PROVE FALSE
  OBVIOUS
<1>1. SkipAccepted(s)
  BY DEF GateTest
<1>2. event = "pull" /\ InPullRequest(s) /\ (Affected(s) => s \in touched)
  BY <1>1 DEF SkipAccepted, Required
<1>3. Affected(s) /\ job["impact"] = "success" /\ s \notin selected
  BY <1>1, <1>2 DEF SkipAccepted
<1>4. s \in touched \cap ImpactConfig
  BY <1>2, <1>3 DEF Affected, ImpactConfig
<1> QED
  BY <1>3, <1>4 DEF IInv, PlannerAnswered

LEMMA GateStepInv == IInv /\ GateStep => IInv'
<1> SUFFICES ASSUME IInv, GateStep PROVE IInv'
  OBVIOUS
<1>1. PICK status \in {"success", "failure", "skipped"} :
        Conclude("checks", status) /\ (status = "success" => GateTest)
  BY DEF GateStep, GateRuns, GateLost, GateSkipped
<1>2. /\ GateMayRun
      /\ UNCHANGED <<decl, workflow, event, touched, attempt, selected, cancelled>>
  BY DEF GateStep, GateRuns, GateLost, GateSkipped
<1>3. /\ job' \in [Job -> {"waiting", "running"} \union Concluded]
      /\ job'["checks"] = status /\ \A j \in Job \ {"checks"} : job'[j] = job[j]
  BY <1>1, DistinctJobs DEF Conclude, IInv, TypeOK, Concluded
<1>4. Onward
  BY <1>2, <1>3 DEF Onward, GateMayRun, Concluded
<1>5. \A s \in Suite : job'[s] = job[s]
  BY <1>3, DistinctJobs
<1>6. TypeOK'
  BY <1>2, <1>3, DeclKept DEF IInv, TypeOK
<1>7. Rendered' /\ PlannerAnswered'
  BY <1>2, <1>3, DeclKept, DistinctJobs DEF IInv, Rendered, PlannerAnswered, GateMayRun
<1>8. GateLast'
  BY <1>2, <1>3 DEF GateLast, GateMayRun, Concluded
<1>9. CancelStops'
  BY <1>2, <1>3, DeclKept DEF IInv, CancelStops
<1>10. Ordered' /\ StartsAfterNeeds'
  BY <1>4, <1>5, ConcludedKept DEF Ordered, Settled, SkippedRightly, StartsAfterNeeds
<1>11. GateSound'
  <2> SUFFICES ASSUME job'["checks"] = "success", NEW s \in Suite, Required(s)'
               PROVE  job'[s] = "success"
    BY DEF GateSound
  <2>1. GateTest
    BY <1>1, <1>3
  <2>2. Required(s)
    BY <1>2, DeclKept DEF Required
  <2> QED
    BY <1>2, <1>5, <2>1, <2>2, GateTestSound
<1> QED
  BY <1>6, <1>7, <1>8, <1>9, <1>10, <1>11 DEF IInv

(* Cancellation concludes jobs in no order, and leaves the impacted ones.  *)
LEMMA CancelInv == IInv /\ Cancel => IInv'
<1> SUFFICES ASSUME IInv, Cancel PROVE IInv'
  OBVIOUS
<1>1. /\ workflow = "rendered" /\ cancelled' = TRUE
      /\ UNCHANGED <<decl, workflow, event, touched, attempt, selected>>
      /\ \E j \in Job \ {"checks"} : job[j] \notin Concluded
  BY DEF Cancel
<1>2. /\ job' \in [Job -> {"waiting", "running"} \union Concluded]
      /\ \A j \in Job : job'[j] = IF job[j] \in Concluded \/ j = "checks"
                                     \/ (j \in Suite /\ Affected(j))
                                   THEN job[j] ELSE "cancelled"
  BY DEF Cancel, IInv, TypeOK, Concluded
<1>3. Onward
  BY <1>1, <1>2 DEF Onward
<1>4. \A j \in Job : job'[j] = job[j] \/ job'[j] = "cancelled"
  BY <1>2
<1>5. TypeOK'
  BY <1>1, <1>2, DeclKept DEF IInv, TypeOK
<1>6. Rendered' /\ PlannerAnswered'
  BY <1>1, <1>2, <1>4, DeclKept, DistinctJobs DEF IInv, Rendered, PlannerAnswered
<1>7. job["checks"] = "waiting" /\ job'["checks"] = "waiting"
  BY <1>1, <1>2, DistinctJobs DEF IInv, GateLast
<1>8. CancelStops'
  BY <1>1, <1>2, DeclKept DEF CancelStops, Concluded
<1>9. \A s \in Suite : job'[s] # "cancelled" => job'[s] = job[s]
  BY <1>4, DistinctJobs
<1>10. Ordered'
  BY <1>1, <1>3, <1>9, ConcludedKept DEF Ordered, Settled, SkippedRightly
<1>11. StartsAfterNeeds'
  BY <1>3, <1>9, ConcludedKept DEF StartsAfterNeeds, Started
<1> QED
  BY <1>5, <1>6, <1>7, <1>8, <1>10, <1>11 DEF IInv, GateLast, GateSound

(* A job that is not run again has nothing above it that is.               *)
LEMMA RerunClosed ==
  ASSUME IInv, workflow = "rendered", NEW chosen \in SUBSET Job, NEW s \in Suite,
         s \notin UNION {Dependents(j) : j \in chosen}
  PROVE  \A n \in Chain(s) : n \notin UNION {Dependents(j) : j \in chosen}
<1> SUFFICES ASSUME NEW n \in Chain(s), NEW j \in chosen, n \in Dependents(j)
             PROVE  FALSE
  OBVIOUS
<1>1. /\ Chain(s) \subseteq Suite \union {"impact"} /\ Chain(s) \cap Suite = Upstream(s)
      /\ \A u \in Upstream(s) : Chain(u) \subseteq Chain(s) /\ Upstream(u) \subseteq Upstream(s)
  BY ChainFacts, UpstreamClosed DEF IInv, Rendered
<1>2. j \notin Upstream(s) \union Chain(s)
  BY DEF Dependents
<1>3. n # j /\ n # "checks"
  BY <1>1, <1>2, DistinctJobs
<1>4. n \in Suite /\ j \in Upstream(n) \union Chain(n)
  BY <1>3 DEF Dependents
<1> QED
  BY <1>1, <1>2, <1>4

LEMMA RerunInv == IInv /\ Rerun => IInv'
<1> SUFFICES ASSUME IInv, Rerun PROVE IInv'
  OBVIOUS
<1>1. /\ UNCHANGED <<decl, workflow, event, touched, selected>>
      /\ cancelled' = FALSE /\ attempt' = attempt + 1 /\ attempt < MaxAttempt
      /\ job["checks"] \in Concluded
  BY DEF Rerun
<1>2. workflow = "rendered" /\ \A j \in Job : job[j] \in Concluded
  BY <1>1, DistinctJobs DEF IInv, Rendered, GateLast, Concluded
<1>3. PICK chosen \in SUBSET Job :
        /\ chosen # {}
        /\ job' = [j \in Job |-> IF j \in UNION {Dependents(i) : i \in chosen}
                                   THEN "waiting" ELSE job[j]]
  <2>1. PICK chosen \in {Job, Unsuccessful} \union {{j} : j \in Job \ {"impact"}}
                        \union {{"impact"} : i \in {decl.prImpact} \ {FALSE}} :
          LET again == UNION {Dependents(j) : j \in chosen}
          IN  /\ chosen # {}
              /\ job' = [j \in Job |-> IF j \in again THEN "waiting" ELSE job[j]]
    BY DEF Rerun
  <2>2. Unsuccessful \subseteq Job /\ "impact" \in Job
    BY DistinctJobs DEF Unsuccessful
  <2>3. chosen \in SUBSET Job
    BY <2>2
  <2> QED
    BY <2>1, <2>3
<1> DEFINE again == UNION {Dependents(i) : i \in chosen}
<1>4. /\ job' \in [Job -> {"waiting", "running"} \union Concluded]
      /\ \A j \in Job : job'[j] = IF j \in again THEN "waiting" ELSE job[j]
  BY <1>3 DEF IInv, TypeOK
<1>5. "checks" \in again
  BY <1>3 DEF Dependents
<1>6. \A s \in Suite : s \notin again => \A n \in Chain(s) : n \notin again
  BY <1>2, RerunClosed
<1> HIDE DEF again
<1>7. TypeOK'
  <2>1. attempt' \in 1 .. MaxAttempt
    BY <1>1, DeclarationsAssumption DEF IInv, TypeOK
  <2> QED
    BY <1>1, <1>4, <2>1, DeclKept DEF IInv, TypeOK
<1>8. Rendered' /\ PlannerAnswered'
  BY <1>1, <1>2, <1>4, DeclKept, DistinctJobs DEF IInv, Rendered, PlannerAnswered
<1>9. job'["checks"] = "waiting" /\ CancelStops'
  BY <1>1, <1>4, <1>5, DistinctJobs DEF CancelStops
<1>10. ASSUME NEW s \in Suite, job'[s] # "waiting"
       PROVE  /\ job'[s] = job[s] /\ \A n \in Chain(s) : n \in Job /\ job'[n] = job[n]
              /\ GraphNeeds(s) \subseteq Chain(s) /\ Needs(s) \subseteq GraphNeeds(s)
              /\ Chain(s)' = Chain(s) /\ GraphNeeds(s)' = GraphNeeds(s) /\ Needs(s)' = Needs(s)
  <2>1. s \notin again /\ job'[s] = job[s]
    BY <1>4, <1>10, DistinctJobs
  <2>2. Chain(s) \subseteq Job /\ GraphNeeds(s) \subseteq Chain(s)
    BY <1>2, ChainFacts, DistinctJobs DEF IInv, Rendered
  <2>3. \A n \in Chain(s) : job'[n] = job[n]
    BY <1>4, <1>6, <2>1, <2>2
  <2>4. Needs(s) \subseteq GraphNeeds(s)
    BY DEF GraphNeeds
  <2> QED
    BY <1>1, <2>1, <2>2, <2>3, <2>4, DeclKept
<1>11. ASSUME NEW s \in Suite PROVE Settled(s)' /\ SkippedRightly(s)'
  <2>1. Settled(s)'
    BY <1>2, <1>10 DEF Settled
  <2>2. ASSUME job'[s] = "skipped" PROVE SkippedRightly(s)'
    <3>1. job[s] = "skipped" /\ SkippedRightly(s)
      BY <1>10, <2>2 DEF IInv, Ordered
    <3>2. /\ \A n \in Chain(s) : job'[n] = job[n]
          /\ GraphNeeds(s) \subseteq Chain(s) /\ Needs(s) \subseteq GraphNeeds(s)
          /\ Chain(s)' = Chain(s) /\ GraphNeeds(s)' = GraphNeeds(s) /\ Needs(s)' = Needs(s)
      BY <1>10, <2>2
    <3>3. /\ Affected(s)' <=> Affected(s)
          /\ InPullRequest(s)' <=> InPullRequest(s)
      BY <1>1, DeclKept
    <3>4. Ready(s)'
      BY <3>1, <3>2 DEF SkippedRightly, Ready
    <3>5. CASE Affected(s)
      <4>1. job'["impact"] = job["impact"]
        BY <3>2, <3>5 DEF GraphNeeds
      <4>2. BaseReady(s)' <=> BaseReady(s)
        BY <3>2 DEF BaseReady
      <4>3. ~Runs(s)'
        BY <1>1, <3>1, <3>3, <3>5, <4>1, <4>2 DEF SkippedRightly, Runs
      <4> QED
        BY <3>3, <3>4, <3>5, <4>3 DEF SkippedRightly
    <3>6. CASE ~Affected(s)
      BY <1>1, <3>1, <3>2, <3>3, <3>4, <3>6 DEF SkippedRightly, OutOfScope
    <3> QED
      BY <3>5, <3>6
  <2> QED
    BY <2>1, <2>2 DEF SkippedRightly
<1>12. StartsAfterNeeds'
  <2> SUFFICES ASSUME NEW s \in Suite, job'[s] \in Started, NEW n \in Needs(s)'
               PROVE  job'[n] = "success"
    BY DEF StartsAfterNeeds
  <2> QED
    BY <1>10 DEF IInv, StartsAfterNeeds, Started
<1> QED
  BY <1>7, <1>8, <1>9, <1>11, <1>12 DEF IInv, GateLast, Ordered, GateSound

LEMMA NextInv == IInv /\ [Next]_vars => IInv'
<1> SUFFICES ASSUME IInv, [Next]_vars PROVE IInv'
  OBVIOUS
<1>1. CASE Evaluate
  BY <1>1, EvaluateInv DEF Evaluate
<1>2. CASE UNCHANGED vars
  <2>1. /\ UNCHANGED <<decl, workflow, event, touched, attempt, job, selected, cancelled>>
    BY <1>2 DEF vars
  <2>2. TypeOK' /\ Rendered' /\ GateLast' /\ PlannerAnswered' /\ CancelStops'
    BY <2>1, DeclKept DEF IInv, TypeOK, Rendered, GateLast, PlannerAnswered, CancelStops
  <2>3. Ordered'
    <3>1. \A s : /\ Ready(s)' <=> Ready(s)
                 /\ Runs(s)' <=> Runs(s)
                 /\ OutOfScope(s)' <=> OutOfScope(s)
      BY <2>1, DeclKept DEF Ready, Runs, BaseReady, ImplicitSuccess, OutOfScope
    <3> QED
      BY <2>1, <3>1, DeclKept DEF IInv, Ordered, Settled, SkippedRightly
  <2>4. StartsAfterNeeds' /\ GateSound'
    BY <2>1, DeclKept DEF IInv, StartsAfterNeeds, GateSound, Required
  <2> QED
    BY <2>2, <2>3, <2>4 DEF IInv
<1> QED
  BY <1>1, <1>2, ImpactStepInv, SuiteStepInv, GateStepInv, CancelInv, RerunInv DEF Next

-----------------------------------------------------------------------------
(***************************************************************************)
(* The required check raises no false alarm.  Of all skipped suites that   *)
(* nothing excuses, one needs none of the others (acyclic); but everything *)
(* above it has then succeeded, and it would not have been skipped.        *)
(***************************************************************************)

LEMMA NoAlarm == IInv => NoFalseRed
<1> SUFFICES ASSUME IInv, GateMayRun, event # "draft", ~Blocked,
                    \A j \in Job : job[j] \notin {"failure", "cancelled"}
             PROVE  GateTest
  BY DEF NoFalseRed
<1>1. /\ workflow = "rendered" /\ NeedsValid /\ Acyclic /\ PullRequestJobsValid
      /\ \A s \in Suite : job[s] \in {"success", "skipped"}
      /\ event \in {"push", "pull"}
  BY DistinctJobs, DeclarationsAssumption DEF GateMayRun, IInv, Rendered, TypeOK, Concluded
<1>2. event = "pull" /\ decl.prImpact => job["impact"] = "success"
  BY DistinctJobs DEF GateMayRun, IInv, PlannerAnswered, Concluded
<1> DEFINE Excused(s) == SkipAccepted(s)
           C == {s \in Suite : job[s] = "skipped" /\ ~Excused(s)}
<1>3. SUFFICES ASSUME C # {} PROVE FALSE
  <2>1. \A s \in Suite : job[s] = "success" \/ SkipAccepted(s)
    BY <1>1, <1>3
  <2> QED
    BY <1>2, <2>1 DEF GateTest
<1>4. PICK s \in C : Needs(s) \cap C = {}
  BY <1>1, <1>3 DEF Acyclic
<1>5. /\ s \in Suite /\ job[s] = "skipped" /\ ~SkipAccepted(s)
      /\ Needs(s) \subseteq Suite
  BY <1>1, <1>4 DEF NeedsValid
<1>6. event = "pull" => InPullRequest(s) /\ (Affected(s) => s \in selected)
  BY <1>2, <1>5 DEF SkipAccepted, Affected
<1>7. ASSUME NEW n \in Needs(s) PROVE job[n] = "success"
  <2>1. n \in Suite /\ (job[n] = "success" \/ SkipAccepted(n))
    BY <1>1, <1>4, <1>5
  <2>2. ASSUME SkipAccepted(n) PROVE FALSE
    <3>1. event = "pull" /\ InPullRequest(n)
      BY <1>1, <1>5, <1>6, <2>1, <2>2 DEF SkipAccepted, PullRequestJobsValid
    <3>2. Affected(n) /\ job["impact"] = "success" /\ n \notin selected
      BY <2>2, <3>1 DEF SkipAccepted
    <3>3. selected # Unset /\ n \in Upstream(s)
      BY <1>1, <1>5, <3>2, UpstreamClosed DEF IInv, PlannerAnswered
    <3> QED
      BY <1>5, <3>1, <3>2, <3>3 DEF Blocked
  <2> QED
    BY <2>1, <2>2
<1>8. \A t \in Upstream(s) : t \in Suite /\ job[t] = "success"
  <2> DEFINE U == {t \in Suite : job[t] = "success"}
  <2>1. U \in SUBSET Suite /\ Needs(s) \subseteq U
    BY <1>5, <1>7
  <2>2. \A t \in U : Needs(t) \subseteq U
    BY <1>1 DEF IInv, StartsAfterNeeds, Started, NeedsValid
  <2> HIDE DEF U
  <2>3. Upstream(s) \subseteq U
    BY <1>5, <2>1, <2>2, UpstreamLeast
  <2> QED
    BY <2>3 DEF U
<1>9. ~OutOfScope(s)
  BY <1>1, <1>6 DEF OutOfScope
<1>10. CASE Affected(s)
  <2>1. ~Runs(s)
    BY <1>5, <1>10 DEF IInv, Ordered, SkippedRightly
  <2>2. BaseReady(s)
    BY <1>7 DEF BaseReady
  <2>3. event = "pull" => job["impact"] = "success" /\ s \in selected
    BY <1>2, <1>6, <1>10 DEF Affected
  <2> QED
    BY <1>1, <1>10, <2>1, <2>2, <2>3 DEF Runs
<1>11. CASE ~Affected(s)
  <2>1. PICK n \in Chain(s) : job[n] # "success"
    BY <1>5, <1>9, <1>11 DEF IInv, Ordered, SkippedRightly
  <2>2. n = "impact"
    BY <1>1, <1>5, <1>8, <2>1, ChainFacts
  <2>3. PICK t \in Upstream(s) \union {s} : n \in GraphNeeds(t)
    BY <2>1 DEF Chain
  <2>4. t \in Suite
    BY <1>5, <1>8, <2>3
  <2>5. Affected(t)
    BY <1>1, <2>2, <2>3, <2>4, DistinctJobs DEF GraphNeeds, NeedsValid
  <2>6. t \in Upstream(s) /\ event = "push"
    BY <1>1, <1>2, <1>11, <2>1, <2>2, <2>3, <2>5 DEF Affected
  <2> QED
    BY <1>5, <1>11, <2>5, <2>6 DEF Blocked
<1> QED
  BY <1>10, <1>11

-----------------------------------------------------------------------------
(***************************************************************************)
(* The theorems about one run of a generated workflow.                     *)
(***************************************************************************)

(* Every reachable state satisfies the inductive invariant.                *)
THEOREM Invariance == Spec => []IInv
<1>1. Init => IInv
  BY InitIInv
<1>2. IInv /\ [Next]_vars => IInv'
  BY NextInv
<1> QED
  BY <1>1, <1>2, PTL DEF Spec

(* The variables of SemanticCi keep their types.                           *)
THEOREM TypeCorrect == Spec => []TypeOK
BY Invariance, PTL DEF IInv

(* No suite's job starts before all suites it needs have succeeded, under  *)
(* any cancellation and any choice of jobs to run again.                   *)
THEOREM OrderKept == Spec => []StartsAfterNeeds
BY Invariance, PTL DEF IInv

(* A green required check means that every required suite succeeded.       *)
THEOREM GreenIsSound == Spec => []GateSound
BY Invariance, PTL DEF IInv

(* Without failures the required check is green, unless an impacted suite  *)
(* blocks one below it.                                                    *)
THEOREM RedHasReason == Spec => []NoFalseRed
BY Invariance, NoAlarm, PTL

-----------------------------------------------------------------------------
(***************************************************************************)
(* Every attempt is decided, apart from the fairness of GitHub: until the  *)
(* gate has concluded some job may go on, and every step leaves fewer.     *)
(***************************************************************************)

(* The guards of the steps of a job.  Whichever way the impact job ends,   *)
(* its step needs no more than that it waits.                              *)
MayGoOn(j) ==
  \/ j = "impact" /\ job[j] = "waiting"
  \/ j \in Suite /\ (job[j] = "running" \/ (job[j] = "waiting" /\ Ready(j)))
  \/ j = "checks" /\ GateMayRun

SomeJobMayGoOn ==
  workflow = "rendered" /\ job["checks"] \notin Concluded => \E j \in Job : MayGoOn(j)

(* No job waits for ever: while the required check is undecided some job   *)
(* of the run may go on, for every valid declaration and after every       *)
(* failure, cancellation and re-run, because needs have no cycle (acyclic).*)
THEOREM RunNeverStuck == Spec => []SomeJobMayGoOn
<1>1. IInv => SomeJobMayGoOn
  <2> SUFFICES ASSUME IInv, workflow = "rendered", job["checks"] \notin Concluded,
                      \A j \in Job : ~MayGoOn(j)
               PROVE  FALSE
    BY DEF SomeJobMayGoOn
  <2>1. /\ NeedsValid /\ Acyclic /\ job["checks"] = "waiting"
        /\ \A j \in Job : job[j] \in {"waiting", "running"} \union Concluded
    BY DistinctJobs DEF IInv, Rendered, TypeOK
  <2>2. job["impact"] \in Concluded
    BY <2>1, DistinctJobs DEF MayGoOn, IInv, Rendered
  <2>3. \A s \in Suite : job[s] # "running"
    BY DistinctJobs DEF MayGoOn
  <2> DEFINE W == {s \in Suite : job[s] = "waiting"}
  <2>4. CASE W = {}
    <3>1. \A j \in Job \ {"checks"} : job[j] \in Concluded
      BY <2>1, <2>2, <2>3, <2>4, DistinctJobs DEF Job
    <3> QED
      BY <2>1, <3>1, DistinctJobs DEF GateMayRun, MayGoOn
  <2>5. CASE W # {}
    <3>1. PICK s \in W : Needs(s) \cap W = {}
      BY <2>1, <2>5 DEF Acyclic
    <3>2. \A n \in Needs(s) : n \in Suite /\ job[n] \in Concluded
      BY <2>1, <2>3, <3>1, DistinctJobs DEF NeedsValid
    <3>3. Ready(s)
      BY <2>2, <3>2 DEF Ready, GraphNeeds
    <3> QED
      BY <3>1, <3>3, DistinctJobs DEF MayGoOn
  <2> QED
    BY <2>4, <2>5
<1> QED
  BY <1>1, Invariance, PTL

(* What an attempt can still do: a job may start, a job may end, the run   *)
(* may be cancelled.                                                       *)
StillAhead ==
  {<<j, "start">> : j \in {k \in Job : job[k] = "waiting"}}
  \union {<<j, "end">> : j \in {k \in Job : job[k] \notin Concluded}}
  \union (IF cancelled THEN {} ELSE {<<"run", "cancel">>})

(* A step of an attempt leaves less to be done; only a re-run of a decided *)
(* attempt starts over.                                                    *)
AttemptShrinks ==
  \/ workflow = "declared" /\ workflow' \in {"rejected", "rendered"}
  \/ attempt' = attempt + 1 /\ job["checks"] \in Concluded
  \/ attempt' = attempt /\ StillAhead' \subseteq StillAhead /\ StillAhead' # StillAhead

(* Jobs move from waiting over running to a conclusion, and one of them    *)
(* has moved.                                                              *)
LEMMA MovedOn ==
  ASSUME NEW k \in Job, job[k] \notin Concluded,
         job'[k] \in Concluded \/ (job[k] = "waiting" /\ job'[k] = "running"),
         \A j \in Job \ {k} : job'[j] = job[j] \/ job'[j] \in Concluded,
         cancelled' = cancelled
  PROVE  StillAhead' \subseteq StillAhead /\ StillAhead' # StillAhead
<1>1. \A j \in Job : /\ job'[j] = "waiting" => job[j] = "waiting"
                     /\ job'[j] \notin Concluded => job[j] \notin Concluded
  BY DEF Concluded
<1>2. StillAhead' \subseteq StillAhead
  BY <1>1 DEF StillAhead
<1>3. CASE job'[k] \in Concluded
  <2>1. <<k, "end">> \in StillAhead
    BY DEF StillAhead
  <2>2. <<k, "end">> \notin StillAhead'
    BY <1>3 DEF StillAhead
  <2> QED
    BY <1>2, <2>1, <2>2
<1>4. CASE job[k] = "waiting" /\ job'[k] = "running"
  <2>1. <<k, "start">> \in StillAhead
    BY <1>4 DEF StillAhead
  <2>2. <<k, "start">> \notin StillAhead'
    BY <1>4 DEF StillAhead
  <2> QED
    BY <1>2, <2>1, <2>2
<1> QED
  BY <1>3, <1>4

(* No attempt goes on for ever: of at most two steps for each job and one  *)
(* cancellation each is taken once, until the attempt is decided           *)
(* (stages and gateTestLines of the rendered workflow).                    *)
THEOREM AttemptTerminates == Spec => [][AttemptShrinks]_vars
<1>1. ASSUME IInv, Next PROVE AttemptShrinks
  <2>1. job \in [Job -> {"waiting", "running"} \union Concluded]
    BY <1>1 DEF IInv, TypeOK
  <2>2. ASSUME NEW k \in Job, NEW status \in Concluded \union {"running"},
               Conclude(k, status), job[k] \notin Concluded,
               status = "running" => job[k] = "waiting",
               UNCHANGED <<attempt, cancelled>>
        PROVE  AttemptShrinks
    <3>1. job'[k] = status /\ \A j \in Job \ {k} : job'[j] = job[j]
      BY <2>1, <2>2 DEF Conclude
    <3> QED
      BY <2>2, <3>1, MovedOn DEF AttemptShrinks
  <2>3. CASE Evaluate
    BY <2>3 DEF Evaluate, AttemptShrinks
  <2>4. CASE ImpactStep
    BY <2>2, <2>4, DistinctJobs DEF ImpactStep, ImpactPlans, ImpactFails, ImpactSkipped, Concluded
  <2>5. ASSUME NEW s \in Suite, SuiteStep(s) PROVE AttemptShrinks
    <3>1. s \in Job
      BY DistinctJobs
    <3>2. CASE SuiteStarts(s)
      BY <2>2, <3>1, <3>2 DEF SuiteStarts, Concluded
    <3>3. CASE SuiteSkipped(s)
      BY <2>2, <3>1, <3>3 DEF SuiteSkipped, Concluded
    <3>4. CASE SuiteEnds(s)
      BY <2>2, <3>1, <3>4 DEF SuiteEnds, Concluded
    <3> QED
      BY <2>5, <3>2, <3>3, <3>4 DEF SuiteStep
  <2>6. CASE GateStep
    BY <2>2, <2>6, DistinctJobs DEF GateStep, GateRuns, GateLost, GateSkipped, GateMayRun, Concluded
  <2>7. CASE Cancel
    <3>1. /\ cancelled = FALSE /\ cancelled' = TRUE /\ attempt' = attempt
          /\ \A j \in Job : job'[j] = job[j] \/ job'[j] = "cancelled"
      BY <1>1, <2>7 DEF Cancel, IInv, TypeOK
    <3>2. \A j \in Job : /\ job'[j] = "waiting" => job[j] = "waiting"
                         /\ job'[j] \notin Concluded => job[j] \notin Concluded
      BY <3>1 DEF Concluded
    <3>3. StillAhead' \subseteq StillAhead
      BY <3>1, <3>2 DEF StillAhead
    <3>4. <<"run", "cancel">> \in StillAhead
      BY <3>1 DEF StillAhead
    <3>5. <<"run", "cancel">> \notin StillAhead'
      BY <3>1 DEF StillAhead
    <3> QED
      BY <3>1, <3>3, <3>4, <3>5 DEF AttemptShrinks
  <2>8. CASE Rerun
    BY <2>8 DEF Rerun, AttemptShrinks
  <2> QED
    BY <1>1, <2>3, <2>4, <2>5, <2>6, <2>7, <2>8 DEF Next
<1>2. IInv /\ [Next]_vars => [AttemptShrinks]_vars
  BY <1>1
<1> QED
  BY <1>2, Invariance, PTL DEF Spec

-----------------------------------------------------------------------------
(***************************************************************************)
(* With the shared cache.                                                  *)
(***************************************************************************)

(* With the needs of a suite, everything above it has succeeded.           *)
LEMMA UpstreamSucceeded ==
  ASSUME IInv, workflow = "rendered", NEW s \in Suite, \A n \in Needs(s) : job[n] = "success"
  PROVE  \A t \in Upstream(s) : job[t] = "success"
<1> DEFINE U == {t \in Suite : job[t] = "success"}
<1>1. U \in SUBSET Suite /\ Needs(s) \subseteq U
  BY DEF IInv, Rendered, NeedsValid
<1>2. \A t \in U : Needs(t) \subseteq U
  BY DEF IInv, StartsAfterNeeds, Started, Rendered, NeedsValid
<1> HIDE DEF U
<1>3. Upstream(s) \subseteq U
  BY <1>1, <1>2, UpstreamLeast
<1> QED
  BY <1>3 DEF U

CacheTypes ==
  /\ cache \in Caches(decl)
  /\ entry \in {"none", "older"} \union Suite
  /\ seen \in [Suite -> {"none", "older"} \union Suite]
  /\ workflow = "rendered" => CacheWriterValid

(* While the writer that found nothing is at work, nobody else stores.     *)
(* Short of an eviction or a lost save, what some job found is still       *)
(* there, and so is, after the writer's success, what it found or saved.   *)
EntryStays ==
  /\ cache.writer \in Suite \intersect cache.users =>
       (job[cache.writer] = "running" /\ seen[cache.writer] = "none" => entry = "none")
  /\ ~dropped =>
       /\ \A s \in Suite : seen[s] # "none" => entry = seen[s]
       /\ \A s \in Suite : s = cache.writer /\ MaySave(s) /\ job[s] = "success"
            => entry = (IF seen[s] = "none" THEN s ELSE seen[s])

CacheIInv == IInv /\ CacheTypes /\ EntryStays /\ WriterServesDependents

LEMMA CacheInitInv == CacheInit => CacheIInv
<1> SUFFICES ASSUME CacheInit PROVE CacheIInv
  OBVIOUS
<1>1. IInv
  BY InitIInv DEF CacheInit
<1>2. CacheTypes
  BY DEF CacheInit, CacheTypes, Init
<1>3. \A s \in Suite : seen[s] = "none" /\ job[s] = "waiting"
  BY DistinctJobs DEF CacheInit, Init
<1>4. EntryStays
  BY <1>3 DEF EntryStays
<1>5. WriterServesDependents
  <2>1. cache.users \subseteq Suite
    BY CachesAssumption DEF CacheInit, Init
  <2> QED
    BY <1>3, <2>1 DEF WriterServesDependents, Started
<1> QED
  BY <1>1, <1>2, <1>4, <1>5 DEF CacheIInv

(* Steps of the workflow that neither start nor complete a suite.          *)
LEMMA CacheKept ==
  ASSUME CacheIInv, IInv', UNCHANGED <<decl, cacheVars>>,
         workflow' = "rendered" => CacheWriterValid,
         \A s \in Suite : job'[s] \in Started => job'[s] = job[s]
  PROVE  CacheIInv'
<1>1. UNCHANGED <<cache, onMain, entry, seen, dropped>>
  BY DEF cacheVars
<1>2. CacheTypes'
  BY <1>1 DEF CacheIInv, CacheTypes, CacheWriterValid
<1>3. \A s : MaySave(s)' <=> MaySave(s)
  BY <1>1 DEF MaySave
<1>4. EntryStays'
  BY <1>1, <1>3 DEF CacheIInv, EntryStays, Started
<1>5. WriterServesDependents'
  <2>1. cache.users \subseteq Suite
    BY CachesAssumption DEF CacheIInv, CacheTypes, IInv, TypeOK
  <2> QED
    BY <1>1, <1>3, <2>1, DeclKept DEF CacheIInv, WriterServesDependents
<1> QED
  BY <1>2, <1>4, <1>5 DEF CacheIInv

LEMMA RestoreInv ==
  ASSUME CacheIInv, NEW s \in Suite, Restore(s)
  PROVE  CacheIInv'
<1>1. SuiteStarts(s) /\ IInv'
  BY SuiteStepInv DEF Restore, SuiteStep, CacheIInv
<1>2. /\ UNCHANGED <<decl, workflow, event>> /\ UNCHANGED <<cache, onMain, entry, dropped>>
      /\ workflow = "rendered" /\ job[s] = "waiting"
      /\ seen' = [seen EXCEPT ![s] = IF s \in cache.users THEN entry ELSE "none"]
      /\ job'[s] = "running" /\ \A t \in Suite \ {s} : job'[t] = job[t]
  BY DistinctJobs DEF Restore, SuiteStarts, Conclude, CacheIInv, IInv, TypeOK
<1>3. CacheTypes'
  BY <1>2 DEF CacheIInv, CacheTypes, CacheWriterValid
<1>4. /\ seen'[s] = (IF s \in cache.users THEN entry ELSE "none")
      /\ \A t \in Suite \ {s} : seen'[t] = seen[t]
  BY <1>2 DEF CacheIInv, CacheTypes
<1>5. \A t : MaySave(t)' <=> MaySave(t)
  BY <1>2 DEF MaySave
<1>6. EntryStays'
  BY <1>2, <1>4, <1>5 DEF CacheIInv, EntryStays
<1>7. WriterServesDependents'
  <2> SUFFICES ASSUME NEW t \in cache.users, job'[t] \in Started,
                      cache.writer \in Upstream(t), MaySave(cache.writer), ~dropped
               PROVE  seen'[t] = IF seen'[cache.writer] = "none" THEN cache.writer
                                 ELSE seen'[cache.writer]
    BY <1>2, <1>5, DeclKept DEF WriterServesDependents
  <2>1. t \in Suite
    BY CachesAssumption DEF CacheIInv, CacheTypes, IInv, TypeOK
  <2>2. job[cache.writer] = "success" /\ cache.writer \in Suite
    <3>1. \A n \in Needs(t) : job'[n] = "success"
      BY <1>1, <1>2, <2>1, DeclKept DEF IInv, StartsAfterNeeds, Started
    <3>2. \A n \in Needs(t) : job[n] = "success"
      BY <1>2, <2>1, <3>1 DEF CacheIInv, IInv, Rendered, NeedsValid
    <3> QED
      BY <1>2, <2>1, <3>2, UpstreamSucceeded DEF CacheIInv, Upstream
  <2>3. cache.writer # s /\ seen'[cache.writer] = seen[cache.writer]
    BY <1>2, <1>4, <2>2
  <2>4. CASE t = s
    BY <1>2, <1>4, <2>2, <2>3, <2>4 DEF CacheIInv, EntryStays
  <2>5. CASE t # s
    BY <1>2, <1>4, <2>1, <2>3, <2>5 DEF CacheIInv, WriterServesDependents
  <2> QED
    BY <2>4, <2>5
<1> QED
  BY <1>1, <1>3, <1>6, <1>7 DEF CacheIInv

LEMMA FinishInv ==
  ASSUME CacheIInv, NEW s \in Suite, Finish(s)
  PROVE  CacheIInv'
<1>1. SuiteEnds(s) /\ IInv'
  BY SuiteStepInv DEF Finish, SuiteStep, CacheIInv
<1>2. /\ UNCHANGED <<decl, workflow, event>> /\ UNCHANGED <<cache, onMain, seen>>
      /\ job[s] = "running"
      /\ job'[s] \in {"success", "failure"} /\ \A t \in Suite \ {s} : job'[t] = job[t]
  BY DistinctJobs DEF Finish, SuiteEnds, Conclude, CacheIInv, IInv, TypeOK
<1>3. /\ entry' \in {entry, s} /\ (entry # "none" => entry' = entry)
      /\ dropped => dropped'
      /\ Saves(s) => entry' = (IF entry = "none" THEN s ELSE entry) \/ dropped'
      /\ ~Saves(s) => entry' = entry
  BY DEF Finish
<1>4. CacheTypes'
  BY <1>2, <1>3 DEF CacheIInv, CacheTypes, CacheWriterValid
<1>5. \A t : MaySave(t)' <=> MaySave(t)
  BY <1>2 DEF MaySave
<1>6. EntryStays'
  <2>1. ASSUME cache.writer \in Suite \intersect cache.users,
               job'[cache.writer] = "running", seen[cache.writer] = "none"
        PROVE  entry' = "none"
    <3>1. cache.writer # s /\ job[cache.writer] = "running" /\ entry = "none"
      BY <1>2, <2>1 DEF CacheIInv, EntryStays
    <3>2. ~Saves(s)
      BY <2>1, <3>1, EntriesDistinct DEF Saves, MaySave
    <3> QED
      BY <1>3, <3>1, <3>2
  <2>2. ASSUME ~dropped', NEW t \in Suite, seen[t] # "none"
        PROVE  entry' = seen[t]
    BY <1>3, <2>2 DEF CacheIInv, EntryStays
  <2>3. ASSUME ~dropped', NEW t \in Suite, t = cache.writer, MaySave(t), job'[t] = "success"
        PROVE  entry' = (IF seen[t] = "none" THEN t ELSE seen[t])
    <3>1. CASE t # s
      BY <1>2, <1>3, <2>3, <3>1, EntriesDistinct DEF CacheIInv, EntryStays
    <3>2. CASE t = s /\ seen[t] = "none"
      <4>1. entry = "none"
        BY <1>2, <2>3, <3>2 DEF CacheIInv, EntryStays, MaySave
      <4> QED
        BY <1>3, <2>3, <3>2, <4>1 DEF Saves
    <3>3. CASE seen[t] # "none"
      BY <2>2, <2>3, <3>3
    <3> QED
      BY <3>1, <3>2, <3>3
  <2> QED
    BY <1>2, <1>5, <2>1, <2>2, <2>3 DEF EntryStays
<1>7. WriterServesDependents'
  <2>1. cache.users \subseteq Suite
    BY CachesAssumption DEF CacheIInv, CacheTypes, IInv, TypeOK
  <2>2. \A t \in Suite : job'[t] \in Started => job[t] \in Started
    BY <1>2 DEF Started
  <2> QED
    BY <1>2, <1>3, <1>5, <2>1, <2>2, DeclKept DEF CacheIInv, WriterServesDependents
<1> QED
  BY <1>1, <1>4, <1>6, <1>7 DEF CacheIInv

LEMMA CacheNextInv == CacheIInv /\ [CacheNext]_allVars => CacheIInv'
<1> SUFFICES ASSUME CacheIInv, [CacheNext]_allVars PROVE CacheIInv'
  OBVIOUS
<1>1. CASE CacheEvaluate
  <2>1. IInv' /\ \A j \in Job : job[j] = "waiting"
    BY <1>1, NextInv DEF CacheEvaluate, Next, CacheIInv, IInv, Evaluate, Rendered
  <2> QED
    BY <1>1, <2>1, CacheKept DEF CacheEvaluate, Evaluate
<1>2. CASE RefuseWriter
  <2>1. IInv'
    BY <1>2, EvaluateInv DEF RefuseWriter, CacheIInv
  <2> QED
    BY <1>2, <2>1, CacheKept DEF RefuseWriter
<1>3. CASE Evict
  <2>1. IInv'
    BY <1>3, NextInv DEF Evict, CacheIInv
  <2>2. CacheTypes' /\ EntryStays' /\ WriterServesDependents'
    <3>1. UNCHANGED <<decl, workflow, cache, seen>> /\ dropped' /\ entry' = "none"
      BY <1>3 DEF Evict, vars
    <3> QED
      BY <3>1 DEF CacheIInv, CacheTypes, CacheWriterValid, EntryStays, WriterServesDependents
  <2> QED
    BY <2>1, <2>2 DEF CacheIInv
<1>4. CASE /\ \/ ImpactStep \/ GateStep \/ Cancel \/ Rerun
              \/ \E s \in Suite : SuiteSkipped(s)
           /\ UNCHANGED cacheVars
  <2>1. IInv'
    BY <1>4, ImpactStepInv, GateStepInv, CancelInv, RerunInv, SuiteStepInv DEF CacheIInv, SuiteStep
  <2>2. UNCHANGED <<decl, workflow>>
    BY <1>4 DEF ImpactStep, ImpactPlans, ImpactFails, ImpactSkipped, GateStep, GateRuns, GateLost,
                GateSkipped, Cancel, Rerun, SuiteSkipped
  <2>3. \A s \in Suite : job'[s] \in Started => job'[s] = job[s]
    <3>1. CASE ImpactStep
      BY <3>1, DistinctJobs DEF ImpactStep, ImpactPlans, ImpactFails, ImpactSkipped, Conclude,
                                CacheIInv, IInv, TypeOK
    <3>2. CASE GateStep
      BY <3>2, DistinctJobs DEF GateStep, GateRuns, GateLost, GateSkipped, Conclude,
                                CacheIInv, IInv, TypeOK
    <3>3. CASE Cancel \/ Rerun
      BY <3>3, DistinctJobs DEF Cancel, Rerun, Started
    <3>4. CASE \E s \in Suite : SuiteSkipped(s)
      BY <3>4, DistinctJobs DEF SuiteSkipped, Conclude, Started, CacheIInv, IInv, TypeOK
    <3> QED
      BY <1>4, <3>1, <3>2, <3>3, <3>4
  <2> QED
    BY <1>4, <2>1, <2>2, <2>3, CacheKept DEF CacheIInv, CacheTypes
<1>5. CASE UNCHANGED allVars
  <2>1. IInv' /\ UNCHANGED <<decl, workflow, job, cacheVars>>
    BY <1>5, NextInv DEF CacheIInv, allVars, vars
  <2> QED
    BY <2>1, CacheKept DEF CacheIInv, CacheTypes
<1> QED
  BY <1>1, <1>2, <1>3, <1>4, <1>5, RestoreInv, FinishInv DEF CacheNext

(* With every cache option, and any eviction or lost save, the run keeps   *)
(* the invariant of the run without a cache.                               *)
THEOREM CacheInvariance == CacheSpec => []CacheIInv
<1>1. CacheInit => CacheIInv
  BY CacheInitInv
<1>2. CacheIInv /\ [CacheNext]_allVars => CacheIInv'
  BY CacheNextInv
<1> QED
  BY <1>1, <1>2, PTL DEF CacheSpec

(* The shared cache changes nothing about the order of the suites, the     *)
(* meaning of a green check and the absence of false alarms.               *)
THEOREM CacheKeepsGate ==
  CacheSpec => [](StartsAfterNeeds /\ GateSound /\ NoFalseRed)
<1>1. CacheIInv => StartsAfterNeeds /\ GateSound /\ NoFalseRed
  BY NoAlarm DEF CacheIInv, IInv
<1> QED
  BY <1>1, CacheInvariance, PTL

(* A job that waits for the writer finds, in every attempt, what the       *)
(* writer found or else saved, where the writer may save and nothing was   *)
(* evicted or failed to be stored; nobody else's entry can get in between. *)
THEOREM WriterServes == CacheSpec => []WriterServesDependents
BY CacheInvariance, PTL DEF CacheIInv
=============================================================================
