------------------------------ MODULE SemanticCi ------------------------------
(***************************************************************************)
(* A declaration of semantic suites (lib/mk-ci.nix), the GitHub workflow   *)
(* generated from it (lib/render-github-workflow.nix), and one run of that *)
(* workflow:                                                               *)
(*                                                                         *)
(*    impact (pull requests) --> suites in the order of needs --> checks   *)
(*                                                                         *)
(* "checks" is the job branch protection requires.  The planner inside the *)
(* impact job is taken at its word: it selects every annotated suite that  *)
(* the change touches, and possibly more.                                  *)
(***************************************************************************)
EXTENDS Naturals

CONSTANTS
  Suite,         \* suites of the declaration ("phase.suite")
  Build,         \* those of the build phase
  Ref,           \* names a declaration may use in needs; some are no suites
  Declarations,  \* the declarations considered
  Event,         \* "push" (or workflow_dispatch), "pull" and "draft"
  MaxAttempt,    \* bound: attempts of the run
  Unset          \* an option that is absent

(* A declaration is a record: needs, of each suite, a set of names or      *)
(* Unset; cargo, the suites with an impact rule; prImpact, whether there   *)
(* is an impact job; prJobs, the pullRequestJobs or Unset.                 *)
ASSUME DeclarationsAssumption ==
  /\ Build \subseteq Suite /\ Suite \subseteq Ref
  /\ Ref \cap {"impact", "checks"} = {}
  /\ \A S \in SUBSET Suite : S # Unset
  /\ \A d \in Declarations :
       /\ \A s \in Suite : d.needs[s] = Unset \/ d.needs[s] \subseteq Ref
       /\ d.cargo \subseteq Suite /\ d.prImpact \in BOOLEAN
       /\ d.prJobs = Unset \/ d.prJobs \subseteq Suite
  /\ Event \subseteq {"push", "pull", "draft"}
  /\ MaxAttempt \in Nat \ {0}

VARIABLES
  decl,       \* the declaration under evaluation
  workflow,   \* "declared", then "rejected" or "rendered"
  event,      \* what triggered the run
  touched,    \* ground truth: annotated suites whose inputs the change touches
  attempt,    \* number of the current attempt of the run
  job,        \* status of each job
  selected,   \* output of the impact job: the suites to run, or Unset
  cancelled   \* the current attempt was cancelled

vars == <<decl, workflow, event, touched, attempt, job, selected, cancelled>>

Job       == Suite \union {"impact", "checks"}
Concluded == {"success", "failure", "cancelled", "skipped"}
Started   == {"running", "success", "failure"}

-----------------------------------------------------------------------------
(* Evaluation of the declaration.                                          *)

(* suitesWithNeeds: without needs a suite waits for the whole build phase. *)
Needs(s) ==
  IF decl.needs[s] # Unset THEN decl.needs[s]
  ELSE IF s \in Build THEN {} ELSE Build

NeedsValid == \A s \in Suite : Needs(s) \subseteq Suite \ {s}

(* Mutant: cycles are not looked for.                                      *)
AcyclicMutant == TRUE

(* No suite reaches itself: every set of suites has one that needs none of *)
(* the others.                                                             *)
Acyclic ==
  \A C \in (SUBSET Suite) \ {{}} : \E s \in C : Needs(s) \cap C = {}

InPullRequest(s) == decl.prJobs # Unset => s \in decl.prJobs

(* Mutant: the list of pull request jobs need not be closed under needs.   *)
PullRequestJobsValidMutant == TRUE

PullRequestJobsValid ==
  \A s \in Suite : InPullRequest(s) => \A n \in Needs(s) : InPullRequest(n)

(* Jobs that ask the impact job whether to run.                            *)
Affected(s) == decl.prImpact /\ s \in decl.cargo /\ InPullRequest(s)

Evaluate ==
  /\ workflow = "declared"
  /\ workflow' = IF NeedsValid /\ Acyclic /\ PullRequestJobsValid
                   THEN "rendered" ELSE "rejected"
  /\ UNCHANGED <<decl, event, touched, attempt, job, selected, cancelled>>

-----------------------------------------------------------------------------
(* What GitHub makes of the job graph.                                     *)

GraphNeeds(s) == Needs(s) \union (IF Affected(s) THEN {"impact"} ELSE {})

(* The suites that s waits for, directly or through others: those in every *)
(* set that holds the needs of s and, with a suite, what it needs.         *)
Upstream(s) ==
  {t \in Suite : \A C \in SUBSET Suite :
     Needs(s) \subseteq C /\ (\A u \in C : Needs(u) \subseteq C) => t \in C}

(* The jobs in the chain above s; those of the impact job's suites include *)
(* the impact job.                                                         *)
Chain(s) == UNION {GraphNeeds(t) : t \in Upstream(s) \union {s}}

Ready(s) == \A n \in GraphNeeds(s) : job[n] \in Concluded

(* A condition without a status function holds only after success of the   *)
(* whole chain: one skipped job above a job skips it.                      *)
ImplicitSuccess(s) == ~cancelled /\ \A n \in Chain(s) : job[n] = "success"

(* Mutant: an impacted job waits for its needs, but not for their success. *)
BaseReadyMutant(s) == TRUE

BaseReady(s) == \A n \in Needs(s) : job[n] = "success"

(* The `if` of a suite's job.  The one of an impacted job begins with      *)
(* always(): neither a failure above it nor a cancellation overrules it.   *)
Runs(s) ==
  IF Affected(s)
    THEN /\ BaseReady(s)
         /\ \/ event = "push"
            \/ event = "pull" /\ job["impact"] = "success" /\ s \in selected
    ELSE /\ ImplicitSuccess(s)
         /\ event = "push" \/ (event = "pull" /\ InPullRequest(s))

Conclude(j, status) == job' = [job EXCEPT ![j] = status]

-----------------------------------------------------------------------------
(* The jobs.                                                               *)

Init ==
  /\ decl \in Declarations
  /\ workflow = "declared"
  /\ event \in Event
  /\ touched \in SUBSET decl.cargo
  /\ attempt = 1
  /\ job = [j \in Job |-> "waiting"]
  /\ selected = Unset
  /\ cancelled = FALSE

ImpactConfig == {s \in decl.cargo : InPullRequest(s)}

(* The planner's answer covers the change; when in doubt it selects all.   *)
ImpactPlans ==
  /\ workflow = "rendered" /\ decl.prImpact
  /\ job["impact"] = "waiting" /\ event = "pull" /\ ~cancelled
  /\ \E more \in SUBSET ImpactConfig :
       selected' = more \union (touched \cap ImpactConfig)
  /\ Conclude("impact", "success")
  /\ UNCHANGED <<decl, workflow, event, touched, attempt, cancelled>>

ImpactFails ==
  /\ workflow = "rendered" /\ decl.prImpact
  /\ job["impact"] = "waiting" /\ event = "pull"
  /\ Conclude("impact", "failure")
  /\ UNCHANGED <<decl, workflow, event, touched, attempt, selected, cancelled>>

(* Not a pull request, a draft, or no impact job at all.                   *)
ImpactSkipped ==
  /\ workflow = "rendered"
  /\ job["impact"] = "waiting" /\ (event # "pull" \/ ~decl.prImpact)
  /\ Conclude("impact", "skipped")
  /\ UNCHANGED <<decl, workflow, event, touched, attempt, selected, cancelled>>

SuiteStarts(s) ==
  /\ workflow = "rendered"
  /\ job[s] = "waiting" /\ Ready(s) /\ Runs(s)
  /\ Conclude(s, "running")
  /\ UNCHANGED <<decl, workflow, event, touched, attempt, selected, cancelled>>

SuiteSkipped(s) ==
  /\ workflow = "rendered"
  /\ job[s] = "waiting" /\ Ready(s) /\ ~Runs(s)
  /\ Conclude(s, "skipped")
  /\ UNCHANGED <<decl, workflow, event, touched, attempt, selected, cancelled>>

(* The suite's command, the checks that the repository remains clean, a    *)
(* time limit or the machine decide.                                       *)
SuiteEnds(s) ==
  /\ job[s] = "running"
  /\ \E status \in {"success", "failure"} : Conclude(s, status)
  /\ UNCHANGED <<decl, workflow, event, touched, attempt, selected, cancelled>>

(* Mutant: any skip is accepted from an impacted job.                      *)
SkipAcceptedMutant(s) == event = "pull" /\ job[s] = "skipped"

(* gateTestLines: jobs that are left out of pull requests, and jobs that   *)
(* the planner confirmed to be unaffected, may be skipped.                 *)
SkipAccepted(s) ==
  /\ event = "pull" /\ job[s] = "skipped"
  /\ \/ ~InPullRequest(s)
     \/ Affected(s) /\ job["impact"] = "success" /\ s \notin selected

GateTest ==
  /\ decl.prImpact => event # "pull" \/ job["impact"] = "success"
  /\ \A s \in Suite : job[s] = "success" \/ SkipAccepted(s)

GateMayRun ==
  /\ workflow = "rendered"
  /\ job["checks"] = "waiting"
  /\ \A j \in Job \ {"checks"} : job[j] \in Concluded

(* `if: always()`, but not for drafts.                                     *)
GateRuns ==
  /\ GateMayRun /\ event # "draft"
  /\ Conclude("checks", IF GateTest THEN "success" ELSE "failure")
  /\ UNCHANGED <<decl, workflow, event, touched, attempt, selected, cancelled>>

GateLost ==
  /\ GateMayRun /\ event # "draft"
  /\ Conclude("checks", "failure")
  /\ UNCHANGED <<decl, workflow, event, touched, attempt, selected, cancelled>>

GateSkipped ==
  /\ GateMayRun /\ event = "draft"
  /\ Conclude("checks", "skipped")
  /\ UNCHANGED <<decl, workflow, event, touched, attempt, selected, cancelled>>

-----------------------------------------------------------------------------
(* The run.                                                                *)

(* A newer run of the concurrency group or a user cancels the run: what    *)
(* is protected by always() goes on, everything else ends.                 *)
Cancel ==
  /\ workflow = "rendered" /\ ~cancelled
  /\ \E j \in Job \ {"checks"} : job[j] \notin Concluded
  /\ cancelled' = TRUE
  /\ job' = [j \in Job |->
       IF job[j] \in Concluded \/ j = "checks" \/ (j \in Suite /\ Affected(j))
         THEN job[j] ELSE "cancelled"]
  /\ UNCHANGED <<decl, workflow, event, touched, attempt, selected>>

(* Jobs that are run again with j because they wait for it.                *)
Dependents(j) ==
  {j, "checks"} \union
  {s \in Suite : j \in Upstream(s) \union Chain(s)}

Unsuccessful == {j \in Job : job[j] \in {"failure", "cancelled"}}

(* "Re-run all jobs", "re-run failed jobs" or the re-run of one job.       *)
Rerun ==
  /\ job["checks"] \in Concluded
  /\ attempt < MaxAttempt
  /\ attempt' = attempt + 1
  /\ cancelled' = FALSE
  /\ \E chosen \in {Job, Unsuccessful} \union {{j} : j \in Job \ {"impact"}}
                    \union {{"impact"} : i \in {decl.prImpact} \ {FALSE}} :
       LET again == UNION {Dependents(j) : j \in chosen}
       IN /\ chosen # {}
          /\ job' = [j \in Job |-> IF j \in again THEN "waiting" ELSE job[j]]
  /\ UNCHANGED <<decl, workflow, event, touched, selected>>

ImpactStep   == ImpactPlans \/ ImpactFails \/ ImpactSkipped
SuiteStep(s) == SuiteStarts(s) \/ SuiteSkipped(s) \/ SuiteEnds(s)
GateStep     == GateRuns \/ GateLost \/ GateSkipped

Next ==
  \/ Evaluate \/ ImpactStep
  \/ \E s \in Suite : SuiteStep(s)
  \/ GateStep \/ Cancel \/ Rerun

Spec == Init /\ [][Next]_vars

(* GitHub schedules every job whose needs have concluded, and ends every   *)
(* job by its time limit at the latest.                                    *)
Fairness ==
  /\ WF_vars(Evaluate)
  /\ WF_vars(ImpactStep)
  /\ \A s \in Suite : WF_vars(SuiteStep(s))
  /\ WF_vars(GateStep)

FairSpec == Spec /\ Fairness

-----------------------------------------------------------------------------
(* Properties.                                                             *)

TypeOK ==
  /\ decl \in Declarations
  /\ workflow \in {"declared", "rejected", "rendered"}
  /\ event \in Event
  /\ touched \subseteq Suite
  /\ attempt \in 1 .. MaxAttempt
  /\ job \in [Job -> {"waiting", "running"} \union Concluded]
  /\ selected = Unset \/ \A s \in selected : s \in Suite /\ Affected(s)
  /\ cancelled \in BOOLEAN

(* What the required check stands for: all suites on a push, and on a pull *)
(* request those in its scope, except annotated ones the change leaves     *)
(* alone.                                                                  *)
Required(s) ==
  \/ event = "push"
  \/ event = "pull" /\ InPullRequest(s) /\ (Affected(s) => s \in touched)

(* "the required gate only accepts a skip for a planner-confirmed          *)
(* unaffected job": after any re-runs, cancellations and planner failures, *)
(* a green gate means that every required suite succeeded.                 *)
GateSound ==
  job["checks"] = "success" => \A s \in Suite : Required(s) => job[s] = "success"

(* A suite's job never starts before all suites it needs have succeeded,   *)
(* although the always() of impacted jobs switches off GitHub's own check. *)
StartsAfterNeeds ==
  \A s \in Suite : job[s] \in Started => \A n \in Needs(s) : job[n] = "success"

(* Somewhere above a suite that has to succeed is an impacted one whose    *)
(* planner says no, or whose planner did not run because it is a push.     *)
Blocked ==
  \E s \in Suite : \E t \in Upstream(s) :
    /\ Affected(t)
    /\ \/ event = "push" /\ ~Affected(s)
       \/ event = "pull" /\ selected # Unset /\ t \notin selected

(* No false alarm: when no job failed or was cancelled the gate accepts,   *)
(* unless an impacted suite blocks a suite below it (pullRequestJobsValid  *)
(* keeps excluded suites from doing the same).                             *)
NoFalseRed ==
  /\ GateMayRun /\ event # "draft" /\ ~Blocked
  /\ \A j \in Job : job[j] \notin {"failure", "cancelled"}
  => GateTest

(* Every attempt of a run that was rendered is decided: no chain of needs  *)
(* keeps the gate waiting (acyclic).                                       *)
EveryRunDecided ==
  \A a \in 1 .. MaxAttempt :
    (workflow = "rendered" /\ attempt = a) ~> (job["checks"] \in Concluded)

(* "Main pushes and manual runs still run the complete configured suite"   *)
(* (README.md:299-300).                                                    *)
PushRunsAll ==
  /\ GateMayRun /\ event = "push"
  /\ \A j \in Job : job[j] \notin {"failure", "cancelled"}
  => \A s \in Suite : job[s] = "success"
=============================================================================
