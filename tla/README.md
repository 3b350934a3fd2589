# Verification of phenix-flake-ci

phenix-flake-ci is a Nix library that generates CI for flakes: reusable GitHub
workflows with the Python programs their jobs run, and workflow files rendered
from Nix declarations.  Its own logic is the coordination of jobs on separate
machines that share nothing but artifacts and cache entries, under re-runs,
cancellation, lost runners and inputs that are not locked.  This directory
models that coordination in TLA+, checks it with TLC on small instances, and
proves the central parts with TLAPS.

Paths below are relative to the repository.

## 1. Inventory

| Component | State it keeps | Operations | Hard about it |
|---|---|---|---|
| **Check planner** `lib/flake-check-plan.py` `make_plan` | shards, their weights, the dictionary of units | resolve hints, reserve shards for isolated checks, group by affinity, place greedily | off-by-one between isolated checks and shards; overlapping hint patterns; balance |
| **Matrix workflow** `.github/workflows/flake-checks.yml` + the commands of `flake-check-plan.py` | a Nix store per machine, artifacts `flake-check-plan`, `flake-prebuild-evidence`, `flake-shard-*`, one cache entry | plan, prebuild, prebuild-local, build, verify | artifacts outlive attempts, partial re-runs, drifting evaluations, garbage collection before the cache is saved, interrupted jobs that still upload |
| **Derivation DAG** `lib/flake-check-dag.py`, `flake-local-dag.yml` | plan and graph files | analyze, build, verify, publish | derivations shared by checks; transitive dependencies; cycles; failed builds that print partial results |
| **Staged DAG** `lib/flake-dag-stages.py`, `flake-dag-staged.yml` | stores, artifacts `nix-dag-*`, `dag-leaf-*` with a store archive | partition, leaf, verify-leaf, join, verify | archives are relative to another job's store contents |
| **Remote builders** `lib/nix-remote-workers.py`, `flake-nix-builders.yml` | completion files on the workers, `hosts.json`, four clocks | hold, discover, build, stop, acceptance | independent starts and ends, four deadlines, releases over the network, partial re-runs against workers that are gone |
| **Runnable test packages** `lib/flake-test-packages.py` | plan, closure archive, evidence per test | plan, build, export, run, verify | evidence over attempts, a closure of another plan, drift between plan and run |
| **Semantic suites** `lib/mk-ci.nix` | a declaration (pure) | validation, default needs, phases, cache options, shell text of suites | cycles through defaulted needs; conditions that only GitHub evaluates |
| **Generated workflow** `lib/render-github-workflow.nix` | jobs, cache entry | impact job, suite jobs, required check | `always()` against implicit `success()`; skips that count as success |
| **Cargo impact planner** `lib/cargo-impact.py` | changed paths, packages, jobs | diff, three narrowing proofs, reverse closure, selection | an omission is silent |
| **Caller workflows** `lib/mk-flake-ci-workflow.nix`, `mk-flake-ci-workflows.nix` | runs and the concurrency groups they hold | triggers, admission, call | two groups per run, reached at different times |
| **Maintenance command graph** `lib/maintenance-command-graph.nix`, `render-*maintenance*.nix`, `mk-maintenance.nix` | none (pure) | reachable commands, cycle check, runtime inputs | transitivity, cycles |
| **Maintenance package, git hook** `lib/mk-maintenance-package.nix` | index and work tree | pre-commit hook | re-staging partially staged files |
| **Test runner** `lib/test-runner.py`, `mk-test*.nix` | observations, failures | validation, steps, expectations, verdict | references to observations that failed to appear; what a malformed expectation does to failures already seen; late validation |
| **Reports** `critical-path-report.py`, `shard-build-report.py`, ... | none | file to file | - |

How they interact: a *caller* triggers one of four *backends* (matrix, local
DAG, staged DAG, remote).  The backends all start from the planner's plan file,
whose digest travels with every piece of evidence; the last job of each demands
evidence for the exact plan of the exact commit.  All but the first refine the plan
by the derivation graph, which decides what can be built at the same time.  The
remote backend also plans, builds and fans out runnable tests, and its acceptance
job judges both kinds of evidence.  The *semantic* workflow is a
different product: rendered from a declaration, it asks the *impact planner*
which suites a pull request needs, and its `checks` job is the one branch
protection requires.  The backends' merge gate has one promise in common, which
`ExactHeadGate` states abstractly.

What makes each part correct:

* planner: the plan is a partition; isolation and affinity are kept; only
  impossible configurations are refused; the slowest shard is close to optimal;
* backends: green means every check of the inventory in force was realised;
  evidence never lies; the gate is neither stuck nor red without a reason;
* derivation graph: the ancestors found are exactly those of the graph, a cycle or a
  missing derivation is refused, waves respect the order and are as early as can be;
* staged: archives can be imported, no check is built by two machines;
* remote: ready workers are released, late pools are rejected, nobody waits for
  ever; a build never relies on workers of another attempt, and the tests find the
  closure that was exported for their plan;
* semantic workflow: green means every required suite succeeded; no suite starts early;
* cache: what waits for the writer restores what the writer found or saved, not what
  a suite racing with it saved;
* impact: no job that the change can affect is left out, none is selected in vain;
* test runner: a pass vouches for every step and expectation, a verdict reports
  exactly what failed, a declaration with a bad reference runs nothing;
* callers: a new run replaces the old one of its pull request, nobody else's run
  is cancelled beyond what a shared branch name explains, no run stops itself.

## 2. Modules

| Module | Models | State and actions |
|---|---|---|
| `ExactHeadGate` | the abstract promise of a backend | `verdict`, `inventory`, `built`; `Accept` needs the whole inventory realised: built, or found complete in a machine's own store |
| `FlakeMatrix` | one run of `flake-checks.yml`, several attempts | one status per job (`job`), the store of each machine, artifacts, the cache entry; an action per step of a job, plus `Skip`, `LoseRunner`, `Cancel`, `Evict`, `ForeignSave`, `Rerun` |
| `FlakeMatrixProofs` | proofs about it | |
| `CheckPlanner` | `make_plan`, loop by loop | `pc` walks through the function; `shards`, `units`, `weight`, `load` are its variables |
| `PlanQuality` | reference definitions: feasibility, optimum | the optimum is the least makespan of all assignments; weights are summed with the library's `SumFunctionOnSet` |
| `DerivationGraph` | the `plan` command after `make_plan`: reading Nix's graph, the search for ancestors, check dependencies, the waves; extends `CheckPlanner`, whose steps come first | `graph` (or its refusal), `stage`; the recursion of the search as `stack`, `known`, `memo`; `waved`, `wave` |
| `PlanJobProofs` | proofs about `CheckPlanner`, `PlanQuality` and `DerivationGraph` | |
| `StagedDag` | one run of `flake-dag-staged.yml`, several attempts | as `FlakeMatrix`, with archives (`leafArt`) that are sets of derivations and paths, and `builtBy`; a restored store is any set closed under inputs |
| `StagedDagProofs` | proofs about it | |
| `RemoteBuilders` | the pool of `flake-nix-builders.yml` | worker jobs, coordinator, acceptance; four timers and `Tick` |
| `RemoteBuildersProofs` | proofs about it | |
| `RemoteRun` | one run of `flake-nix-builders.yml` with its runnable tests, several attempts | a status per job, with one value per step of the coordinator; the attempt whose host names a worker carries (`ranIn`); the coordinator's files; artifacts; `done` |
| `RemoteRunProofs` | proofs about it | |
| `SemanticCi` | evaluation of a declaration, the rendered jobs, one run of them | `Evaluate` rejects or renders; jobs are started, skipped and ended by the rendered conditions |
| `SuiteCache` | `SemanticCi` composed with the shared cache entry | `Restore`, `Finish`, `Evict` on top of the suites' steps |
| `SemanticCiProofs` | proofs about `SemanticCi` and `SuiteCache` | |
| `RunConcurrency` | runs of generated callers and their groups | `Trigger`, `Call`, `Excluded`, `Finish`, `Rerun`; each may cancel holders of a group |
| `CargoImpact` | `run()` of the impact planner, step by step | `Diff`, `CheckLock`, `CheckRoot`, `CheckList`, `Classify`, one `Follow` per crate whose dependents are looked up, `Select` |
| `TriggerProofs` | proofs about `CargoImpact` and `RunConcurrency` | |
| `TestRunner` | `test()` of the declarative test runner | `pc` walks through validation, steps and end; an action per outcome of a command: `Exits`, `TimesOut`, `CannotLaunch`, and `SkipStep`, `RejectStep` |
| `TestRunnerProofs` | proofs about it | |
| `MC*` | instances for TLC | |

`FlakeMatrix`, `StagedDag` and `RemoteRun` are each related to `ExactHeadGate` by a
refinement mapping (`Gate == INSTANCE ExactHeadGate WITH ...`): the verdict is
read off the required job, the inventory off the newest plan artifact (in
`RemoteRun` checks and tests together), and the specification of the gate is a
checked and proved property of all three.  `DerivationGraph` implements
`CheckPlanner` under the identity mapping: what is proved about the planner alone
holds in the job that goes on to read the graph.

### Abstractions

* **Data.** Checks, derivations, outputs and paths are members of small sets.  A
  plan digest is a number that identifies the plan.  Commit and run identity are
  left out where the code compares them for equality within a single commit's
  run.  Hint patterns are the set of names they match (`fnmatch` is not
  modelled).  A path in `CargoImpact` is the place it belongs to.  `TestRunner` has
  one output stream, one JSON pointer and one file, and texts are told apart by
  what the pointer finds in them; of the predicates, which all compare an
  observation with an operand, it keeps bare values, `eq`, `ne` and existence, and
  an object spells at most one of them.
  Its histories `ran` and `left` (the file a step left) exist for properties only.
* **GitHub and Nix** are external: job scheduling, implicit `success()` over the
  chain of needs, artifacts (the newest of a name wins, over all attempts), the
  cache (first save of a key wins, may be evicted, may be filled by another
  workflow), re-runs ("all", "failed", single job, each with its dependents),
  cancellation, lost runners.  They are modelled from how the workflows use them.
* **Drift.** A flake may have unlocked inputs, so two evaluations of one commit
  may differ: `Plans` has a second, "drifted" plan, and every evaluation in every
  job picks one.  That is what the digests and the comparison of derivations are for.
* **The graph Nix shows.**  `Graphs(i)` is the set of dependency graphs that
  `nix derivation show` may return for a configuration: nothing is assumed of them,
  they may have cycles, self loops, missing derivations or the same derivation
  under several names.  `Ancestors` and, over suites, `Upstream` are least sets closed
  under dependency.  In `StagedDag` the inputs of a derivation are transitive already,
  as the search leaves them.
* **The remote run** leaves clocks to `RemoteBuilders`: there a worker waits, is
  released or gives up; in `RemoteRun` only which of these happened.  A plan
  stands for its digest.
* **Impact planner.** `SemanticCi` takes the planner at its word (it selects at
  least the suites touched); `CargoImpact` is where that is examined (`NoOmission`) and
  proved (`NothingOmitted`).
* **Time.** `RemoteBuilders` counts ticks of about ten minutes, much longer than
  the four second poll, so that only the order of deadlines matters.  `Urgent`
  keeps time from passing while a script that is out of time has yet to act.
* **Preconditions.** `NoFalseRed` (matrix) and `HandoverComplete` (staged, remote) exclude
  surplus evidence that an earlier, wider plan left behind: there the code does
  refuse (see section 6).  `NoFalseRed` (semantic) excludes `Blocked`, the case of
  finding 1.  `NoOmission` and `PackagesCover` exclude renames from one place to
  another, the case of finding 4.

## 3. Runs

| Run | Instance and bounds | Shows |
|---|---|---|
| `matrix` | 2 shards, 2 checks, 3 derivations, 1 shared output; a planned and a drifted evaluation; 2 attempts; fairness | `EvidenceTruthful`, `GateSound`, `NewestEvidence`, `NoFalseRed`, `SharedOutputsLocal`, `ArchiveComplete`, `ImplementsGate`, `EveryAttemptDecided` |
| `plan_job` | 5 checks; three contradicting or overlapping patterns with 1-3 shards, every weighting 1..3 with or without a group, all isolated with 4-5; for one configuration every graph over four derivations in which two may depend on themselves, and graphs in which a derivation is missing or shown twice | `PlanPartitions`, `HintsKept` (isolation and affinity), `RejectsOnlyInfeasible`, `WithinGrahamBound`, `AncestorsExact`, `WavesExact`, `FanOutComplete` |
| `staged_dag` | 2 leaves, 3 checks of which one depends on the others; a second evaluation with another graph and other shared outputs; 2 attempts | `HandoverComplete`, `BuiltOnce`, `ImplementsGate` |
| `remote_pool` | 2 workers; hold 3, discovery 1, worker job 4, coordinator job 5 ticks; fairness | `ReadyReleased`, `AcceptedInTime`, `NoOrphan`, `Decided` |
| `remote_run` | 2 workers (symmetric), 2 derivations of checks, 2 tests, evaluations that add a check, drop all tests, add a test or change one's output; lost and cancelled jobs; 2 attempts, re-runs of all, of failed or of single jobs | `ImplementsGate`, `PoolOfOneAttempt`, `HandoverComplete` |
| `suites` | 3 suites, 450 declarations (default, explicit, missing, cyclic and unknown needs; every set of annotated suites; pull request subsets), two of them (an unannotated chain, and one whose test runs beside the build) with the cache under every option; push, pull request, draft; eviction, lost saves, cancellation; 2 attempts; fairness | `GateSound`, `StartsAfterNeeds`, `NoFalseRed`, `WriterServesDependents`, `EveryRunDecided` |
| `run_concurrency` | the generated pair of callers (remote and matrix) and a caller of its own with the staged backend, 3 pull requests from forks' `main`, and pushes to `main`; 4 runs or re-runs; fairness | `OnePerPullRequest`, `OnlyRivalsCancel`, `EveryRunEnds` |
| `cargo_impact` | 3 crates, 4 dependency graphs (chain, cycle), a workspace job and a job with packages; all edits of up to 3 of 13 paths with every meaning of the shared ones; renames within a place | `NoOmission`, `PackagesCover`, `SelectsNothingElse` |
| `test_runner` | about 320 declarations of one to three steps over every kind of expectation and reference (earlier, own, later), six texts (the pointer finds a string, a number, an object, an object that spells `ne`, nothing, or an array), every outcome of a command | `PassSound`, `AllReported`, `RejectedUntouched` |
| `semantic_push` (violation) | as `suites`, without the cache | finding 1: `PushRunsAll` |
| `push_cancelled` (violation) | a pull request caller and a push caller with their default backends, 2 pull requests with one head branch name; 4 runs | findings 2 and 3: `SomePromiseKept` |
| `cargo_rename` (violation) | renames from any place to any other | finding 4: `SharedSelectsAll` |

**Why the bounds suffice.**  Two shards are needed for one to pass and another to
fail; with two attempts evidence of the first meets jobs of the second, under a full
and under a partial re-run.  A third attempt could let evidence skip one: the proofs
of section 4 cover any number of attempts for every safety property of the matrix,
the staged and the remote run, while `EveryAttemptDecided` is checked at two.  Two plans are
enough for any pair of jobs to disagree. Three suites give a chain, a fork and a
cycle.  Four derivations give the diamond, in which one is reached twice and only
the second time from the memo, a cycle below a derivation that is not on it, and
three waves.  Two workers let one be lost while the other waits, two tests let one
pass while the other fails or is new.  In `RemoteBuilders` the ticks keep the order
of the real limits (discovery 5 < hold 30 < worker 40 < coordinator 45 minutes).
The planner's five checks reach the tight instances of Graham's bound on two shards
(weights 3,3,2,2,2), and the enumeration of all assignments gives the true optimum.
A proof of omission in `CargoImpact` needs at most a shared file, its companion and
one source file.  In `TestRunner` three steps let the middle one be skipped and the
last refer to it.  The bounds `MaxAttempt` and `MaxRuns` are guards of `Rerun` and
`Begin`; the safety proofs hold for every value of them.

**Fairness.**

* `FlakeMatrix`, `SemanticCi` and (`CacheFairness`) `SuiteCache`: weak fairness of
  the steps of each job and of skipping: GitHub schedules a job whose needs allow it
  and every job has a time limit, so a step ends one way or another.  None for
  cancellation, eviction, lost runners and re-runs.
* `RemoteBuilders`: weak fairness of starting jobs, of the loops in `hold` and
  `stop`, of enforcing time limits, of the acceptance job and of time.  **None**
  for setting up a machine, a successful probe, or the build: those may hang, and
  only the limits end them.
* `RunConcurrency`: GitHub carries on every active run; nobody has to trigger one.

`CHECK_DEADLOCK FALSE` is set where the system ends: a run after its last attempt, a
planner that returned.  `matrix`, `plan_job` and `test_runner` check for deadlock:
in the first the cache can always change, the other two stutter once they have
returned, so what is excluded is a planner stuck half way (`min()` of no shards, a
search that never ends) or a test that neither continues nor ends.

Type invariants are proved, not run; `SuiteCache`, `RunConcurrency` and `CargoImpact`
keep their types in the inductive invariants of their proofs.

Every property has a mutant in `PROJECT.json`: a changed definition, as a
plausible bug would have it, under which TLC finds the property violated.
Mutants stand next to the definitions they change, named `...Mutant`.

## 4. Proofs

All proofs are for arbitrary sets and bounds, from the named assumptions only:

| Module | Assumptions | Inductive invariant |
|---|---|---|
| `FlakeMatrixProofs` | `PlansAssumption` (shards hold the plan's checks, digests identify plans: `validate_plan`), `AttemptAssumption`, `JobsDistinct`, `NoneAssumption` (no evidence is not evidence) | `TypeOK`, `PlanFirst`, `ResultLast`, `EvidenceTruthful`, `GateSound`, `SharedOutputsLocal`; above it `EvidenceInv`: `PlanOpens`, `PrebuildCurrent`, `ShardCurrent`, `NewestEvidence` |
| `PlanJobProofs`, planner | `InventoryAssumption` (finite, not empty), `ConfigurationAssumption` (the schema of the hints) | `TypeOK`, `Counted`, `Solo`, `Shared`, `Idle`, `Keyed`, `IsolatedFound`, `RestFound`, `Apart`, `Whole`, `Balanced`; `ErrorReason` by itself; above it `QualityInv`: `Enough`, `Unvisited`, `Weighed`, `Carried`, `Descending`, `GrahamBound` |
| `RemoteBuildersProofs` | `TimesAssumption` (limits are positive) | `TypeOK`, `HostsKnown`, `FullPool`, `Punctual`, `Settled` |
| `PlanJobProofs`, graph | those of the planner, `GraphsAssumption` (only the types of a graph) | that of the planner through the refinement; `GraphTyped`, `MemoClosed`, `StackIsPath`, `CycleFound`, `AllAsked`; above it `WaveInv` with `WaveIsDepth` |
| `StagedDagProofs` | `PlansAssumption`, `InputsAssumption` (inputs are transitive and without a cycle, as the search leaves them), `AttemptAssumption`, `JobsDistinct`, `NoneAssumption` | `TypeOK`, `PlanFirst`, `JoinLast`, `SharedCurrent`, `LeafReady`, `JoinReady` |
| `RemoteRunProofs` | `PlansAssumption` (a plan has a check), `NamesAssumption` (names of jobs differ) | `TypeOK`, `PlanFirst`, `AcceptanceLast`, `PoolJoined`, `HandedOver`, `EvidenceTruthful` |
| `SemanticCiProofs` | `DeclarationsAssumption` (the types of a declaration), `CachesAssumption`, `EntriesDistinct` (a suite's name is no other kind of entry) | `TypeOK`, `Rendered`, `GateLast`, `PlannerAnswered`, `CancelStops`, `Ordered`, `StartsAfterNeeds`, `GateSound`; with the cache also `CacheTypes`, `EntryStays` |
| `TestRunnerProofs` | `ValuesDistinct` (texts, objects and numbers differ; an object may spell any predicate), `DeclarationsAssumption` (the shape of a declaration) | `TypeOK`, `Accepted` or `Untouched`, `Ahead`, `Behind`, `Recorded`, `PassSound`, `AllReported` |
| `TriggerProofs`, impact planner | `ChangesAssumption` (the types of a pull request), `MetadataAssumption` (what makes `cargo` or `git show` fail) | `ImpactInv`: `Accounted`, `Traversed`, `Concluded` |
| `TriggerProofs`, callers | `EventsAssumption` | `RunInv`: `RunsTyped`, `OnePerPullRequest`, `RemotePushKept`; above it `CancelledByRival` |

*The matrix gate.*  `GateSound` is not inductive: that `Verify` holds says
something about artifacts, not about what was built.  `EvidenceTruthful` closes
the gap (evidence in an artifact or still on its machine names only derivations
that exist in `built`, whichever plan it was made for, because `AllRealised`
compares the realised derivations with those of the plan the digest names).
`PlanFirst` and `ResultLast` fix the order of jobs: nothing replaces the plan
artifact while the result job judges, and nothing runs after it concluded, so a
green verdict stays true until a re-run opens it again.  `SharedOutputsLocal`
follows because the check of local completeness and the start of the build are
consecutive steps of one machine.  `MatrixImplementsGate` then maps every step to
a step of `ExactHeadGate` or to a stutter: plan uploads to `Evaluate`, builds to
`Build`, the result job to `Accept` or `Reject`, a re-run to `Reopen`.

`NewestEvidence`, `NoFalseRed` and `ArchiveComplete` are about attempts, and rest
on a second layer, `EvidenceInv`, above that invariant.  A job that is at work, or has
succeeded under the plan in force, has left evidence of that plan and of its own
last start (`ShardCurrent`, `PrebuildCurrent`).  The difficult step is the plan job's:
it replaces the plan under which all of this was said, so `PlanOpens` keeps every
other job waiting until it has concluded.  A partial re-run that leaves a shard's
success alone leaves its evidence alone as well, hence no pass of an older attempt
is ever counted for a shard that has run since.

*The planner.*  A check is always in exactly one place: still to be visited, in
its unit, or in a shard (`IsolatedFound`, `RestFound`, `Apart`).  The first
shards are for isolated checks and the others for units (`Solo`, `Shared`), and
`Counted` ties the number of reserved shards to the cardinality of the isolated
checks, which is what makes `zip` lose none.  A unit moves as a whole (`Whole`),
whence affinity.  `Balanced` (no shard outweighs another by more than the last unit
it received; theorem `GreedyBalance`) is kept because a unit always goes to the
lightest shard.

`GreedyWithinGraham` is the bound of longest-processing-time-first: on `m` shards for
units the slowest one takes at most 4/3 - 1/(3m) of the optimum.  `QualityInv` says
that a unit weighs the sum of its checks (`Weighed`), a shard the sum of its units
(`Carried`), and that units come in the order of their weights (`Descending`).  When
the next unit is placed on the lightest shard (`GrahamStep`) there are two cases.  A unit
of at most a third of the optimum is added to a shard that is not above the average of
what was placed (`LightUnit`).  A heavier one still fits the
optimum (`HeavyUnit`), by counting tokens: if it did not, give two tokens to every unit
that cannot share a shard with it and one to each of the others.  Every shard holds two
already, and the new unit brings more, but no shard of the best assignment can hold more
than two.  The sums of
the library are recursive, so no fact about them comes for free: a table of the sums of all
subsets of a finite set exists (`SumsExist`) and is unique (`SumsAgree`), both by a least
counterexample among the subsets (`LeastSet`), and gives `SumUnfolds`, from which
follow the laws used above (`SumAdd`, `SumPart`, `SumOfParts`, `SumBounds`).

`RejectsNothingElse` is the converse of soundness: `make_plan` raises only for a
conflict in the hints or too few shards (`ErrorReason`), and with too few shards any
assignment that isolates what must be isolated would map more checks than there are
shards injectively (`NeedsShards`, the pigeonhole principle).

*The pool.*  `HostsKnown`: who is ready is in `hosts.json`, and the loop of
`stop` visits all of it.  `Punctual`: a completion file that appears after the
worker's deadline is never obeyed.  `Settled`: the acceptance job looks at jobs
that have ended.

*The derivation graph.*  The calls in progress form a path (`StackIsPath`), so a node met
twice on it is its own ancestor (`CycleFound`).  A memo is closed: it holds the
memos of what it names (`MemoClosed`), hence all ancestors, which are the least closed
set, and nothing else.  A memo is only stored when no call is pending for its
dependencies, which excludes that its node is among them.  `AllAsked` carries this to
the end of the search: every check was asked for.  `SearchExact` covers every graph,
cyclic ones included.  That the job implements `CheckPlanner` gives
`JobPlanIsPartition` for the plan that is fanned out.

The waves: a finished check lies one above one of its dependencies and above all
of them (`WaveIsDepth`), and is never finished before them.  Along a chain waves
strictly increase, which bounds its length (`ChainsBounded`); stepping from a check
to the dependency just below it, again and again, builds a chain of exactly that
length (`ChainExists`: a counterexample of least wave has a dependency of lower wave
that is none).  A check of least wave depends on no other, so there is a leaf below
every delayed check (`SomeInitial`).

*The staged gate.*  What is new compared with the matrix is the hand-over.  An archive
leaves out what the shared job found in the cache, so `SharedCurrent` says that the
list of those outputs is that of the plan in force, `LeafReady` that a leaf hands
over exactly what its evidence names, and has realised it, and `JoinReady` follows the
join from the restored store over the imported archives to its own builds;
`HandoverComplete` is their consequence before the import.  Nothing is assumed of
restored stores but that they are closed under references: the trusted store below the
shared outputs may hold outputs of checks.  `BuiltOnce` is therefore "at most once"
and rests on the lemma `LeafOwns`: the partition assigns a check to one leaf or to the
join, a leaf runs builders only for what it was assigned (and its inputs), and the join
for nothing that a leaf handed over.

*The remote gate.*  `PoolJoined` is the heart: while the coordinator is at work
on a pool, every host it found carries the attempt of the coordinator's own start,
because host names do and discovery insists on all of them.  `PoolOfOneAttempt`
follows.  `HandedOver` ties the files of the coordinator to the plan artifact
from which it started, step by step, up to the closure that test jobs import.

*The semantic gate.*  GitHub decides whether a suite starts from the results of
its needs alone.  `Ordered` (a suite that left "waiting" has its chain
concluded, and a skipped one had a reason: it was not selected, out of scope, or
below one that did not succeed) turns that into a statement about the whole chain.
`NoFalseRed` takes a suite that was skipped without an excuse and is minimal in
the needs; `Acyclic`, which evaluation checked, provides it, and its needs then
contradict the skip.
With the cache, `EntryStays` is added.  While the writer, having found nothing, is at
work, there is no entry, because no other suite may save; and as long as nothing was
evicted and no save was lost, the entry that some suite saw, or that the writer left,
is still the same.  Everything above a suite that starts has succeeded
(`UpstreamSucceeded`), so the writer is done before its dependents restore:
`WriterServesDependents`.  Were others allowed to save, the first half would fail, which is
what its mutant shows.  `CacheKeepsGate` says that the properties of the gate hold with
the cache as well.

*The impact planner.*  What git names is either still to be accounted for or has
been explained by manifests that changed too (`Accounted`): that is all the three
narrowing proofs may claim, and `MetadataAssumption` is used where a rename would
break it.  `Traversed` makes the worklist of `cargo_closure` a search: what was
reached is closed under dependents except through pending crates, and each crate
reached depends on a changed one.  With nothing pending the first half gives
`NothingOmitted` and `PackagesComplete`, the second `NothingElseSelected`.  `DependsOn` in
the properties is stated by closed sets and owes nothing to the worklist.

*The callers.*  Of two runs for one pull request under one workflow name the later
cancels the earlier when it begins, because both hold the caller's group; no other step
makes a run active (`RunInv`).  From there a run of a pull request can lose the group of
the called workflow only to a run of another event: whoever asks for it in the name of the
same pull request would be a second active run.  In the matrix workflow the group names
the pull request, which leaves nobody; the staged one names only a branch, which leaves
the `Namesake`s of finding 2.  `OnlyRivals` says this of all names (the generator does not
compare them) and all branches.  `RemotePushesKept` shows that finding 3 does not concern the
trusted caller.

*The test runner.*  A cursor separates steps that are done from those to come:
`Ahead` (they have left no trace), `Behind` (each was launched or could not be,
and its expectations could be decided), `Recorded` (the failures kept are those of
the steps done, and no others).  The
lemma `VerdictMeans` reads the verdict of an expectation back into the predicate, the
one an observed object spells included: objects are not restricted, and what compare()
makes of each (`Reads`) is arbitrary.
References need the accepted declaration: those of a step behind name earlier
steps only, so later observations cannot change what they resolved to.

*Termination.*  The prover has no rules for fairness, but what liveness rests on needs
none: that something may go on as long as nothing is decided, and that every step leaves
less to be done.  `PlannerNeverStuck` and `PlannerTerminates` say so of `make_plan`
(of units that wait one is heaviest, of shards one is lightest, and a unit always finds a
shard because `Resolve` refused everything else).  `AnalysisTerminates` bounds the
recursion of `ancestors` by twice the number of derivations that are not finished less
the calls in progress, and `WavesNeverStuck` shows that the second search cannot meet a
cycle: dependency between checks is transitive and irreflexive, so of the checks
that wait one with the fewest dependencies is ready.  In the workflows
(`RunNeverStuck`, `AttemptTerminates`, for `FlakeMatrix` and `SemanticCi`) a job that
waits has needs that have all concluded, or one of those waits in its place; `Acyclic`
provides the first.  `NeverOrphaned` is the step of `NoOrphan`: the deadline of
`hold` runs down together with GitHub's and stays ahead of it, and `PoolTerminates` says that
everything in a run of the pool is used up.  `CargoPlannerTerminates` is the same for
`cargo_closure`.

**Only model-checked**: that what may go on does, which is liveness under the
stated fairness (`EveryAttemptDecided`, `EveryRunDecided`, `NoOrphan`, `Decided`,
`EveryRunEnds`).

## 5. Findings

1. **A push does not always run the whole suite** (`semantic_push`).  The impact
   job is skipped on pushes (`lib/render-github-workflow.nix:265`).  An annotated
   job overrides that by `always()`; an unannotated job below it has the implicit
   `success()` over the chain of needs, which contains the skipped job.  It is
   skipped, and the gate fails.  README.md:299-300 promises the complete suite.
2. **Pull requests can cancel one another** (`push_cancelled`).  The group of the staged
   workflow, the default of a pull request caller (`lib/mk-flake-ci-workflows.nix:23`), is
   the bare `github.head_ref` (`flake-dag-staged.yml:21`): two forks, or one branch
   against two bases, share it.  docs/ci-usage-first.md:59-60 says that different pull
   requests retain separate groups (`PullRequestsSeparate`).
3. **A push can be cancelled** (`push_cancelled`).  The caller gives pushes a group
   of their own, but the called workflow has a second group per ref with
   `cancel-in-progress` (`flake-checks.yml:22`).
   `lib/mk-flake-ci-workflow.nix:181-182` says that cannot happen (`PushNeverCancelled`).
   One behaviour shows findings 2 and 3, hence the disjunction `SomePromiseKept`.
4. **Renames hide the place a file left** (`cargo_rename`).
   `git diff --name-only` (`lib/cargo-impact.py:267`) lists the destination only;
   a shared input moved into a crate or the documentation selects too little.

## 6. Observations

Seen while modelling; the models do what the code does, no run is spent on them.

* `hold()` tests its deadline before it looks at the completion file again
  (`lib/nix-remote-workers.py:187-192`): a release in the last four seconds is
  reported as "coordinator did not release worker before deadline".
* An unannotated suite below an annotated one is skipped on a pull request that
  leaves the latter alone, and the gate is red (`render-github-workflow.nix:303`);
  README.md:293 says unannotated suites keep their behaviour.  (`Blocked`.)
* `saveOnDefaultBranch` without a writer has no effect (`lib/mk-ci.nix:187`), the
  combined cache action of every job saves.
* A cache entry under the exact key is never replaced, so a suite that waits for
  the writer may get an older run's state (README.md:109 speaks of same-run state).
* A bare reference that resolves to a JSON object is read as a set of predicates
  (`lib/test-runner.py:129-133,184-190`).  If an earlier step printed `{"ne": 0}`, an
  expectation that refers to it holds of every other value, and the test passes although
  the two differ; docs/declarative-tests.md:87-89 call a bare value exact.  `Satisfied` has
  the meaning the code gives it, so `PassSound` promises equality for a bare reference only
  where it resolves to something that is not an object.  An object with other keys, like
  a pointer with a key into an array (`:104`), raises `InvalidSpec`: the output
  of the program under test can turn a failing test into an "invalid" one.  In a reference the same pointer is a failure
  (`:72`), because `InvalidSpec` is a `ValueError`.
* `InvalidSpec` in the middle of a test discards the failures recorded before it;
  the docstring (`:5`) says that every applicable failure is retained.
  `AllReported` therefore speaks of verdicts "pass" and "fail".
* Remote backend: host names carry the attempt (`lib/nix-remote-workers.py:42`), and a
  re-run of failed jobs starts the coordinator without the workers that
  succeeded before, or a worker without the coordinator.  Such an attempt cannot
  succeed: the coordinator waits for machines that do not exist, the worker for a
  release that nobody sends.  Only a re-run of all jobs helps.
* Remote backend: test evidence of an earlier plan with more tests makes acceptance
  red in every further attempt, as surplus shards do in the matrix.
* Test evidence names the planned output, while `nix run` evaluates the target again
  (`lib/flake-test-packages.py:166-178`): under drift the two may differ.
* `compare-remote-benchmarks.py:37-38` expects three jobs besides the workers; a run with
  runnable tests has more.
* Maintenance: scoped executables run the children of a group in the order of
  attribute names, the full executable and the index by `order`
  (`lib/render-maintenance.nix:45-59`, `lib/maintenance-index.nix:26`);
  docs/command-scoped-maintenance-closures.md:25-27 wants one definition.
* Maintenance: for a CLI that nothing matches, `resolve_cli_command` answers
  `null<TAB>null` with status 0 (`last` of an empty list), so that `shift null`
  fails before `exec "$implementation_program"` is reached.
* Maintenance: a scoped executable also indexes the ancestors of its paths;
  invoked by such an ancestor it runs the included children only.
* Maintenance: stages of a plain declaration are checked for unknown and for own needs,
  a cycle of two is rendered (`lib/render-maintenance.nix:246`).
* Maintenance: the hook adds whole files again, with hunks the user left unstaged
  (`lib/mk-maintenance-package.nix:301`), and leaves staged files that are missing
  from the work tree as they were staged.
* On a draft the required check is skipped, which branch protection accepts
  (`lib/render-github-workflow.nix:376`).
* After a re-run of all jobs whose plan has fewer shards, the surplus artifact of
  the earlier attempt makes `verify` fail on the count, in every further attempt
  (`lib/flake-check-plan.py:339`).

## 7. Not modelled

* The maintenance command graph and its renderers: a pure evaluation that turns
  attribute sets into shell text.  Its cycle check is the search of
  `DerivationGraph` over other data; the rest is wording.  What was seen while reading
  it is in section 6.
* The git hook: one sequential script whose meaning is that of git's commands.
* The shell text of suites and the pipeline outside GitHub: commands run inside
  `if ( ... )`, where bash ignores errexit (`lib/mk-ci.nix:312`); a model would be one of
  bash.
* `contains`, `matches`, the numeric predicates and sizes of the test runner: they
  compare one observation with one operand, as `eq` and `ne` do.
* The local DAG backend runs the commands of the others in a single job, without
  interleaving of its own.
* The flake check configuration: assembles the attribute set that `make_plan` validates.
* Time in `RemoteRun`, attempts in `RemoteBuilders`: neither depends on the other
  beyond which workers ended how.
* The Nix store cache of rendered jobs, `nixCache`, `restoreKeys`, environment and
  secrets: no job's outcome depends on them.
* `ci.needs` of whole phases, and the needs given to all jobs (`globalNeeds`,
  `lib/mk-ci.nix:340`), are represented by explicit needs of the suites; a declaration that
  names an unknown suite in `pullRequestJobs` is refused and not among those considered.
* Refusals that depend on formats or sizes alone: `prebuildTargets` and cache options of
  the planner (`lib/flake-check-plan.py:60-76,142-144`), more than 100000 derivations
  (`lib/flake-check-dag.py:42`; an empty graph is refused because the checks are missing).
* Reports and packaging: straight-line conversions.

## 8. Plan

Done, with proofs: the matrix run, the planner and the derivation graph, the
staged run, the remote pool and the remote run with its tests, the semantic
workflow with its cache, the test runner, the callers, the impact planner.

Next:

1. `CommandGraph`: reachable maintenance commands against a reference definition, and
   the order of children in full and scoped executables.
2. `GitHook`: index and work tree around the pre-commit hook.
3. `SuiteExec`: verdicts of suites and phases outside GitHub.
