---------------------------- MODULE RunConcurrency ----------------------------
(***************************************************************************)
(* Which runs of the generated callers (lib/mk-flake-ci-workflow.nix and   *)
(* the pair of lib/mk-flake-ci-workflows.nix) cancel one another.  A run   *)
(* holds the concurrency group of its caller from the moment it is         *)
(* triggered, and that of the called workflow once its job calls it.       *)
(***************************************************************************)
EXTENDS Naturals, Sequences

CONSTANTS
  Caller,     \* the generated caller workflows
  Name,       \* workflow name of each caller
  Backend,    \* backend of each caller: "matrix", "nix-dag" or "nix-remote"
  Events,     \* what may trigger each caller
  MaxRuns     \* bound: runs and re-runs

(* An event is a record: pr, the number of the pull request or 0 for a     *)
(* push or dispatch, branch, the head branch or the branch pushed to, and  *)
(* admitted, whether the `if` of the caller's job holds.                   *)
ASSUME EventsAssumption ==
  /\ \A c \in Caller : \A e \in Events[c] :
       e.pr \in Nat /\ e.admitted \in BOOLEAN
  /\ \A c \in Caller : Backend[c] \in {"matrix", "nix-dag", "nix-remote"}
  /\ MaxRuns \in Nat \ {0}

VARIABLES
  runs,   \* the runs so far, in the order in which they were triggered
  by      \* history: the run that cancelled each run, or 0

runVars == <<runs, by>>

Id     == 1 .. Len(runs)
Active == {"triggered", "called"}

(* No concurrency group.                                                   *)
None == <<>>

(* Mutant: pull request runs get a group per run, like pushes.             *)
CallerGroupMutant(r) == <<"caller", Name[r.caller], "run", r.id>>

(* concurrencyLines: "pr-<number>" or the run id, under the caller's name. *)
CallerGroup(r) ==
  IF r.event.pr # 0 THEN <<"caller", Name[r.caller], "pr", r.event.pr>>
                    ELSE <<"caller", Name[r.caller], "run", r.id>>

(* Mutant: the group of the called workflow is not keyed on the ref.       *)
CalleeGroupMutant(r) ==
  IF Backend[r.caller] = "nix-remote" THEN None
  ELSE <<"callee", Name[r.caller]>>

(* Mutant: the called workflow repeats the caller's group.                 *)
SameGroupMutant(r) == CallerGroup(r)

(* github.workflow is the caller's name.  github.ref is the pull request's *)
(* merge ref, or the branch; github.head_ref is a bare branch name.        *)
CalleeGroup(r) ==
  CASE Backend[r.caller] = "matrix"  ->
         <<"flake-matrix", Name[r.caller],
           IF r.event.pr # 0 THEN <<"pull", r.event.pr>>
                             ELSE <<"heads", r.event.branch>>>>
    [] Backend[r.caller] = "nix-dag" ->
         <<"nix-dag", Name[r.caller], r.event.branch>>
    [] OTHER -> None

Held(r) ==
  (IF r.status \in Active THEN {CallerGroup(r)} ELSE {})
  \union (IF r.status = "called" THEN {CalleeGroup(r)} \ {None} ELSE {})

(* Run n asks for group g with cancel-in-progress: holders of g end.       *)
Victims(g) == {i \in Id : g \in Held(runs[i])}

Cancelling(victims, n) ==
  [i \in Id |-> IF i \in victims THEN [runs[i] EXCEPT !.status = "cancelled"]
                ELSE runs[i]]

CancelledBy(victims, n) == [i \in Id |-> IF i \in victims THEN n ELSE by[i]]

-----------------------------------------------------------------------------
NoRuns == runs = <<>> /\ by = <<>>

(* A run begins.  Only pull request runs cancel the holder of their group; *)
(* the other groups have no second member.                                 *)
Begin(r) ==
  /\ Len(runs) < MaxRuns
  /\ LET n == Len(runs) + 1
         victims == IF r.event.pr # 0 THEN Victims(CallerGroup(r)) ELSE {}
     IN /\ runs' = Append(Cancelling(victims, n), r)
        /\ by' = Append(CancelledBy(victims, n), 0)

Trigger(c, e) ==
  Begin([id |-> Len(runs) + 1, caller |-> c, event |-> e, status |-> "triggered"])

(* A run that has ended is run again under its old id.                     *)
Rerun(i) ==
  /\ runs[i].status \notin Active
  /\ \A k \in Id : k > i => runs[k].id # runs[i].id
  /\ Begin([runs[i] EXCEPT !.status = "triggered"])

(* The job of the caller calls the backend's workflow.                     *)
Call(i) ==
  /\ runs[i].status = "triggered" /\ runs[i].event.admitted
  /\ LET victims == Victims(CalleeGroup(runs[i]))
     IN /\ runs' = [Cancelling(victims, i) EXCEPT ![i].status =
                      IF i \in victims THEN "cancelled" ELSE "called"]
        /\ by' = CancelledBy(victims, i)

(* admission and untrustedExclusion: the caller's job is skipped.          *)
Excluded(i) ==
  /\ runs[i].status = "triggered" /\ ~runs[i].event.admitted
  /\ runs' = [runs EXCEPT ![i].status = "done"]
  /\ UNCHANGED by

Finish(i) ==
  /\ runs[i].status = "called"
  /\ runs' = [runs EXCEPT ![i].status = "done"]
  /\ UNCHANGED by

RunStep ==
  \/ \E c \in Caller : \E e \in Events[c] : Trigger(c, e)
  \/ \E i \in Id : Rerun(i) \/ Call(i) \/ Excluded(i) \/ Finish(i)

RunSpec == NoRuns /\ [][RunStep]_runVars

(* GitHub carries on every run; nothing obliges anybody to trigger one.    *)
Fairness ==
  \A i \in 1 .. MaxRuns : WF_runVars(i \in Id /\ (Call(i) \/ Excluded(i) \/ Finish(i)))

FairRunSpec == RunSpec /\ Fairness

-----------------------------------------------------------------------------
(* Properties.                                                             *)

(* "A run replaces an older in-flight run rather than launching another    *)
(* four-worker cluster": no two active runs of one pull request belong to  *)
(* callers of one workflow name, re-runs included.                         *)
OnePerPullRequest ==
  \A i, k \in Id :
    /\ i # k /\ runs[i].status \in Active /\ runs[k].status \in Active
    /\ runs[i].event.pr # 0 /\ runs[i].event.pr = runs[k].event.pr
    => Name[runs[i].caller] # Name[runs[k].caller]

(* Run k is another event than i under the same name, with its head branch *)
(* or pushed branch called the same: all that the staged group tells apart.*)
Namesake(k, i) ==
  /\ Backend[runs[i].caller] = "nix-dag" /\ Backend[runs[k].caller] = "nix-dag"
  /\ runs[k].event.branch = runs[i].event.branch
  /\ runs[k].event.pr # runs[i].event.pr

(* Who may cancel a pull request's run, over all groups and re-runs: a     *)
(* later run of that pull request, or, where the called workflow is the    *)
(* staged one, a run of another event whose branch has the same name;      *)
(* always under the same workflow name, never the run itself.              *)
OnlyRivalsCancel ==
  \A i \in Id :
    runs[i].event.pr # 0 /\ by[i] # 0 =>
      /\ Name[runs[by[i]].caller] = Name[runs[i].caller]
      /\ \/ by[i] > i /\ runs[by[i]].event.pr = runs[i].event.pr
         \/ Namesake(by[i], i)

(* Every run ends in a result or is cancelled by another run: none waits   *)
(* for, or cancels, itself through its two groups.                         *)
EveryRunEnds ==
  \A i \in 1 .. MaxRuns :
    i \in Id ~> i \in Id /\ (runs[i].status = "done" \/ by[i] \notin {0, i})

(* "Different PRs retain separate groups; trusted and untrusted callers    *)
(* use distinct workflow names so one cannot cancel the other's jobs"      *)
(* (docs/ci-usage-first.md:59-60): a pull request's run is cancelled only  *)
(* by a later run of the same caller for the same pull request.            *)
PullRequestsSeparate ==
  \A i \in Id :
    runs[i].event.pr # 0 /\ by[i] # 0 =>
      /\ by[i] > i
      /\ runs[by[i]].caller = runs[i].caller
      /\ runs[by[i]].event.pr = runs[i].event.pr

(* "Push/dispatch events use their unique run_id so protected-branch       *)
(* builds are never implicitly serialized or canceled"                     *)
(* (lib/mk-flake-ci-workflow.nix:181-182).                                 *)
PushNeverCancelled == \A i \in Id : runs[i].event.pr = 0 => by[i] = 0

(* Neither promise is kept: this says that one of the two always is, so    *)
(* that a single behaviour that violates it breaks both.                   *)
SomePromiseKept == PullRequestsSeparate \/ PushNeverCancelled
=============================================================================
