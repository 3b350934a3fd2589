----------------------------- MODULE CargoImpact -----------------------------
(***************************************************************************)
(* The impact planner of generated workflows (lib/cargo-impact.py): which  *)
(* Cargo jobs a pull request has to run, judged from the names of changed  *)
(* files and the workspace's own metadata.  The planner's steps follow one *)
(* another as in run(); what the change really touches is stated apart,    *)
(* from the change itself.                                                 *)
(***************************************************************************)
EXTENDS Naturals, FiniteSets

CONSTANTS
  Crate,     \* crates, now or in the past
  Job,       \* jobs with an impact rule
  Witness,   \* the job of verifiedShardChange
  Changes,   \* the pull requests considered
  Unset      \* packages = null, and the output null

(* A path is a record of its place and file.  The place is a crate, the    *)
(* "workspace" outside the crates ("lock", "root" manifest, other "build"  *)
(* inputs), "docs", or "elsewhere" in the repository ("ci", the file with  *)
(* the declared list, "workflow", the one generated from it, or "other").  *)
Path(dir, file) == [dir |-> dir, file |-> file]
Manifest(c)     == Path(c, "manifest")
Lock            == Path("workspace", "lock")
Root            == Path("workspace", "root")
Mirrored        == {Path("elsewhere", "ci"), Path("elsewhere", "workflow")}

(* A pull request is a record:                                             *)
(*   members, deps   the workspace at its head, <<dependent, dependency>>  *)
(*   edited, moved   files changed in place, and <<old, new>> renames      *)
(*   lock            crates whose lock records differ, or "external"       *)
(*   added, rootRest members added to the root manifest; other edits of it *)
(*   listed, listRest packages that joined or left the declared list;      *)
(*                   other edits of the two mirrored files                 *)
(*   targets         packages of each job, or Unset for the workspace      *)
(*   metadata        git and cargo answer                                  *)
ASSUME ChangesAssumption ==
  /\ Crate \cap {"workspace", "docs", "elsewhere", "external"} = {}
  /\ Witness \in Job
  /\ \A p \in Changes :
       /\ p.members \subseteq Crate /\ p.deps \subseteq p.members \X p.members
       /\ p.lock \subseteq Crate \union {"external"}
       /\ p.added \subseteq p.members
       /\ p.edited \cap Mirrored = {} => p.listed = {}
       /\ Lock \notin p.edited => p.lock = {}
       /\ Root \notin p.edited => p.added = {}
       /\ \A j \in Job : p.targets[j] = Unset \/ p.targets[j] \subseteq Crate
       /\ p.targets[Witness] # Unset
       /\ {p.rootRest, p.listRest, p.metadata} \subseteq BOOLEAN

(* A manifest or lock file that has moved makes cargo fail, and one that   *)
(* has just got its name makes `git show` of its old contents fail.        *)
ASSUME MetadataAssumption ==
  \A p \in Changes : p.metadata =>
    \A m \in p.moved :
      /\ {m[1], m[2]} \cap {Lock, Root} = {}
      /\ m[2] \in Mirrored => ~(Mirrored \subseteq p.edited \union {n[2] : n \in p.moved})

VARIABLES
  pr,        \* the pull request
  pc,        \* the step of run() that comes next
  changed,   \* paths that still have to be accounted for
  affected,  \* crates that cargo_closure has reached
  pending,   \* ... and those whose dependents it has yet to look up
  selected,  \* output "jobs"
  packages   \* output "packages": affected crates, or Unset for "null"

vars == <<pr, pc, changed, affected, pending, selected, packages>>

Init ==
  /\ pr \in Changes
  /\ pc = "diff"
  /\ changed = {} /\ affected = {} /\ pending = {}
  /\ selected = {} /\ packages = {}

(* An error selects every job, and tells them nothing about packages.      *)
Uncertain ==
  /\ pc' = "done" /\ selected' = Job /\ packages' = Unset
  /\ UNCHANGED <<pr, changed, affected, pending>>

Proceed(step, paths) ==
  /\ pc' = step /\ changed' = paths
  /\ UNCHANGED <<pr, affected, pending, selected, packages>>

-----------------------------------------------------------------------------
(* git diff --name-only: a rename is named by its destination.             *)
DiffNames == pr.edited \union {m[2] : m \in pr.moved}

Diff ==
  /\ pc = "diff"
  /\ IF pr.metadata THEN Proceed("lock", DiffNames) ELSE Uncertain

ManifestChanged(c) == c \in pr.members /\ Manifest(c) \in changed

(* Mutant: a new dependency on a known crate is taken for a local record.  *)
LockNarrowMutant == \A c \in pr.lock : c = "external" \/ ManifestChanged(c)

(* workspace_only_lock_changes: every record that differs belongs to a     *)
(* workspace crate whose manifest changed too.                             *)
LockNarrow == \A c \in pr.lock : ManifestChanged(c)

CheckLock ==
  /\ pc = "lock"
  /\ Proceed("root", IF Lock \in changed /\ LockNarrow THEN changed \ {Lock}
                                                       ELSE changed)

(* workspace_member_only_change: members were added with their manifests,  *)
(* nothing else.                                                           *)
RootNarrow == ~pr.rootRest /\ \A c \in pr.added : ManifestChanged(c)

CheckRoot ==
  /\ pc = "root"
  /\ Proceed("list", IF Root \in changed /\ RootNarrow THEN changed \ {Root}
                                                       ELSE changed)

(* verified_generated_shard_edits: both files changed, they differ in the  *)
(* list only, and every package that joined or left it changed.            *)
ListVerified ==
  /\ Mirrored \subseteq changed /\ ~pr.listRest
  /\ \A c \in pr.listed : ManifestChanged(c)

CheckList ==
  /\ pc = "list"
  /\ Proceed("select", IF ListVerified THEN changed \ Mirrored ELSE changed)

(* Paths in no known place, shared inputs of the workspace, and files      *)
(* under crates/ that belong to no member.                                 *)
Unclassified == {f \in changed : f.dir \notin pr.members \union {"docs"}}

ChangedCrates == {c \in pr.members : \E f \in changed : f.dir = c}

Classify ==
  /\ pc = "select"
  /\ IF changed # {} /\ Unclassified = {}
       THEN /\ pc' = "closure"
            /\ affected' = ChangedCrates /\ pending' = ChangedCrates
            /\ UNCHANGED <<pr, changed, selected, packages>>
       ELSE Uncertain

(* cargo_closure: everything that depends on a crate that was reached.     *)
NewDependents(c) == {d \in pr.members : <<d, c>> \in pr.deps} \ affected

(* Mutant: only direct dependents are followed.                            *)
FollowedMutant(c) == pending \ {c}

Followed(c) == (pending \ {c}) \union NewDependents(c)

(* pop() takes them in no particular order.                                *)
Follow ==
  /\ pc = "closure"
  /\ \E c \in pending : pending' = Followed(c) /\ affected' = affected \union NewDependents(c)
  /\ UNCHANGED <<pr, pc, changed, selected, packages>>

TargetsKnown == \A j \in Job : pr.targets[j] # Unset => pr.targets[j] \subseteq pr.members

(* Mutant: a job's own packages are not looked at.                         *)
SelectsMutant(j) == affected # {}

Selects(j) ==
  affected # {} /\ (pr.targets[j] # Unset => pr.targets[j] \cap affected # {})

Select ==
  /\ pc = "closure" /\ pending = {}
  /\ IF TargetsKnown
       THEN /\ pc' = "done"
            /\ selected' = {j \in Job : Selects(j)} /\ packages' = affected
            /\ UNCHANGED <<pr, changed, affected, pending>>
       ELSE Uncertain

Next == Diff \/ CheckLock \/ CheckRoot \/ CheckList \/ Classify \/ Follow \/ Select

Spec == Init /\ [][Next]_vars

-----------------------------------------------------------------------------
(* What the pull request really touches: old and new places of files, and  *)
(* the meaning of the edits to shared files.                               *)

TouchedPaths == pr.edited \union UNION {{m[1], m[2]} : m \in pr.moved}

SharedTouched ==
  \/ \E f \in TouchedPaths :
       /\ f.dir \notin pr.members \union {"docs"}
       /\ f \notin Mirrored \union {Lock, Root}
  \/ Lock \in TouchedPaths /\ "external" \in pr.lock
  \/ Root \in TouchedPaths /\ pr.rootRest
  \/ TouchedPaths \cap Mirrored # {}
       /\ (pr.listRest \/ ~(Mirrored \subseteq TouchedPaths))

TouchedCrates ==
  {c \in pr.members :
     \/ \E f \in TouchedPaths : f.dir = c
     \/ c \in pr.lock \union pr.added
     \/ c \in pr.listed /\ c \in pr.targets[Witness]}

DependsOn(c, d) == \A C \in SUBSET pr.members :
                     c \in C /\ (\A e \in pr.deps : e[1] \in C => e[2] \in C)
                       => d \in C

Affected(j) ==
  \/ SharedTouched
  \/ \E d \in TouchedCrates : pr.targets[j] # Unset =>
       \E c \in pr.targets[j] \cap pr.members : DependsOn(c, d)

-----------------------------------------------------------------------------
(* Properties.                                                             *)

(* No rename takes a file from one place to another.                       *)
NothingLeaves == \A m \in pr.moved : m[1].dir = m[2].dir

(* "No silent omissions": every job that the change can affect is          *)
(* selected, whichever of the narrowing proofs apply.                      *)
NoOmission ==
  pc = "done" /\ NothingLeaves => \A j \in Job : Affected(j) => j \in selected

(* What jobs are told to test covers everything the change touches; only   *)
(* "null" leaves the choice to them.                                       *)
PackagesCover ==
  pc = "done" /\ NothingLeaves /\ packages # Unset =>
    \A c \in pr.members : (\E d \in TouchedCrates : DependsOn(c, d)) => c \in packages

(* Selection pays: a change that is accounted for selects no job whose     *)
(* packages it does not reach.                                             *)
SelectsNothingElse ==
  pc = "done" /\ packages # Unset => \A j \in selected : Affected(j)

(* "toolchain/build-config edits ... select all impacted jobs"             *)
(* (README.md:300-302).                                                    *)
SharedSelectsAll == pc = "done" /\ SharedTouched => selected = Job
=============================================================================
