----------------------------- MODULE TriggerProofs -----------------------------
(***************************************************************************)
(* What a push or a pull request sets off.  First, which Cargo jobs of a   *)
(* run are selected: for every workspace, every dependency graph of its    *)
(* crates and every pull request, the planner omits no job the change can  *)
(* affect, selects none that it cannot, and comes to an end.               *)
(* Second, which runs of the generated callers cancel one another.         *)
(***************************************************************************)
EXTENDS CargoImpact, RunConcurrency, TLAPS

(* Members whose manifests git names.                                      *)
Named == {c \in pr.members : Manifest(c) \in DiffNames}

(* A changed path that no longer has to be accounted for is a shared file  *)
(* whose edit says no more than manifests that changed as well.            *)
Explained(f) ==
  \/ f = Lock /\ pr.lock \subseteq Named
  \/ f = Root /\ ~pr.rootRest /\ pr.added \subseteq Named
  \/ /\ f \in Mirrored /\ Mirrored \subseteq DiffNames
     /\ ~pr.listRest /\ pr.listed \subseteq Named

Accounted ==
  /\ pr.metadata
  /\ changed \subseteq DiffNames
  /\ \A f \in DiffNames \ changed : Explained(f)

(* The crates reached are closed under dependents, except through those    *)
(* still pending, and each of them depends on a changed one.               *)
Traversed ==
  /\ pending \subseteq affected /\ affected \subseteq pr.members
  /\ ChangedCrates \subseteq affected
  /\ \A c \in affected \ pending : NewDependents(c) = {}
  /\ \A c \in affected : \E d \in ChangedCrates : DependsOn(c, d)

(* A selection that is not the fallback comes from a finished traversal.   *)
Concluded ==
  \/ selected = Job /\ packages = Unset
  \/ /\ Accounted /\ Unclassified = {}
     /\ Traversed /\ pending = {}
     /\ packages = affected /\ selected = {j \in Job : Selects(j)}

ImpactInv ==
  /\ pr \in Changes
  /\ pc \in {"diff", "lock", "root", "list", "select", "closure", "done"}
  /\ pc \notin {"diff", "done"} => Accounted
  /\ pc = "closure" => Unclassified = {} /\ Traversed
  /\ pc = "done" => Concluded

-----------------------------------------------------------------------------
(* Places.                                                                 *)

LEMMA Places ==
  ASSUME NEW p \in Changes
  PROVE  /\ Lock.dir \notin p.members \union {"docs"}
         /\ Root.dir \notin p.members \union {"docs"}
         /\ \A f \in Mirrored : f.dir \notin p.members \union {"docs"}
         /\ \A c \in p.members : /\ Manifest(c) \notin Mirrored \union {Lock, Root}
                                 /\ Manifest(c).dir = c
<1>1. p.members \subseteq Crate
  BY ChangesAssumption
<1>2. "workspace" \notin p.members /\ "elsewhere" \notin p.members
  BY <1>1, ChangesAssumption
<1>3. Lock.dir = "workspace" /\ Root.dir = "workspace"
  BY DEF Lock, Root, Path
<1>4. \A f \in Mirrored : f.dir = "elsewhere"
  BY DEF Mirrored, Path
<1>5. \A c : Manifest(c).dir = c
  BY DEF Manifest, Path
<1>6. ASSUME NEW c \in p.members PROVE Manifest(c) \notin Mirrored \union {Lock, Root}
  BY <1>2, <1>3, <1>4, <1>5
<1> QED
  BY <1>2, <1>3, <1>4, <1>5, <1>6

(* Manifests of members are never taken out of `changed`.                  *)
LEMMA ManifestsKept ==
  ASSUME pr \in Changes, Accounted, NEW c
  PROVE  ManifestChanged(c) <=> c \in Named
<1>1. ASSUME c \in pr.members, Manifest(c) \in DiffNames PROVE Manifest(c) \in changed
  <2>1. Manifest(c) \notin Mirrored \union {Lock, Root}
    BY <1>1, Places
  <2> QED
    BY <1>1, <2>1 DEF Accounted, Explained
<1> QED
  BY <1>1 DEF ManifestChanged, Named, Accounted

-----------------------------------------------------------------------------
(* Dependency between crates.                                              *)

LEMMA DependsOnItself == ASSUME NEW c PROVE DependsOn(c, c)
  BY DEF DependsOn

LEMMA DependsOnMore ==
  ASSUME NEW c \in pr.members, NEW d, <<c, d>> \in pr.deps,
         NEW e, DependsOn(d, e)
  PROVE  DependsOn(c, e)
<1> SUFFICES ASSUME NEW C \in SUBSET pr.members, c \in C,
                    \A x \in pr.deps : x[1] \in C => x[2] \in C
             PROVE  e \in C
  BY DEF DependsOn
<1>1. d \in C
  <2>1. <<c, d>>[1] = c /\ <<c, d>>[2] = d
    OBVIOUS
  <2> QED
    BY <2>1
<1> QED
  BY <1>1 DEF DependsOn

(* What is closed under dependents holds all that depends on a member.     *)
LEMMA ClosedUnderDependents ==
  ASSUME pr \in Changes, Traversed, pending = {}, NEW c \in pr.members,
         NEW d \in affected, DependsOn(c, d)
  PROVE  c \in affected
<1> SUFFICES ASSUME c \notin affected PROVE FALSE
  OBVIOUS
<1> DEFINE C == pr.members \ affected
<1>1. C \in SUBSET pr.members /\ c \in C
  OBVIOUS
<1>2. ASSUME NEW x \in pr.deps, x[1] \in C PROVE x[2] \in C
  <2>1. x \in pr.members \X pr.members
    BY ChangesAssumption
  <2>2. x[2] \in pr.members /\ x = <<x[1], x[2]>>
    BY <2>1
  <2>3. x[2] \notin affected
    <3> SUFFICES ASSUME x[2] \in affected PROVE FALSE
      OBVIOUS
    <3>1. NewDependents(x[2]) = {}
      BY DEF Traversed
    <3>2. <<x[1], x[2]>> \in pr.deps
      BY <2>2
    <3> QED
      BY <1>2, <3>1, <3>2 DEF NewDependents
  <2> QED
    BY <2>2, <2>3
<1>3. d \in C
  BY <1>1, <1>2 DEF DependsOn
<1> QED
  BY <1>3

-----------------------------------------------------------------------------
(* The steps of run().                                                     *)

LEMMA NarrowingStep ==
  ASSUME ImpactInv, Accounted, NEW gone, \A f \in gone : Explained(f),
         NEW step \in {"root", "list", "select"}, Proceed(step, changed \ gone)
  PROVE  ImpactInv'
<1>1. /\ UNCHANGED <<pr, affected, pending, selected, packages>>
      /\ changed' = changed \ gone /\ pc' = step
  BY DEF Proceed
<1>2. /\ DiffNames' = DiffNames
      /\ \A f : Explained(f)' = Explained(f)
  BY <1>1 DEF DiffNames, Explained, Named
<1>3. Accounted'
  BY <1>1, <1>2 DEF Accounted
<1> QED
  BY <1>1, <1>3 DEF ImpactInv

LEMMA DiffStep == ASSUME ImpactInv, Diff PROVE ImpactInv'
<1>1. CASE pr.metadata
  <2>1. /\ pc' = "lock" /\ changed' = DiffNames /\ UNCHANGED pr
    BY <1>1 DEF Diff, Proceed
  <2>2. DiffNames' = DiffNames
    BY <2>1 DEF DiffNames
  <2>3. Accounted'
    BY <1>1, <2>1, <2>2 DEF Accounted
  <2> QED
    BY <2>1, <2>3 DEF ImpactInv
<1>2. CASE ~pr.metadata
  BY <1>2 DEF Diff, Uncertain, ImpactInv, Concluded
<1> QED
  BY <1>1, <1>2

LEMMA LockStep == ASSUME ImpactInv, CheckLock PROVE ImpactInv'
<1>1. Accounted /\ pr \in Changes
  BY DEF CheckLock, ImpactInv
<1>2. CASE Lock \in changed /\ LockNarrow
  <2>1. Explained(Lock)
    BY <1>1, <1>2, ManifestsKept DEF LockNarrow, Explained
  <2> QED
    BY <1>1, <1>2, <2>1, NarrowingStep DEF CheckLock
<1>3. CASE ~(Lock \in changed /\ LockNarrow)
  BY <1>1, <1>3, NarrowingStep DEF CheckLock
<1> QED
  BY <1>2, <1>3

LEMMA RootStep == ASSUME ImpactInv, CheckRoot PROVE ImpactInv'
<1>1. Accounted /\ pr \in Changes
  BY DEF CheckRoot, ImpactInv
<1>2. CASE Root \in changed /\ RootNarrow
  <2>1. Explained(Root)
    BY <1>1, <1>2, ManifestsKept DEF RootNarrow, Explained
  <2> QED
    BY <1>1, <1>2, <2>1, NarrowingStep DEF CheckRoot
<1>3. CASE ~(Root \in changed /\ RootNarrow)
  BY <1>1, <1>3, NarrowingStep DEF CheckRoot
<1> QED
  BY <1>2, <1>3

LEMMA ListStep == ASSUME ImpactInv, CheckList PROVE ImpactInv'
<1>1. Accounted /\ pr \in Changes
  BY DEF CheckList, ImpactInv
<1>2. CASE ListVerified
  <2>1. \A f \in Mirrored : Explained(f)
    BY <1>1, <1>2, ManifestsKept DEF ListVerified, Explained, Accounted
  <2> QED
    BY <1>1, <1>2, <2>1, NarrowingStep DEF CheckList
<1>3. CASE ~ListVerified
  BY <1>1, <1>3, NarrowingStep DEF CheckList
<1> QED
  BY <1>2, <1>3

(* Nothing of these depends on how far the traversal has come.             *)
LEMMA SameChange ==
  ASSUME UNCHANGED <<pr, changed>>
  PROVE  /\ Accounted' = Accounted /\ Unclassified' = Unclassified
         /\ ChangedCrates' = ChangedCrates
         /\ \A c, d : DependsOn(c, d)' = DependsOn(c, d)
BY DEF Accounted, Explained, Named, DiffNames, Unclassified, ChangedCrates, DependsOn

LEMMA ClassifyStep == ASSUME ImpactInv, Classify PROVE ImpactInv'
<1>1. UNCHANGED <<pr, changed>> /\ Accounted /\ pr \in Changes
  BY DEF Classify, Uncertain, ImpactInv
<1>2. CASE changed # {} /\ Unclassified = {}
  <2>1. pc' = "closure" /\ affected' = ChangedCrates /\ pending' = ChangedCrates
    BY <1>2 DEF Classify
  <2>2. Traversed'
    BY <1>1, <2>1, SameChange, DependsOnItself DEF Traversed, ChangedCrates
  <2> QED
    BY <1>1, <1>2, <2>1, <2>2, SameChange DEF ImpactInv
<1>3. CASE ~(changed # {} /\ Unclassified = {})
  BY <1>1, <1>3 DEF Classify, Uncertain, ImpactInv, Concluded
<1> QED
  BY <1>2, <1>3

LEMMA FollowStep == ASSUME ImpactInv, Follow PROVE ImpactInv'
<1>1. PICK c \in pending : /\ pending' = Followed(c)
                           /\ affected' = affected \union NewDependents(c)
  BY DEF Follow
<1>2. /\ UNCHANGED <<pr, pc, changed, selected, packages>> /\ pc = "closure"
      /\ Traversed /\ Accounted /\ Unclassified = {} /\ pr \in Changes
  BY DEF Follow, ImpactInv
<1>3. NewDependents(c) \subseteq pr.members /\ c \in affected
  BY <1>1, <1>2 DEF NewDependents, Traversed
<1>4. Traversed'
  <2>1. pending' \subseteq affected' /\ affected' \subseteq pr'.members
    BY <1>1, <1>2, <1>3 DEF Traversed, Followed
  <2>2. ChangedCrates' \subseteq affected'
    BY <1>1, <1>2, SameChange DEF Traversed
  <2>3. ASSUME NEW e \in affected' \ pending' PROVE NewDependents(e)' = {}
    <3>1. e = c \/ e \in affected \ pending
      BY <1>1, <2>3 DEF Followed
    <3>2. NewDependents(e) \subseteq NewDependents(c)
      BY <1>2, <3>1 DEF Traversed
    <3>3. \A d \in pr.members : <<d, e>> \in pr.deps => d \in affected'
      BY <1>1, <3>2 DEF NewDependents
    <3> QED
      BY <1>2, <3>3 DEF NewDependents
  <2>4. ASSUME NEW e \in affected' PROVE \E d \in ChangedCrates : DependsOn(e, d)
    <3>1. CASE e \in affected
      BY <1>2, <3>1 DEF Traversed
    <3>2. CASE e \in NewDependents(c)
      <4>1. PICK d \in ChangedCrates : DependsOn(c, d)
        BY <1>2, <1>3 DEF Traversed
      <4>2. e \in pr.members /\ <<e, c>> \in pr.deps
        BY <3>2 DEF NewDependents
      <4> QED
        BY <4>1, <4>2, DependsOnMore
    <3> QED
      BY <1>1, <2>4, <3>1, <3>2
  <2>5. \A e \in affected' : \E d \in ChangedCrates' : DependsOn(e, d)'
    BY <1>2, <2>4, SameChange
  <2> QED
    BY <2>1, <2>2, <2>3, <2>5 DEF Traversed
<1> QED
  BY <1>2, <1>4, SameChange DEF ImpactInv

LEMMA SelectStep == ASSUME ImpactInv, Select PROVE ImpactInv'
<1>1. /\ UNCHANGED <<pr, changed, affected, pending>> /\ pending = {}
      /\ Traversed /\ Accounted /\ Unclassified = {} /\ pr \in Changes /\ pc' = "done"
  BY DEF Select, Uncertain, ImpactInv
<1>2. CASE TargetsKnown
  <2>1. selected' = {j \in Job : Selects(j)} /\ packages' = affected
    BY <1>2 DEF Select
  <2>2. \A j : Selects(j)' = Selects(j)
    BY <1>1 DEF Selects
  <2>3. Traversed'
    BY <1>1, SameChange DEF Traversed, NewDependents
  <2> QED
    BY <1>1, <2>1, <2>2, <2>3, SameChange DEF ImpactInv, Concluded
<1>3. CASE ~TargetsKnown
  BY <1>1, <1>3 DEF Select, Uncertain, ImpactInv, Concluded
<1> QED
  BY <1>2, <1>3

LEMMA ImpactStutter == ASSUME ImpactInv, UNCHANGED vars PROVE ImpactInv'
<1>1. UNCHANGED <<pr, pc, changed, affected, pending, selected, packages>>
  BY DEF vars
<1> QED
  BY <1>1, SameChange DEF ImpactInv, Concluded, Traversed, NewDependents, Selects

LEMMA ImpactInvariance == Spec => []ImpactInv
<1>1. Init => ImpactInv
  BY DEF Init, ImpactInv
<1>2. ImpactInv /\ [Next]_vars => ImpactInv'
  BY DiffStep, LockStep, RootStep, ListStep, ClassifyStep, FollowStep, SelectStep,
     ImpactStutter DEF Next
<1> QED
  BY <1>1, <1>2, PTL DEF Spec

-----------------------------------------------------------------------------
(* From the change to the crates.                                          *)

(* A crate named by git was touched, and nothing taken out was a crate's.  *)
LEMMA ChangedTouched ==
  ASSUME Accounted
  PROVE  ChangedCrates \subseteq TouchedCrates
BY DEF Accounted, ChangedCrates, TouchedCrates, TouchedPaths, DiffNames

(* Where no rename leaves its place, git names a file of every place that  *)
(* was touched.                                                            *)
LEMMA PlaceNamed ==
  ASSUME NothingLeaves, NEW f \in TouchedPaths
  PROVE  \/ f \in DiffNames
         \/ \E m \in pr.moved : m[1] = f /\ m[2] \in DiffNames /\ m[2].dir = f.dir
BY DEF NothingLeaves, TouchedPaths, DiffNames

(* A path outside the crates that has been accounted for is explained; a   *)
(* file that was moved there never is.                                     *)
LEMMA OutsideExplained ==
  ASSUME pr \in Changes, Accounted, Unclassified = {}, NEW f \in DiffNames,
         f.dir \notin pr.members \union {"docs"}
  PROVE  /\ Explained(f)
         /\ \A m \in pr.moved : m[2] # f
<1>1. Explained(f)
  BY DEF Unclassified, Accounted
<1>2. ASSUME NEW m \in pr.moved, m[2] = f PROVE FALSE
  <2>1. /\ m[2] \notin {Lock, Root}
        /\ m[2] \in Mirrored => ~(Mirrored \subseteq DiffNames)
    BY MetadataAssumption DEF Accounted, DiffNames
  <2> QED
    BY <1>1, <1>2, <2>1 DEF Explained
<1> QED
  BY <1>1, <1>2

(* The narrowing proofs explain no change to what the jobs share.          *)
LEMMA NothingShared ==
  ASSUME pr \in Changes, Accounted, Unclassified = {}, NothingLeaves
  PROVE  ~SharedTouched
<1>1. ASSUME NEW f \in TouchedPaths, f.dir \notin pr.members \union {"docs"}
      PROVE  f \in DiffNames /\ Explained(f)
  BY <1>1, PlaceNamed, OutsideExplained
<1>2. ASSUME NEW f \in TouchedPaths, f.dir \notin pr.members \union {"docs"},
             f \notin Mirrored \union {Lock, Root}
      PROVE  FALSE
  BY <1>1, <1>2 DEF Explained
<1>3. /\ Lock # Root /\ Lock \notin Mirrored /\ Root \notin Mirrored
  BY DEF Lock, Root, Mirrored, Path
<1>4. ~(Lock \in TouchedPaths /\ "external" \in pr.lock)
  <2> SUFFICES ASSUME Lock \in TouchedPaths, "external" \in pr.lock PROVE FALSE
    OBVIOUS
  <2>1. Explained(Lock)
    BY <1>1, Places
  <2>2. "external" \in pr.members
    BY <1>3, <2>1 DEF Explained, Named
  <2> QED
    BY <2>2, ChangesAssumption
<1>5. ~(Root \in TouchedPaths /\ pr.rootRest)
  BY <1>1, <1>3, Places DEF Explained
<1>6. ASSUME NEW f \in TouchedPaths, f \in Mirrored,
             pr.listRest \/ ~(Mirrored \subseteq TouchedPaths)
      PROVE  FALSE
  <2>1. Explained(f)
    BY <1>1, <1>6, Places
  <2>2. ~pr.listRest /\ Mirrored \subseteq DiffNames
    BY <1>3, <1>6, <2>1 DEF Explained
  <2>3. DiffNames \subseteq TouchedPaths
    BY DEF DiffNames, TouchedPaths
  <2> QED
    BY <1>6, <2>2, <2>3
<1> QED
  BY <1>2, <1>4, <1>5, <1>6 DEF SharedTouched

(* Every crate the change touches is among the changed ones.               *)
LEMMA TouchedChanged ==
  ASSUME pr \in Changes, Accounted, Unclassified = {}, NothingLeaves
  PROVE  TouchedCrates \subseteq ChangedCrates
<1> SUFFICES ASSUME NEW c \in TouchedCrates PROVE c \in ChangedCrates
  OBVIOUS
<1>1. c \in pr.members
  BY DEF TouchedCrates
<1>2. ASSUME NEW f \in DiffNames, f.dir = c PROVE c \in ChangedCrates
  <2>1. f \notin Mirrored \union {Lock, Root}
    BY <1>1, <1>2, Places
  <2>2. f \in changed
    BY <2>1 DEF Accounted, Explained
  <2> QED
    BY <1>1, <1>2, <2>2 DEF ChangedCrates
<1>3. c \in Named => c \in ChangedCrates
  <2>1. Manifest(c).dir = c
    BY <1>1, Places
  <2> QED
    BY <1>2, <2>1 DEF Named
<1>4. CASE \E f \in TouchedPaths : f.dir = c
  BY <1>2, <1>4, PlaceNamed
<1>5. CASE c \in pr.lock
  <2>1. Lock \in DiffNames
    BY <1>5, ChangesAssumption DEF DiffNames
  <2>2. Explained(Lock) /\ Lock # Root /\ Lock \notin Mirrored
    BY <2>1, Places, OutsideExplained DEF Lock, Root, Mirrored, Path
  <2> QED
    BY <1>3, <1>5, <2>2 DEF Explained
<1>6. CASE c \in pr.added
  <2>1. Root \in DiffNames
    BY <1>6, ChangesAssumption DEF DiffNames
  <2>2. Explained(Root) /\ Lock # Root /\ Root \notin Mirrored
    BY <2>1, Places, OutsideExplained DEF Lock, Root, Mirrored, Path
  <2> QED
    BY <1>3, <1>6, <2>2 DEF Explained
<1>7. CASE c \in pr.listed
  <2>1. PICK f \in Mirrored : f \in DiffNames
    BY <1>7, ChangesAssumption DEF DiffNames
  <2>2. Explained(f) /\ f # Lock /\ f # Root
    BY <2>1, Places, OutsideExplained DEF Lock, Root, Mirrored, Path
  <2> QED
    BY <1>3, <1>7, <2>2 DEF Explained
<1> QED
  BY <1>4, <1>5, <1>6, <1>7 DEF TouchedCrates

-----------------------------------------------------------------------------
(* "No silent omissions": whatever the workspace looks like and whichever  *)
(* narrowing proofs apply, a job that the change can affect is selected,   *)
(* as long as no rename takes a file from one place to another (run).      *)
THEOREM NothingOmitted == Spec => []NoOmission
<1>1. ImpactInv => NoOmission
  <2> SUFFICES ASSUME ImpactInv, pc = "done", NothingLeaves, NEW j \in Job, Affected(j)
               PROVE  j \in selected
    BY DEF NoOmission
  <2>1. CASE selected = Job
    BY <2>1
  <2>2. CASE selected # Job
    <3>1. /\ pr \in Changes /\ Accounted /\ Unclassified = {} /\ Traversed /\ pending = {}
          /\ selected = {k \in Job : Selects(k)}
      BY <2>2 DEF ImpactInv, Concluded
    <3>2. PICK d \in TouchedCrates :
            pr.targets[j] # Unset => \E c \in pr.targets[j] \cap pr.members : DependsOn(c, d)
      BY <3>1, NothingShared DEF Affected
    <3>3. d \in affected
      BY <3>1, TouchedChanged DEF Traversed
    <3>4. pr.targets[j] # Unset => pr.targets[j] \cap affected # {}
      BY <3>1, <3>2, <3>3, ClosedUnderDependents
    <3> QED
      BY <3>1, <3>3, <3>4 DEF Selects
  <2> QED
    BY <2>1, <2>2
<1> QED
  BY <1>1, ImpactInvariance, PTL

(* The packages handed to the jobs hold every crate that depends on a      *)
(* touched one, however long the chain (cargo_closure, main).              *)
THEOREM PackagesComplete == Spec => []PackagesCover
<1>1. ImpactInv => PackagesCover
  <2> SUFFICES ASSUME ImpactInv, pc = "done", NothingLeaves, packages # Unset,
                      NEW c \in pr.members, NEW d \in TouchedCrates, DependsOn(c, d)
               PROVE  c \in packages
    BY DEF PackagesCover
  <2>1. /\ pr \in Changes /\ Accounted /\ Unclassified = {} /\ Traversed /\ pending = {}
        /\ packages = affected
    BY DEF ImpactInv, Concluded
  <2>2. d \in affected
    BY <2>1, TouchedChanged DEF Traversed
  <2> QED
    BY <2>1, <2>2, ClosedUnderDependents
<1> QED
  BY <1>1, ImpactInvariance, PTL

(* A change that is accounted for selects only jobs that it can affect     *)
(* (select_jobs), renames included.                                        *)
THEOREM NothingElseSelected == Spec => []SelectsNothingElse
<1>1. ImpactInv => SelectsNothingElse
  <2> SUFFICES ASSUME ImpactInv, pc = "done", packages # Unset, NEW j \in selected
               PROVE  Affected(j)
    BY DEF SelectsNothingElse
  <2>1. /\ Accounted /\ Traversed /\ j \in Job /\ Selects(j)
    BY DEF ImpactInv, Concluded
  <2>2. ASSUME NEW c \in affected PROVE \E d \in TouchedCrates : DependsOn(c, d)
    BY <2>1, ChangedTouched DEF Traversed
  <2>3. CASE pr.targets[j] = Unset
    <3>1. affected # {}
      BY <2>1 DEF Selects
    <3> QED
      BY <2>2, <2>3, <3>1 DEF Affected
  <2>4. CASE pr.targets[j] # Unset
    <3>1. PICK c \in pr.targets[j] : c \in affected
      BY <2>1, <2>4 DEF Selects
    <3>2. c \in pr.members
      BY <2>1, <3>1 DEF Traversed
    <3> QED
      BY <2>2, <3>1, <3>2 DEF Affected
  <2> QED
    BY <2>3, <2>4
<1> QED
  BY <1>1, ImpactInvariance, PTL

(* The planner gets from step to step, and the traversal is done with one  *)
(* more crate at a time.                                                   *)
Place ==
  [step \in {"diff", "lock", "root", "list", "select", "closure", "done"} |->
     CASE step = "diff" -> 0 [] step = "lock" -> 1 [] step = "root" -> 2 [] step = "list" -> 3
       [] step = "select" -> 4 [] step = "closure" -> 5 [] OTHER -> 6]

Advances ==
  \/ Place[pc] < Place[pc']
  \/ /\ pc = "closure" /\ pc' = "closure" /\ pr' = pr
     /\ affected \ pending \subseteq affected' \ pending'
     /\ affected' \ pending' # affected \ pending
     /\ affected' \subseteq pr.members

(* The planner terminates, although crates may depend on one another in a  *)
(* circle (through dev-dependencies): cargo_closure looks up the           *)
(* dependents of each member at most once.                                 *)
THEOREM CargoPlannerTerminates == Spec => [][Advances]_vars
<1>1. ASSUME ImpactInv, ImpactInv', Next PROVE Advances
  <2>1. CASE Diff \/ CheckLock \/ CheckRoot \/ CheckList \/ Classify \/ Select
    BY <2>1 DEF Diff, CheckLock, CheckRoot, CheckList, Classify, Select, Proceed, Uncertain,
                Advances, Place
  <2>2. CASE Follow
    <3>1. PICK c \in pending : /\ pending' = Followed(c)
                               /\ affected' = affected \union NewDependents(c)
      BY <2>2 DEF Follow
    <3>2. pc = "closure" /\ pc' = "closure" /\ pr' = pr
      BY <2>2 DEF Follow
    <3>3. c \in affected /\ affected \subseteq pr.members
      BY <1>1, <3>1, <3>2 DEF ImpactInv, Traversed
    <3>4. affected' \ pending' = (affected \ pending) \union {c}
      BY <3>1, <3>3 DEF Followed, NewDependents
    <3>5. affected' \subseteq pr.members
      BY <3>1, <3>3 DEF NewDependents
    <3> QED
      BY <3>1, <3>2, <3>4, <3>5 DEF Advances
  <2> QED
    BY <1>1, <2>1, <2>2 DEF Next
<1>2. ImpactInv /\ ImpactInv' /\ [Next]_vars => [Advances]_vars
  BY <1>1
<1> QED
  BY <1>2, ImpactInvariance, PTL DEF Spec

-----------------------------------------------------------------------------
(***************************************************************************)
(* Second, which runs of the generated callers cancel one another          *)
(* (RunConcurrency), for any callers, events and number of re-runs.        *)
(***************************************************************************)

Run ==
  {r \in [id : Nat, caller : Caller, event : UNION {Events[c] : c \in Caller},
          status : {"triggered", "called", "cancelled", "done"}] :
     r.event \in Events[r.caller]}

RunsTyped == runs \in Seq(Run) /\ by \in Seq(Nat) /\ Len(by) = Len(runs)

(* Every event of a run is one of its caller's.                            *)
LEMMA RunFields ==
  ASSUME NEW r \in Run
  PROVE  /\ r.id \in Nat /\ r.caller \in Caller /\ r.event \in Events[r.caller]
         /\ r.status \in {"triggered", "called", "cancelled", "done"}
         /\ r.event.pr \in Nat /\ r.event.admitted \in BOOLEAN
         /\ Backend[r.caller] \in {"matrix", "nix-dag", "nix-remote"}
BY EventsAssumption DEF Run

(* A change of status leaves a run what it was otherwise.                  *)
LEMMA StatusChange ==
  ASSUME NEW r \in Run, NEW s \in {"triggered", "called", "cancelled", "done"}
  PROVE  /\ [r EXCEPT !.status = s] \in Run
         /\ [r EXCEPT !.status = s].status = s
         /\ [r EXCEPT !.status = s].caller = r.caller
         /\ [r EXCEPT !.status = s].event = r.event
         /\ [r EXCEPT !.status = s].id = r.id
BY DEF Run

(* Cancelling ends the victims and leaves the other runs alone.            *)
LEMMA CancellingRuns ==
  ASSUME RunsTyped, NEW victims \in SUBSET Id, NEW n \in Nat
  PROVE  /\ Cancelling(victims, n) \in Seq(Run) /\ CancelledBy(victims, n) \in Seq(Nat)
         /\ Len(Cancelling(victims, n)) = Len(runs)
         /\ Len(CancelledBy(victims, n)) = Len(runs)
         /\ \A i \in Id :
              /\ Cancelling(victims, n)[i].caller = runs[i].caller
              /\ Cancelling(victims, n)[i].event = runs[i].event
              /\ Cancelling(victims, n)[i].status =
                   IF i \in victims THEN "cancelled" ELSE runs[i].status
              /\ CancelledBy(victims, n)[i] = IF i \in victims THEN n ELSE by[i]
<1>1. /\ Len(runs) \in Nat /\ Id = 1 .. Len(runs)
      /\ \A i \in Id : runs[i] \in Run /\ by[i] \in Nat
  BY DEF RunsTyped, Id
<1>2. \A i \in Id :
        (IF i \in victims THEN [runs[i] EXCEPT !.status = "cancelled"] ELSE runs[i]) \in Run
  BY <1>1, StatusChange
<1>3. /\ Cancelling(victims, n) \in [1 .. Len(runs) -> Run]
      /\ CancelledBy(victims, n) \in [1 .. Len(runs) -> Nat]
  BY <1>1, <1>2 DEF Cancelling, CancelledBy
<1>4. /\ Cancelling(victims, n) \in Seq(Run) /\ CancelledBy(victims, n) \in Seq(Nat)
      /\ Len(Cancelling(victims, n)) = Len(runs) /\ Len(CancelledBy(victims, n)) = Len(runs)
  BY <1>1, <1>3
<1>5. ASSUME NEW i \in Id
      PROVE  /\ Cancelling(victims, n)[i].caller = runs[i].caller
             /\ Cancelling(victims, n)[i].event = runs[i].event
             /\ Cancelling(victims, n)[i].status =
                  IF i \in victims THEN "cancelled" ELSE runs[i].status
             /\ CancelledBy(victims, n)[i] = IF i \in victims THEN n ELSE by[i]
  <2>1. /\ Cancelling(victims, n)[i] =
             IF i \in victims THEN [runs[i] EXCEPT !.status = "cancelled"] ELSE runs[i]
        /\ CancelledBy(victims, n)[i] = IF i \in victims THEN n ELSE by[i]
    BY DEF Cancelling, CancelledBy
  <2> QED
    BY <1>1, <2>1, StatusChange
<1> QED
  BY <1>4, <1>5

(* The runs that Begin(r) cancels.                                         *)
BeginVictims(r) == IF r.event.pr # 0 THEN Victims(CallerGroup(r)) ELSE {}

(* Begin appends r and cancels, it changes nothing else of the other runs. *)
LEMMA BeginRuns ==
  ASSUME RunsTyped, NEW r \in Run, Begin(r)
  PROVE  /\ RunsTyped' /\ Len(runs') = Len(runs) + 1
         /\ runs'[Len(runs) + 1] = r /\ by'[Len(runs) + 1] = 0
         /\ \A i \in Id :
              /\ runs'[i].caller = runs[i].caller /\ runs'[i].event = runs[i].event
              /\ runs'[i].status =
                   IF i \in BeginVictims(r) THEN "cancelled" ELSE runs[i].status
              /\ by'[i] = IF i \in BeginVictims(r) THEN Len(runs) + 1 ELSE by[i]
<1> DEFINE n == Len(runs) + 1
           V == BeginVictims(r)
           R == Cancelling(V, n)
           B == CancelledBy(V, n)
<1>1. runs' = Append(R, r) /\ by' = Append(B, 0)
  BY DEF Begin, BeginVictims
<1>2. V \in SUBSET Id
  BY DEF BeginVictims, Victims
<1>3. Len(runs) \in Nat /\ n \in Nat
  BY DEF RunsTyped
<1> HIDE DEF n, V
<1>4. /\ R \in Seq(Run) /\ B \in Seq(Nat) /\ Len(R) = Len(runs) /\ Len(B) = Len(runs)
      /\ \A i \in Id :
           /\ R[i].caller = runs[i].caller /\ R[i].event = runs[i].event
           /\ R[i].status = IF i \in V THEN "cancelled" ELSE runs[i].status
           /\ B[i] = IF i \in V THEN n ELSE by[i]
  BY <1>2, <1>3, CancellingRuns
<1> HIDE DEF R, B
<1>5. \A i \in Id : runs'[i] = R[i] /\ by'[i] = B[i]
  BY <1>1, <1>3, <1>4 DEF Id, n
<1>6. RunsTyped' /\ Len(runs') = n /\ runs'[n] = r /\ by'[n] = 0
  BY <1>1, <1>3, <1>4 DEF RunsTyped, n
<1> QED
  BY <1>4, <1>5, <1>6 DEF n, V

(* Call(i) is the same with the holders of the group of the called         *)
(* workflow, and run i goes on unless it is one of them.                   *)
LEMMA CallRuns ==
  ASSUME RunsTyped, NEW i \in Id, Call(i)
  PROVE  /\ RunsTyped' /\ Len(runs') = Len(runs)
         /\ \A k \in Id :
              /\ runs'[k].caller = runs[k].caller /\ runs'[k].event = runs[k].event
              /\ runs'[k].status \in Active => runs[k].status \in Active
              /\ by'[k] = IF k \in Victims(CalleeGroup(runs[i])) THEN i ELSE by[k]
<1> DEFINE V == Victims(CalleeGroup(runs[i]))
           R == Cancelling(V, i)
           B == CancelledBy(V, i)
           s == IF i \in V THEN "cancelled" ELSE "called"
<1>1. runs[i].status = "triggered" /\ runs' = [R EXCEPT ![i].status = s] /\ by' = B
  BY DEF Call
<1>2. V \in SUBSET Id /\ Len(runs) \in Nat /\ i \in Nat /\ Id = 1 .. Len(runs)
  BY DEF Victims, Id, RunsTyped
<1>3. /\ R \in Seq(Run) /\ B \in Seq(Nat) /\ Len(R) = Len(runs) /\ Len(B) = Len(runs)
      /\ \A k \in Id :
           /\ R[k].caller = runs[k].caller /\ R[k].event = runs[k].event
           /\ R[k].status = IF k \in V THEN "cancelled" ELSE runs[k].status
           /\ B[k] = IF k \in V THEN i ELSE by[k]
  BY <1>2, CancellingRuns
<1>4. s \in {"triggered", "called", "cancelled", "done"}
  OBVIOUS
<1> HIDE DEF V, R, B, s
<1>5. R[i] \in Run
  BY <1>2, <1>3
<1>6. /\ [R[i] EXCEPT !.status = s] \in Run
      /\ [R[i] EXCEPT !.status = s].caller = R[i].caller
      /\ [R[i] EXCEPT !.status = s].event = R[i].event
  BY <1>4, <1>5, StatusChange
<1>7. runs' = [R EXCEPT ![i] = [R[i] EXCEPT !.status = s]]
  BY <1>1
<1>8. /\ runs' \in Seq(Run) /\ Len(runs') = Len(runs)
      /\ \A k \in Id : runs'[k] = IF k = i THEN [R[i] EXCEPT !.status = s] ELSE R[k]
  BY <1>2, <1>3, <1>6, <1>7
<1>9. RunsTyped'
  BY <1>1, <1>3, <1>8 DEF RunsTyped
<1>10. ASSUME NEW k \in Id
       PROVE  /\ runs'[k].caller = runs[k].caller /\ runs'[k].event = runs[k].event
              /\ runs'[k].status \in Active => runs[k].status \in Active
              /\ by'[k] = IF k \in V THEN i ELSE by[k]
  BY <1>1, <1>3, <1>6, <1>8 DEF Active
<1> QED
  BY <1>8, <1>9, <1>10 DEF V

(* Excluded and Finish end a run.                                          *)
LEMMA EndRuns ==
  ASSUME RunsTyped, NEW i \in Id, Excluded(i) \/ Finish(i)
  PROVE  /\ RunsTyped' /\ Len(runs') = Len(runs) /\ by' = by
         /\ \A k \in Id :
              /\ runs'[k].caller = runs[k].caller /\ runs'[k].event = runs[k].event
              /\ runs'[k].status \in Active => runs[k].status \in Active
<1>1. runs' = [runs EXCEPT ![i].status = "done"] /\ by' = by
  BY DEF Excluded, Finish
<1>2. Len(runs) \in Nat /\ Id = 1 .. Len(runs) /\ runs \in Seq(Run) /\ runs[i] \in Run
  BY DEF RunsTyped, Id
<1>3. /\ [runs[i] EXCEPT !.status = "done"] \in Run
      /\ [runs[i] EXCEPT !.status = "done"].status = "done"
      /\ [runs[i] EXCEPT !.status = "done"].caller = runs[i].caller
      /\ [runs[i] EXCEPT !.status = "done"].event = runs[i].event
  BY <1>2, StatusChange
<1>4. /\ runs' \in Seq(Run) /\ Len(runs') = Len(runs)
      /\ \A k \in Id :
           runs'[k] = IF k = i THEN [runs[i] EXCEPT !.status = "done"] ELSE runs[k]
  BY <1>1, <1>2, <1>3
<1>5. RunsTyped'
  BY <1>1, <1>4 DEF RunsTyped
<1> QED
  BY <1>1, <1>3, <1>4, <1>5 DEF Active

(* The holders of the group that a pull request's run asks for are the     *)
(* active runs of that pull request under the same workflow name.          *)
LEMMA CallerGroupHolders ==
  ASSUME RunsTyped, NEW r \in Run, r.event.pr # 0, NEW k \in Id
  PROVE  /\ k \in BeginVictims(r) =>
              Name[runs[k].caller] = Name[r.caller] /\ runs[k].event.pr = r.event.pr
         /\ /\ runs[k].status \in Active
            /\ Name[runs[k].caller] = Name[r.caller] /\ runs[k].event.pr = r.event.pr
            => k \in BeginVictims(r)
<1> DEFINE q == runs[k]
<1>1. q \in Run
  BY DEF RunsTyped, Id
<1>2. Backend[q.caller] \in {"matrix", "nix-dag", "nix-remote"}
  BY <1>1, RunFields
<1>3. CallerGroup(r) = <<"caller", Name[r.caller], "pr", r.event.pr>>
  BY DEF CallerGroup
<1>4. k \in BeginVictims(r) <=> CallerGroup(r) \in Held(q)
  BY DEF BeginVictims, Victims
<1>5. CalleeGroup(q) # CallerGroup(r)
  BY <1>2, <1>3 DEF CalleeGroup, None
<1>6. CallerGroup(r) \in Held(q) <=> q.status \in Active /\ CallerGroup(q) = CallerGroup(r)
  BY <1>5 DEF Held
<1>7. CallerGroup(q) = CallerGroup(r) =>
        Name[q.caller] = Name[r.caller] /\ q.event.pr = r.event.pr
  BY <1>3 DEF CallerGroup
<1>8. Name[q.caller] = Name[r.caller] /\ q.event.pr = r.event.pr
        => CallerGroup(q) = CallerGroup(r)
  BY DEF CallerGroup
<1> QED
  BY <1>4, <1>6, <1>7, <1>8

(* A run of a caller with backend nix-remote holds no group but its own.   *)
LEMMA RemoteHoldsNone ==
  ASSUME RunsTyped, NEW i \in Id, NEW k \in Id, Backend[runs[k].caller] = "nix-remote"
  PROVE  k \notin Victims(CalleeGroup(runs[i]))
<1>1. Backend[runs[i].caller] \in {"matrix", "nix-dag", "nix-remote"}
  BY RunFields DEF RunsTyped, Id
<1>2. CalleeGroup(runs[i]) # CallerGroup(runs[k])
  BY <1>1 DEF CalleeGroup, CallerGroup, None
<1>3. CalleeGroup(runs[k]) = None
  BY DEF CalleeGroup
<1> QED
  BY <1>2, <1>3 DEF Victims, Held

(* A pull request's run that loses the group of the called workflow to run *)
(* i is a second active run of the same name and pull request, or has no   *)
(* more than the name of its branch in common with it.                     *)
LEMMA CalleeGroupHolders ==
  ASSUME RunsTyped, NEW i \in Id, NEW k \in Victims(CalleeGroup(runs[i])),
         runs[i].status = "triggered", runs[k].event.pr # 0
  PROVE  /\ i # k /\ runs[k].status \in Active
         /\ Name[runs[k].caller] = Name[runs[i].caller]
         /\ runs[k].event.pr = runs[i].event.pr \/ Namesake(i, k)
<1> DEFINE p == runs[i]
           q == runs[k]
<1>1. k \in Id /\ p \in Run /\ q \in Run /\ CalleeGroup(p) \in Held(q)
  BY DEF RunsTyped, Id, Victims
<1>2. /\ Backend[p.caller] \in {"matrix", "nix-dag", "nix-remote"}
      /\ Backend[q.caller] \in {"matrix", "nix-dag", "nix-remote"}
  BY <1>1, RunFields
<1>3. CalleeGroup(p) # CallerGroup(q)
  BY <1>2 DEF CalleeGroup, CallerGroup, None
<1>4. q.status = "called" /\ CalleeGroup(p) = CalleeGroup(q) /\ CalleeGroup(p) # None
  BY <1>1, <1>3 DEF Held
<1>5. Name[p.caller] = Name[q.caller] /\ Backend[p.caller] = Backend[q.caller]
  BY <1>2, <1>4 DEF CalleeGroup, None
<1>6. CASE Backend[p.caller] = "matrix"
  BY <1>4, <1>5, <1>6 DEF CalleeGroup, Active
<1>7. CASE Backend[p.caller] = "nix-dag"
  <2>1. p.event.branch = q.event.branch
    BY <1>4, <1>5, <1>7 DEF CalleeGroup
  <2> QED
    BY <1>4, <1>5, <1>7, <2>1 DEF Namesake, Active
<1>8. CASE Backend[p.caller] = "nix-remote"
  BY <1>4, <1>8 DEF CalleeGroup
<1> QED
  BY <1>2, <1>6, <1>7, <1>8

-----------------------------------------------------------------------------
(* A push run whose backend is nix-remote, which brings no group of its    *)
(* own, is never cancelled (concurrencyLines).                             *)
RemotePushKept ==
  \A i \in Id :
    runs[i].event.pr = 0 /\ Backend[runs[i].caller] = "nix-remote" => by[i] = 0

RunInv == RunsTyped /\ OnePerPullRequest /\ RemotePushKept

(* One active run per caller and pull request: a run that begins takes the *)
(* group from the one there was, and no step makes an ended run active.    *)
LEMMA RunInvHolds == RunSpec => []RunInv
<1>1. NoRuns => RunInv
  <2> SUFFICES ASSUME NoRuns PROVE RunInv
    OBVIOUS
  <2>1. runs = <<>> /\ by = <<>>
    BY DEF NoRuns
  <2>2. RunsTyped /\ Id = {}
    BY <2>1 DEF RunsTyped, Id
  <2> QED
    BY <2>2 DEF RunInv, OnePerPullRequest, RemotePushKept
<1>2. RunInv /\ [RunStep]_runVars => RunInv'
  <2> SUFFICES ASSUME RunInv, [RunStep]_runVars PROVE RunInv'
    OBVIOUS
  <2>1. /\ RunsTyped /\ OnePerPullRequest /\ RemotePushKept
        /\ Len(runs) \in Nat /\ Id = 1 .. Len(runs)
        /\ \A i \in Id : runs[i] \in Run
    BY DEF RunInv, RunsTyped, Id
  <2>2. ASSUME NEW r \in Run, Begin(r) PROVE RunInv'
    <3>1. /\ RunsTyped' /\ Len(runs') = Len(runs) + 1
          /\ runs'[Len(runs) + 1] = r /\ by'[Len(runs) + 1] = 0
          /\ \A i \in Id :
               /\ runs'[i].caller = runs[i].caller /\ runs'[i].event = runs[i].event
               /\ runs'[i].status =
                    IF i \in BeginVictims(r) THEN "cancelled" ELSE runs[i].status
               /\ by'[i] = IF i \in BeginVictims(r) THEN Len(runs) + 1 ELSE by[i]
      BY <2>1, <2>2, BeginRuns
    <3>2. Id' = Id \union {Len(runs) + 1}
      BY <2>1, <3>1 DEF Id
    <3>3. ASSUME NEW k \in Id, runs'[k].status \in Active, r.event.pr # 0,
                 runs'[k].event.pr = r.event.pr
          PROVE  Name[runs'[k].caller] # Name[r.caller]
      <4>1. k \notin BeginVictims(r) /\ runs[k].status \in Active
        BY <3>1, <3>3 DEF Active
      <4> QED
        BY <2>1, <3>1, <3>3, <4>1, CallerGroupHolders
    <3>4. ASSUME NEW i \in Id, NEW k \in Id, i # k,
                 runs'[i].status \in Active, runs'[k].status \in Active,
                 runs'[i].event.pr # 0, runs'[i].event.pr = runs'[k].event.pr
          PROVE  Name[runs'[i].caller] # Name[runs'[k].caller]
      <4>1. runs[i].status \in Active /\ runs[k].status \in Active
        BY <3>1, <3>4 DEF Active
      <4> QED
        BY <2>1, <3>1, <3>4, <4>1 DEF OnePerPullRequest
    <3>5. OnePerPullRequest'
      BY <3>1, <3>2, <3>3, <3>4 DEF OnePerPullRequest
    <3>6. ASSUME NEW k \in Id, k \in BeginVictims(r) PROVE runs[k].event.pr # 0
      BY <2>1, <3>6, CallerGroupHolders DEF BeginVictims
    <3>7. RemotePushKept'
      BY <2>1, <3>1, <3>2, <3>6 DEF RemotePushKept
    <3> QED
      BY <3>1, <3>5, <3>7 DEF RunInv
  <2>3. ASSUME RunsTyped', Len(runs') = Len(runs),
               \A k \in Id :
                 /\ runs'[k].caller = runs[k].caller /\ runs'[k].event = runs[k].event
                 /\ runs'[k].status \in Active => runs[k].status \in Active
                 /\ Backend[runs[k].caller] = "nix-remote" => by'[k] = by[k]
        PROVE  RunInv'
    <3>1. Id' = Id
      BY <2>3 DEF Id
    <3>2. OnePerPullRequest'
      BY <2>1, <2>3, <3>1 DEF OnePerPullRequest
    <3>3. RemotePushKept'
      BY <2>1, <2>3, <3>1 DEF RemotePushKept
    <3> QED
      BY <2>3, <3>2, <3>3 DEF RunInv
  <2>4. ASSUME NEW c \in Caller, NEW e \in Events[c], Trigger(c, e) PROVE RunInv'
    BY <2>1, <2>2, <2>4 DEF Trigger, Run
  <2>5. ASSUME NEW i \in Id, Rerun(i) PROVE RunInv'
    <3>1. runs[i] \in Run
      BY <2>1 DEF RunsTyped
    <3> QED
      BY <2>2, <2>5, <3>1, StatusChange DEF Rerun
  <2>6. ASSUME NEW i \in Id, Call(i) PROVE RunInv'
    BY <2>1, <2>3, <2>6, CallRuns, RemoteHoldsNone
  <2>7. ASSUME NEW i \in Id, Excluded(i) \/ Finish(i) PROVE RunInv'
    BY <2>1, <2>3, <2>7, EndRuns
  <2>8. CASE UNCHANGED runVars
    BY <2>8 DEF RunInv, RunsTyped, OnePerPullRequest, RemotePushKept, Id, runVars
  <2> QED
    BY <2>4, <2>5, <2>6, <2>7, <2>8 DEF RunStep
<1> QED
  BY <1>1, <1>2, PTL DEF RunSpec

(* "A run replaces an older in-flight run rather than launching another    *)
(* four-worker cluster" (mk-flake-ci-workflow.nix:180): under one workflow *)
(* name no two runs of a pull request are ever active, whatever is re-run. *)
THEOREM OneRunPerPullRequest == RunSpec => []OnePerPullRequest
BY RunInvHolds, PTL DEF RunInv

(* A cancelled pull request's run knows the run that did it.               *)
Rival(k, i) ==
  /\ Name[runs[k].caller] = Name[runs[i].caller]
  /\ \/ k > i /\ runs[k].event.pr = runs[i].event.pr
     \/ Namesake(k, i)

CancelledByRival ==
  \A i \in Id : runs[i].event.pr # 0 /\ by[i] # 0 => by[i] \in Id /\ Rival(by[i], i)

(* Runs keep their caller and event, so rivals stay rivals.                *)
LEMMA RivalsStay ==
  ASSUME NEW i \in Id, NEW k \in Id, Rival(k, i),
         \A j \in Id : runs'[j].caller = runs[j].caller /\ runs'[j].event = runs[j].event
  PROVE  Rival(k, i)'
BY DEF Rival, Namesake

(* Who is cancelled by whom: a run that begins cancels those of its own    *)
(* pull request, one that calls its workflow the others that fit it.       *)
LEMMA CancelInvHolds == RunSpec => []CancelledByRival
<1>1. NoRuns => CancelledByRival
  BY DEF NoRuns, Id, CancelledByRival
<1>2. RunInv /\ CancelledByRival /\ [RunStep]_runVars => CancelledByRival'
  <2> SUFFICES ASSUME RunInv, CancelledByRival, [RunStep]_runVars
               PROVE  CancelledByRival'
    OBVIOUS
  <2>1. /\ RunsTyped /\ OnePerPullRequest /\ Len(runs) \in Nat /\ Id = 1 .. Len(runs)
        /\ \A i \in Id : runs[i] \in Run
    BY DEF RunInv, RunsTyped, Id
  <2>2. ASSUME NEW r \in Run, Begin(r) PROVE CancelledByRival'
    <3>1. /\ Len(runs') = Len(runs) + 1 /\ runs'[Len(runs) + 1] = r
          /\ by'[Len(runs) + 1] = 0
          /\ \A i \in Id :
               /\ runs'[i].caller = runs[i].caller /\ runs'[i].event = runs[i].event
               /\ by'[i] = IF i \in BeginVictims(r) THEN Len(runs) + 1 ELSE by[i]
      BY <2>1, <2>2, BeginRuns
    <3>2. Id' = Id \union {Len(runs) + 1} /\ Len(runs) + 1 \in Id'
      BY <2>1, <3>1 DEF Id
    <3>3. ASSUME NEW k \in Id, k \in BeginVictims(r)
          PROVE  Name[runs[k].caller] = Name[r.caller] /\ runs[k].event.pr = r.event.pr
      BY <2>1, <3>3, CallerGroupHolders DEF BeginVictims
    <3> SUFFICES ASSUME NEW i \in Id', runs'[i].event.pr # 0, by'[i] # 0
                 PROVE  by'[i] \in Id' /\ Rival(by[i], i)'
      BY DEF CancelledByRival
    <3>4. i \in Id
      BY <3>1, <3>2
    <3>5. CASE i \in BeginVictims(r)
      BY <2>1, <3>1, <3>2, <3>3, <3>4, <3>5 DEF Rival
    <3>6. CASE i \notin BeginVictims(r)
      <4>1. by'[i] = by[i] /\ by[i] \in Id /\ Rival(by[i], i)
        BY <3>1, <3>4, <3>6 DEF CancelledByRival
      <4> QED
        BY <3>1, <3>2, <3>4, <4>1, RivalsStay
    <3> QED
      BY <3>5, <3>6
  <2> DEFINE Fits == \A k \in Id :
                       /\ runs'[k].caller = runs[k].caller /\ runs'[k].event = runs[k].event
                       /\ \/ runs[k].event.pr = 0 \/ by'[k] = by[k]
                          \/ by'[k] \in Id /\ Rival(by'[k], k)
  <2>3. ASSUME Len(runs') = Len(runs), Fits
        PROVE  CancelledByRival'
    <3>1. Id' = Id
      BY <2>3 DEF Id
    <3> SUFFICES ASSUME NEW k \in Id, runs[k].event.pr # 0, by'[k] # 0
                 PROVE  by'[k] \in Id /\ Rival(by[k], k)'
      BY <2>3, <3>1 DEF CancelledByRival
    <3>2. by'[k] \in Id /\ Rival(by'[k], k)
      BY <2>3 DEF CancelledByRival
    <3> QED
      BY <2>3, <3>2 DEF Rival, Namesake
  <2>4. ASSUME NEW c \in Caller, NEW e \in Events[c], Trigger(c, e)
        PROVE  CancelledByRival'
    <3> DEFINE r == [id |-> Len(runs) + 1, caller |-> c, event |-> e, status |-> "triggered"]
    <3>1. r \in Run
      BY <2>1 DEF Run
    <3>2. Begin(r)
      BY <2>4 DEF Trigger
    <3> HIDE DEF r
    <3> QED
      BY <2>2, <3>1, <3>2
  <2>5. ASSUME NEW i \in Id, Rerun(i) PROVE CancelledByRival'
    <3>1. [runs[i] EXCEPT !.status = "triggered"] \in Run
      BY <2>1, StatusChange
    <3> QED
      BY <2>2, <2>5, <3>1 DEF Rerun
  <2>6. ASSUME NEW i \in Id, Call(i) PROVE CancelledByRival'
    <3>1. runs[i].status = "triggered" /\ runs[i].status \in Active
      BY <2>6 DEF Call, Active
    <3>2. ASSUME NEW k \in Victims(CalleeGroup(runs[i])), runs[k].event.pr # 0
          PROVE  Rival(i, k)
      <4>1. /\ i # k /\ runs[k].status \in Active
            /\ Name[runs[k].caller] = Name[runs[i].caller]
            /\ runs[k].event.pr = runs[i].event.pr \/ Namesake(i, k)
        BY <2>1, <3>1, <3>2, CalleeGroupHolders
      <4>2. k \in Id
        BY DEF Victims
      <4>3. runs[k].event.pr # runs[i].event.pr
        BY <2>1, <3>1, <3>2, <4>1, <4>2 DEF OnePerPullRequest
      <4> QED
        BY <4>1, <4>3 DEF Rival
    <3>3. \A k \in Id : by'[k] = IF k \in Victims(CalleeGroup(runs[i])) THEN i ELSE by[k]
      BY <2>1, <2>6, CallRuns
    <3>4. Fits
      BY <2>1, <2>6, <3>2, <3>3, CallRuns
    <3>5. Len(runs') = Len(runs)
      BY <2>1, <2>6, CallRuns
    <3> QED
      BY <2>3, <3>4, <3>5
  <2>7. ASSUME NEW i \in Id, Excluded(i) \/ Finish(i)
        PROVE  CancelledByRival'
    <3>1. Len(runs') = Len(runs) /\ Fits
      BY <2>1, <2>7, EndRuns
    <3> QED
      BY <2>3, <3>1
  <2>8. CASE UNCHANGED runVars
    BY <2>8 DEF CancelledByRival, Rival, Namesake, Id, runVars
  <2> QED
    BY <2>4, <2>5, <2>6, <2>7, <2>8 DEF RunStep
<1> QED
  BY <1>1, <1>2, RunInvHolds, PTL DEF RunSpec

(* For any callers, names, backends and branches: the run of a pull        *)
(* request is cancelled by a later run of that pull request, or by one     *)
(* that the group of the staged workflow cannot tell from it               *)
(* (concurrencyLines, flake-checks.yml:22, flake-dag-staged.yml:21).       *)
THEOREM OnlyRivals == RunSpec => []OnlyRivalsCancel
<1>1. CancelledByRival => OnlyRivalsCancel
  BY DEF CancelledByRival, Rival, OnlyRivalsCancel
<1> QED
  BY <1>1, CancelInvHolds, PTL

(* "Protected-branch builds are never implicitly serialized or canceled"   *)
(* (mk-flake-ci-workflow.nix:181-182) is true of the callers whose backend *)
(* is nix-remote, the trusted half of every generated pair.                *)
THEOREM RemotePushesKept == RunSpec => []RemotePushKept
BY RunInvHolds, PTL DEF RunInv
=============================================================================
