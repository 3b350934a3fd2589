------------------------------ MODULE SuiteCache ------------------------------
(***************************************************************************)
(* The build cache that the jobs of a SemanticCi run share: one entry of   *)
(* the Actions cache under the key the declaration gives.  Jobs restore it *)
(* when they start.  With a writer only that suite's job saves it, in a    *)
(* step of its own; without one every job does, in the post step of the    *)
(* cache action.                                                           *)
(***************************************************************************)
EXTENDS SemanticCi

CONSTANT Caches(_)   \* the cache options considered with a declaration

(* A cache option is a record: users, the suites with the cache enabled;   *)
(* writer, a suite or Unset; mainOnly, the option saveOnDefaultBranch.     *)
ASSUME CachesAssumption ==
  \A d \in Declarations : \A c \in Caches(d) :
    /\ c.users \subseteq Suite /\ c.mainOnly \in BOOLEAN
    /\ c.writer = Unset \/ c.writer \in Ref

ASSUME EntriesDistinct == Suite \intersect {"none", "older", Unset} = {}

VARIABLES
  cache,    \* the cache option of the declaration
  onMain,   \* the run belongs to the default branch
  entry,    \* the entry: "none", of an "older" run, or the suite that saved it
  seen,     \* what each suite's job restored
  dropped   \* history: the entry was evicted, or a save did not get through

cacheVars == <<cache, onMain, entry, seen, dropped>>
allVars   == <<vars, cacheVars>>

CacheWriterValid ==
  cache.writer # Unset => cache.writer \in Suite /\ cache.writer \in cache.users

CacheInit ==
  /\ Init
  /\ cache \in Caches(decl)
  /\ onMain \in BOOLEAN /\ (onMain => event = "push")
  /\ entry = "none" \/ (entry = "older" /\ cache.users # {})
  /\ seen = [s \in Suite |-> "none"]
  /\ dropped = FALSE

CacheEvaluate == CacheWriterValid /\ Evaluate /\ UNCHANGED cacheVars

(* The declaration with an unknown or cacheless writer is refused.         *)
RefuseWriter ==
  /\ workflow = "declared" /\ ~CacheWriterValid
  /\ workflow' = "rejected"
  /\ UNCHANGED <<decl, event, touched, attempt, job, selected, cancelled,
                 cacheVars>>

Restore(s) ==
  /\ SuiteStarts(s)
  /\ seen' = [seen EXCEPT ![s] = IF s \in cache.users THEN entry ELSE "none"]
  /\ UNCHANGED <<cache, onMain, entry, dropped>>

(* Mutant: cacheForSuite gives the writer's `save` to every suite.         *)
MaySaveMutant(s) == s \in cache.users /\ (cache.mainOnly => onMain)

(* cacheForSuite and renderCacheSaveLines.  Without a writer there is no   *)
(* `save`: the cache action saves after every job.                         *)
MaySave(s) ==
  /\ s \in cache.users
  /\ cache.writer # Unset => s = cache.writer /\ (cache.mainOnly => onMain)

(* A job saves after success, unless its restore found the exact key.      *)
Saves(s) == MaySave(s) /\ seen[s] = "none" /\ job'[s] = "success"

(* The first save of a key wins; one that does not get through is only a   *)
(* warning of the job.                                                     *)
Finish(s) ==
  /\ SuiteEnds(s)
  /\ \/ Saves(s) /\ entry' = (IF entry = "none" THEN s ELSE entry)
                 /\ UNCHANGED dropped
     \/ Saves(s) /\ dropped' = TRUE /\ UNCHANGED entry
     \/ ~Saves(s) /\ UNCHANGED <<entry, dropped>>
  /\ UNCHANGED <<cache, onMain, seen>>

Evict ==
  /\ entry # "none"
  /\ entry' = "none" /\ dropped' = TRUE
  /\ UNCHANGED <<vars, cache, onMain, seen>>

CacheNext ==
  \/ CacheEvaluate \/ RefuseWriter
  \/ \E s \in Suite : Restore(s) \/ Finish(s)
  \/ Evict
  \/ /\ \/ ImpactStep \/ GateStep \/ Cancel \/ Rerun
        \/ \E s \in Suite : SuiteSkipped(s)
     /\ UNCHANGED cacheVars

CacheSpec == CacheInit /\ [][CacheNext]_allVars

(* As in SemanticCi: the steps of GitHub's scheduler, none of the cache's. *)
CacheFairness ==
  /\ WF_allVars(CacheEvaluate \/ RefuseWriter)
  /\ WF_allVars(ImpactStep /\ UNCHANGED cacheVars)
  /\ \A s \in Suite :
       WF_allVars(Restore(s) \/ Finish(s) \/ (SuiteSkipped(s) /\ UNCHANGED cacheVars))
  /\ WF_allVars(GateStep /\ UNCHANGED cacheVars)

FairCacheSpec == CacheSpec /\ CacheFairness

-----------------------------------------------------------------------------
(* Properties.                                                             *)

(* "Only the writer saves it.  This avoids concurrent save races", and "a  *)
(* dependent suite can wait for the writer when it needs same-run build    *)
(* state" (README.md:107-109).  What it gets: while nothing was evicted or *)
(* failed to be stored, what the writer itself found, or saved when it     *)
(* found nothing; never what another suite saved in between.               *)
WriterServesDependents ==
  \A s \in cache.users :
    /\ job[s] \in Started /\ cache.writer \in Upstream(s)
    /\ MaySave(cache.writer) /\ ~dropped
    => seen[s] = IF seen[cache.writer] = "none" THEN cache.writer ELSE seen[cache.writer]
=============================================================================
