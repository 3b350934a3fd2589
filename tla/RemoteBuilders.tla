---------------------------- MODULE RemoteBuilders ----------------------------
(***************************************************************************)
(* The pool of .github/workflows/flake-nix-builders.yml: worker jobs that  *)
(* join a tailnet and hold themselves ready as Nix builders, and the       *)
(* coordinator job that discovers them, builds through them and releases   *)
(* them, all driven by lib/nix-remote-workers.py.  Coordinator and workers *)
(* start independently and meet only over the network; four timeouts bound *)
(* how long they wait for each other.                                      *)
(*                                                                         *)
(* Time passes in ticks that are much longer than the poll interval of     *)
(* hold(); timers count down the ticks that are left.                      *)
(***************************************************************************)
EXTENDS Naturals

CONSTANTS
  Worker,         \* the pool
  HoldTime,       \* hold --timeout
  DiscoverTime,   \* discover --timeout
  WorkerTime,     \* timeout-minutes of a worker job
  CoordTime       \* timeout-minutes of the coordinator job

ASSUME TimesAssumption ==
  {HoldTime, DiscoverTime, WorkerTime, CoordTime} \subseteq Nat \ {0}

VARIABLES
  worker,    \* state of each worker job
  limit,     \* ticks left before GitHub ends the worker job
  hold,      \* ticks left before hold() gives up
  released,  \* the completion file on each worker, and when it was written
  coord,     \* state of the coordinator job
  clock,     \* ticks left before GitHub ends the coordinator job
  search,    \* ticks left for discover()
  hosts,     \* hosts.json: the peers discover() has seen
  ready,     \* workers whose store answered a ping
  tried,     \* hosts that stop() has visited
  failed,    \* an earlier step of the coordinator job, or a release, failed
  accepted   \* the acceptance job

vars == <<worker, limit, hold, released, coord, clock, search, hosts, ready,
          tried, failed, accepted>>

(* "done" is success; "expired", "killed" and "lost" are failures.         *)
WorkerState == {"queued", "setup", "serving", "done", "expired", "killed", "lost"}
WorkerEnd   == {"done", "expired", "killed", "lost"}

CoordState  == {"queued", "discover", "build", "verify", "release",
                "success", "failure", "killed"}
CoordEnd    == {"success", "failure", "killed"}

workers == <<worker, limit, hold, released>>
coordinator == <<coord, clock, search, hosts, ready, tried, failed>>

TypeOK ==
  /\ worker \in [Worker -> WorkerState]
  /\ limit \in [Worker -> 0 .. WorkerTime]
  /\ hold \in [Worker -> 0 .. HoldTime]
  /\ released \in [Worker -> {"no", "early", "late"}]
  /\ coord \in CoordState
  /\ clock \in 0 .. CoordTime
  /\ search \in 0 .. DiscoverTime
  /\ hosts \subseteq Worker
  /\ ready \subseteq Worker
  /\ failed \in BOOLEAN
  /\ tried \subseteq Worker
  /\ accepted \in {"waiting", "success", "failure"}

Init ==
  /\ worker = [w \in Worker |-> "queued"]
  /\ limit = [w \in Worker |-> WorkerTime]
  /\ hold = [w \in Worker |-> HoldTime]
  /\ released = [w \in Worker |-> "no"]
  /\ coord = "queued"
  /\ clock = CoordTime
  /\ search = DiscoverTime
  /\ hosts = {}
  /\ ready = {}
  /\ failed = FALSE
  /\ tried = {}
  /\ accepted = "waiting"

-----------------------------------------------------------------------------
(* Worker jobs.                                                            *)

WorkerStart(w) ==
  /\ worker[w] = "queued"
  /\ worker' = [worker EXCEPT ![w] = "setup"]
  /\ UNCHANGED <<limit, hold, released, coordinator, accepted>>

(* Connected to the tailnet; hold() starts its own clock.                  *)
WorkerServes(w) ==
  /\ worker[w] = "setup"
  /\ worker' = [worker EXCEPT ![w] = "serving"]
  /\ UNCHANGED <<limit, hold, released, coordinator, accepted>>

(* hold() finds the completion file while its deadline has not passed.     *)
HoldReturns(w) ==
  /\ worker[w] = "serving"
  /\ hold[w] > 0
  /\ released[w] # "no"
  /\ worker' = [worker EXCEPT ![w] = "done"]
  /\ UNCHANGED <<limit, hold, released, coordinator, accepted>>

(* Mutant: hold() waits for the file as long as it takes.                  *)
GivesUpMutant(w) == FALSE

(* The loop ends when the deadline has passed, without another look at the *)
(* completion file.                                                        *)
GivesUp(w) == hold[w] = 0

HoldExpires(w) ==
  /\ worker[w] = "serving"
  /\ GivesUp(w)
  /\ worker' = [worker EXCEPT ![w] = "expired"]
  /\ UNCHANGED <<limit, hold, released, coordinator, accepted>>

(* A step before hold fails, or the machine or its network is lost.        *)
WorkerLost(w) ==
  /\ worker[w] \in {"setup", "serving"}
  /\ worker' = [worker EXCEPT ![w] = "lost"]
  /\ UNCHANGED <<limit, hold, released, coordinator, accepted>>

WorkerKilled(w) ==
  /\ worker[w] \in {"setup", "serving"}
  /\ limit[w] = 0
  /\ worker' = [worker EXCEPT ![w] = "killed"]
  /\ UNCHANGED <<limit, hold, released, coordinator, accepted>>

-----------------------------------------------------------------------------
(* The coordinator job.                                                    *)

CoordStart ==
  /\ coord = "queued"
  /\ \/ coord' = "discover" /\ UNCHANGED failed
     \/ coord' = "release" /\ failed' = TRUE   \* an earlier step failed
  /\ UNCHANGED <<workers, clock, search, hosts, ready, tried, accepted>>

(* `tailscale status` shows a worker that is, or was, connected.           *)
SeesPeer(w) == worker[w] \notin {"queued", "setup"}

(* Mutant: hosts.json is written only once discovery is complete.          *)
SavedMutant(w) == {}

(* Partial discoveries are saved as well.                                  *)
Saved(w) == {w}

(* One peer of a round of discover(): it is saved, then probed.            *)
Probe(w) ==
  /\ coord = "discover"
  /\ search > 0
  /\ SeesPeer(w)
  /\ hosts' = hosts \union Saved(w)
  /\ \/ worker[w] = "serving" /\ ready' = ready \union {w}
     \/ UNCHANGED ready
  /\ UNCHANGED <<workers, coord, clock, search, tried, failed, accepted>>

PoolReady == ready = Worker

(* The machine list is complete: every worker has answered a ping.         *)
Discovered ==
  /\ coord = "discover"
  /\ PoolReady
  /\ coord' = "build"
  /\ hosts' = ready
  /\ UNCHANGED <<workers, clock, search, ready, tried, failed, accepted>>

(* Out of time, or a command of discover() raised.                         *)
DiscoverFails ==
  /\ coord = "discover"
  /\ coord' = "release"
  /\ failed' = TRUE
  /\ UNCHANGED <<workers, clock, search, hosts, ready, tried, accepted>>

(* The remote build, then export, verification and publication; each can   *)
(* fail, and none of them looks at the workers again.                      *)
Builds ==
  /\ coord \in {"build", "verify"}
  /\ \/ /\ coord' = IF coord = "build" THEN "verify" ELSE "release"
        /\ UNCHANGED failed
     \/ /\ coord' = "release"
        /\ failed' = TRUE
  /\ UNCHANGED <<workers, clock, search, hosts, ready, tried, accepted>>

(* stop(): touch the completion file of one host; an unreachable host is   *)
(* remembered and the loop goes on until it has visited every host.        *)
StopHost(w) ==
  /\ coord = "release"
  /\ w \in hosts \ tried
  /\ tried' = tried \union {w}
  /\ \/ /\ worker[w] = "serving"
        /\ released' = [released EXCEPT ![w] = IF hold[w] > 0 THEN "early" ELSE "late"]
        /\ UNCHANGED failed
     \/ /\ failed' = TRUE
        /\ UNCHANGED released
  /\ UNCHANGED <<worker, limit, hold, coord, clock, search, hosts, ready, accepted>>

CoordEnds ==
  /\ coord = "release"
  /\ hosts \subseteq tried
  /\ coord' = IF failed THEN "failure" ELSE "success"
  /\ UNCHANGED <<workers, clock, search, hosts, ready, tried, failed, accepted>>

(* The job is cancelled or out of time; its always() steps may still run.  *)
CoordInterrupted ==
  /\ coord \in {"discover", "build", "verify"}
  /\ coord' = "release"
  /\ failed' = TRUE
  /\ UNCHANGED <<workers, clock, search, hosts, ready, tried, accepted>>

(* The machine is lost, or GitHub ends the job for good.                   *)
CoordKilled ==
  /\ coord \notin CoordEnd \union {"queued"}
  /\ coord' = "killed"
  /\ UNCHANGED <<workers, clock, search, hosts, ready, tried, failed, accepted>>

-----------------------------------------------------------------------------
(* The acceptance job, `if: always()`.                                     *)

(* Mutant: only the coordinator is asked.                                  *)
PoolSucceededMutant == coord = "success"

PoolSucceeded == coord = "success" /\ \A w \in Worker : worker[w] = "done"

(* Mutant: no `if: always()`.                                              *)
AcceptStartsMutant == PoolSucceeded

AcceptStarts == coord \in CoordEnd /\ \A w \in Worker : worker[w] \in WorkerEnd

Accept ==
  /\ accepted = "waiting"
  /\ AcceptStarts
  /\ \/ PoolSucceeded /\ accepted' = "success"
     \/ accepted' = "failure"
  /\ UNCHANGED <<workers, coordinator>>

-----------------------------------------------------------------------------
(* Time.                                                                   *)

(* A worker polls many times in a tick: it does not miss a completion file *)
(* unless the file appears in the last interval before its deadline.  What *)
(* is out of time acts before the next tick.                               *)
Urgent ==
  \/ coord \notin CoordEnd \union {"queued"} /\ clock = 0
  \/ coord = "discover" /\ search = 0
  \/ \E w \in Worker :
       \/ worker[w] \in {"setup", "serving"} /\ limit[w] = 0
       \/ worker[w] = "serving" /\ (GivesUp(w) \/ (released[w] # "no" /\ hold[w] > 1))

Tick ==
  /\ ~Urgent
  /\ limit' = [w \in Worker |-> IF worker[w] \in {"setup", "serving"}
                                 THEN limit[w] - 1 ELSE limit[w]]
  /\ hold' = [w \in Worker |-> IF worker[w] = "serving"
                                THEN hold[w] - 1 ELSE hold[w]]
  /\ clock' = IF coord \in CoordEnd \union {"queued"} THEN clock ELSE clock - 1
  /\ search' = IF coord = "discover" THEN search - 1 ELSE search
  /\ UNCHANGED <<worker, released, coord, hosts, ready, tried, failed, accepted>>

-----------------------------------------------------------------------------
WorkerStep(w) == WorkerStart(w) \/ HoldReturns(w) \/ HoldExpires(w)
                 \/ WorkerKilled(w)

CoordStep == CoordStart \/ Discovered \/ (search = 0 /\ DiscoverFails) \/ (\E w \in Worker : StopHost(w))
             \/ CoordEnds \/ (clock = 0 /\ CoordKilled)

Next ==
  \/ \E w \in Worker : WorkerStep(w) \/ WorkerServes(w) \/ WorkerLost(w)
                        \/ Probe(w)
  \/ CoordStep \/ DiscoverFails \/ Builds \/ CoordInterrupted \/ CoordKilled
  \/ Accept \/ Tick

Spec == Init /\ [][Next]_vars

(* GitHub starts the jobs and ends those that are out of time, the scripts *)
(* carry on, and time passes.  Setting up a machine, a build or a step of  *)
(* discovery may hang: only the time limits end those.                     *)
Fairness ==
  /\ \A w \in Worker : WF_vars(WorkerStep(w))
  /\ WF_vars(CoordStep)
  /\ WF_vars(Accept)
  /\ WF_vars(Tick)

FairSpec == Spec /\ Fairness

-----------------------------------------------------------------------------
(* Properties.                                                             *)

(* "On success or failure, it attempts to release all ready workers": also *)
(* when discovery, the build or another release failed before              *)
(* (discover's partial hosts.json, stop's error list).                     *)
ReadyReleased ==
  coord \in {"success", "failure"} => ready \subseteq tried

(* A pool that is accepted was complete, and each of its workers was told  *)
(* to stop while its own deadline had not passed: a build that outlasts a  *)
(* worker is never accepted (hold, stop and the acceptance job).           *)
AcceptedInTime ==
  accepted = "success" =>
    ready = Worker /\ \A w \in Worker : released[w] = "early"

(* No orphans: a worker that was set up in time ends by itself, before     *)
(* GitHub has to kill its job, although the coordinator may never have     *)
(* seen it, or may be gone ("workers also have a bounded timeout").        *)
NoOrphan ==
  \A w \in Worker :
    worker[w] = "serving" /\ hold[w] < limit[w]
      ~> worker[w] \in {"done", "expired", "lost"}

(* The acceptance job decides every run, whoever is lost or hangs.         *)
Decided == <>(accepted # "waiting")
=============================================================================
