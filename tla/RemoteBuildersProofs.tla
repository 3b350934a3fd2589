------------------------- MODULE RemoteBuildersProofs -------------------------
(***************************************************************************)
(* For pools of any size and any time limits: no timer runs below zero,    *)
(* releases reach every ready worker, an accepted pool was complete and    *)
(* finished in time, and no pool lives forever.                            *)
(***************************************************************************)
EXTENDS RemoteBuilders, TLAPS

(* discover() and stop(): whoever is ready is in hosts.json, and the loop  *)
(* over hosts.json is complete when the job ends by itself.                *)
HostsKnown ==
  /\ ready \subseteq hosts
  /\ coord \in {"success", "failure"} => hosts \subseteq tried

(* Without a failure so far, the pool is complete.                         *)
FullPool ==
  /\ \/ coord \in {"build", "verify", "success"}
     \/ coord = "release" /\ ~failed
     => ready = Worker /\ hosts = Worker
  /\ \A w \in ready : worker[w] \notin {"queued", "setup"}

(* A completion file that appeared too late is never obeyed.               *)
Punctual ==
  \A w \in Worker :
    /\ released[w] = "late" => hold[w] = 0
    /\ worker[w] = "done" => released[w] = "early"

(* The acceptance job judges a pool that has ended for good.               *)
Settled ==
  /\ accepted # "waiting" => AcceptStarts
  /\ accepted = "success" => PoolSucceeded

IInv == TypeOK /\ HostsKnown /\ FullPool /\ Punctual /\ Settled

LEMMA Initially == ASSUME Init PROVE IInv
<1>1. TypeOK
  <2>1. /\ worker \in [Worker -> WorkerState]
        /\ released \in [Worker -> {"no", "early", "late"}]
    BY DEF Init, WorkerState
  <2>2. /\ limit \in [Worker -> 0 .. WorkerTime]
        /\ hold \in [Worker -> 0 .. HoldTime]
    BY TimesAssumption DEF Init
  <2>3. /\ coord \in CoordState
        /\ clock \in 0 .. CoordTime
        /\ search \in 0 .. DiscoverTime
        /\ accepted \in {"waiting", "success", "failure"}
    BY TimesAssumption DEF Init, CoordState
  <2>4. /\ hosts \subseteq Worker
        /\ ready \subseteq Worker
        /\ tried \subseteq Worker
        /\ failed \in BOOLEAN
    BY DEF Init
  <2> QED
    BY <2>1, <2>2, <2>3, <2>4 DEF TypeOK
<1>2. HostsKnown /\ FullPool /\ Punctual /\ Settled
  BY DEF Init, HostsKnown, FullPool, Punctual, Settled
<1> QED
  BY <1>1, <1>2 DEF IInv

(* A step of one worker job changes the state of that worker only.         *)
LEMMA WorkerJobs ==
  ASSUME IInv, NEW w \in Worker,
         \/ WorkerStart(w) \/ WorkerServes(w) \/ HoldReturns(w)
         \/ HoldExpires(w) \/ WorkerLost(w) \/ WorkerKilled(w)
  PROVE  IInv'
<1> DEFINE s == worker'[w]
<1>1. /\ worker' = [worker EXCEPT ![w] = s]
      /\ worker[w] \in {"queued", "setup", "serving"}
      /\ s \in {"setup", "serving", "done", "expired", "lost", "killed"}
      /\ s = "setup" => worker[w] = "queued"
      /\ s = "serving" => worker[w] = "setup"
      /\ s = "done" => hold[w] > 0 /\ released[w] # "no"
      /\ UNCHANGED <<limit, hold, released, coordinator, accepted>>
  BY DEF IInv, TypeOK, WorkerStart, WorkerServes, HoldReturns, HoldExpires,
         WorkerLost, WorkerKilled
<1>2. UNCHANGED <<limit, hold, released, coord, clock, search, hosts, ready,
                  tried, failed, accepted>>
  BY <1>1 DEF coordinator
<1> HIDE DEF s
<1>3. worker'[w] = s /\ \A v \in Worker : v # w => worker'[v] = worker[v]
  BY <1>1 DEF IInv, TypeOK
<1>4. TypeOK'
  BY <1>1, <1>2 DEF IInv, TypeOK, WorkerState, CoordState
<1>5. HostsKnown'
  BY <1>2 DEF IInv, HostsKnown
<1>6. FullPool'
  BY <1>1, <1>2, <1>3 DEF IInv, TypeOK, FullPool
<1>7. Punctual'
  <2> SUFFICES ASSUME NEW v \in Worker
               PROVE  /\ released[v] = "late" => hold[v] = 0
                      /\ worker'[v] = "done" => released[v] = "early"
    BY <1>2 DEF Punctual
  <2>1. hold[v] \in Nat /\ released[v] \in {"no", "early", "late"}
    BY TimesAssumption DEF IInv, TypeOK
  <2> QED
    BY <1>1, <1>3, <2>1 DEF IInv, Punctual
<1>8. Settled'
  <2>1. accepted = "waiting"
    BY <1>1 DEF IInv, Settled, AcceptStarts, PoolSucceeded, WorkerEnd, TypeOK
  <2> QED
    BY <1>2, <2>1 DEF Settled
<1> QED
  BY <1>4, <1>5, <1>6, <1>7, <1>8 DEF IInv

(* The coordinator is still at work, hence nothing has been accepted.      *)
LEMMA NotYetAccepted ==
  ASSUME IInv, coord \notin CoordEnd PROVE accepted = "waiting"
BY DEF IInv, Settled, AcceptStarts

LEMMA Coordinator ==
  ASSUME IInv, \/ CoordStart \/ Discovered \/ DiscoverFails \/ Builds
               \/ CoordEnds \/ CoordInterrupted \/ CoordKilled
  PROVE  IInv'
<1>1. /\ UNCHANGED <<worker, limit, hold, released, clock, search, ready,
                     tried, accepted>>
      /\ coord \notin CoordEnd
  BY DEF CoordStart, Discovered, DiscoverFails, Builds, CoordEnds,
         CoordInterrupted, CoordKilled, workers, CoordEnd
<1>2. TypeOK'
  BY <1>1 DEF IInv, TypeOK, CoordState, CoordStart, Discovered, DiscoverFails,
              Builds, CoordEnds, CoordInterrupted, CoordKilled
<1>3. HostsKnown'
  BY <1>1 DEF IInv, HostsKnown, CoordStart, Discovered, DiscoverFails,
              Builds, CoordEnds, CoordInterrupted, CoordKilled
<1>4. FullPool'
  <2>1. failed' \in BOOLEAN
    BY <1>2 DEF TypeOK
  <2> QED
    BY <1>1, <2>1 DEF IInv, TypeOK, FullPool, CoordStart, Discovered, PoolReady,
                DiscoverFails, Builds, CoordEnds, CoordInterrupted, CoordKilled
<1>5. Punctual'
  BY <1>1 DEF IInv, Punctual
<1>6. Settled'
  BY <1>1, NotYetAccepted DEF Settled
<1> QED
  BY <1>2, <1>3, <1>4, <1>5, <1>6 DEF IInv

LEMMA Probing == ASSUME IInv, NEW w \in Worker, Probe(w) PROVE IInv'
<1>1. /\ coord = "discover" /\ SeesPeer(w)
      /\ hosts' = hosts \union {w}
      /\ ready' = ready \union {w} \/ ready' = ready
      /\ UNCHANGED <<worker, limit, hold, released, coord, clock, search,
                     tried, failed, accepted>>
  BY DEF Probe, workers, Saved
<1>2. TypeOK' /\ HostsKnown' /\ Punctual'
  BY <1>1 DEF IInv, TypeOK, HostsKnown, Punctual
<1>3. FullPool'
  BY <1>1 DEF IInv, FullPool, SeesPeer
<1>4. Settled'
  BY <1>1, NotYetAccepted DEF Settled, CoordEnd
<1> QED
  BY <1>2, <1>3, <1>4 DEF IInv

LEMMA Stopping == ASSUME IInv, NEW w \in Worker, StopHost(w) PROVE IInv'
<1>1. /\ coord = "release"
      /\ tried' = tried \union {w}
      /\ UNCHANGED <<worker, limit, hold, coord, clock, search, hosts, ready,
                     accepted>>
  BY DEF StopHost
<1>2. \/ /\ worker[w] = "serving" /\ failed' = failed
         /\ released' = [released EXCEPT ![w] = IF hold[w] > 0 THEN "early" ELSE "late"]
      \/ failed' = TRUE /\ released' = released
  BY DEF StopHost
<1>3. TypeOK'
  BY <1>1, <1>2 DEF IInv, TypeOK
<1>4. HostsKnown' /\ FullPool'
  BY <1>1, <1>2 DEF IInv, TypeOK, HostsKnown, FullPool
<1>5. Punctual'
  <2> SUFFICES ASSUME NEW v \in Worker
               PROVE  /\ released'[v] = "late" => hold[v] = 0
                      /\ worker[v] = "done" => released'[v] = "early"
    BY <1>1 DEF Punctual
  <2>1. hold[v] \in Nat /\ hold[w] \in Nat
    BY TimesAssumption DEF IInv, TypeOK
  <2>2. released'[v] = released[v]
        \/ (v = w /\ worker[v] = "serving"
             /\ released'[v] = IF hold[v] > 0 THEN "early" ELSE "late")
    BY <1>2 DEF IInv, TypeOK
  <2> QED
    BY <2>1, <2>2 DEF IInv, Punctual
<1>6. Settled'
  BY <1>1, NotYetAccepted DEF Settled, CoordEnd
<1> QED
  BY <1>3, <1>4, <1>5, <1>6 DEF IInv

LEMMA Accepting == ASSUME IInv, Accept PROVE IInv'
<1>1. /\ UNCHANGED <<worker, limit, hold, released, coord, clock, search,
                     hosts, ready, tried, failed>>
      /\ AcceptStarts
      /\ accepted' \in {"success", "failure"}
      /\ accepted' = "success" => PoolSucceeded
  BY DEF Accept, workers, coordinator
<1>2. TypeOK' /\ HostsKnown' /\ FullPool' /\ Punctual'
  BY <1>1 DEF IInv, TypeOK, HostsKnown, FullPool, Punctual
<1>3. Settled'
  BY <1>1 DEF Settled, AcceptStarts, PoolSucceeded
<1> QED
  BY <1>2, <1>3 DEF IInv

LEMMA Ticking == ASSUME IInv, Tick PROVE IInv'
<1>1. UNCHANGED <<worker, released, coord, hosts, ready, tried, failed, accepted>>
  BY DEF Tick
<1>2. limit' \in [Worker -> 0 .. WorkerTime]
  <2>1. \A w \in Worker : worker[w] \in {"setup", "serving"} => limit[w] # 0
    BY DEF Tick, Urgent
  <2> QED
    BY <2>1, TimesAssumption DEF IInv, TypeOK, Tick
<1>3. hold' \in [Worker -> 0 .. HoldTime]
  <2>1. \A w \in Worker : worker[w] = "serving" => hold[w] # 0
    BY DEF Tick, Urgent, GivesUp
  <2> QED
    BY <2>1, TimesAssumption DEF IInv, TypeOK, Tick
<1>4. clock' \in 0 .. CoordTime /\ search' \in 0 .. DiscoverTime
  BY TimesAssumption DEF IInv, TypeOK, Tick, Urgent
<1>5. TypeOK'
  BY <1>1, <1>2, <1>3, <1>4 DEF IInv, TypeOK
<1>6. HostsKnown' /\ FullPool'
  BY <1>1 DEF IInv, HostsKnown, FullPool
<1>7. Punctual'
  <2> SUFFICES ASSUME NEW w \in Worker, released[w] = "late" PROVE hold'[w] = 0
    BY <1>1 DEF IInv, Punctual
  <2>1. hold[w] = 0 /\ worker[w] # "serving"
    BY DEF IInv, Punctual, Tick, Urgent, GivesUp
  <2> QED
    BY <2>1 DEF Tick
<1>8. Settled'
  BY <1>1 DEF IInv, Settled, AcceptStarts, PoolSucceeded
<1> QED
  BY <1>5, <1>6, <1>7, <1>8 DEF IInv

LEMMA Stuttering == ASSUME IInv, UNCHANGED vars PROVE IInv'
BY DEF IInv, vars, TypeOK, HostsKnown, FullPool, Punctual, Settled,
       AcceptStarts, PoolSucceeded

(* Every step keeps the inductive invariant.                               *)
THEOREM Invariance == Spec => []IInv
<1>1. Init => IInv
  BY Initially
<1>2. IInv /\ [Next]_vars => IInv'
  BY WorkerJobs, Coordinator, Probing, Stopping, Accepting, Ticking, Stuttering
     DEF Next, WorkerStep, CoordStep
<1> QED
  BY <1>1, <1>2, PTL DEF Spec

(* No timer of the pool runs below zero: every limit is enforced.          *)
THEOREM PoolTypeCorrect == Spec => []TypeOK
<1>1. IInv => TypeOK
  BY DEF IInv
<1> QED
  BY <1>1, Invariance, PTL

(* stop() tries to release every worker that discover() found ready.       *)
THEOREM ReleasesReachReady == Spec => []ReadyReleased
<1>1. IInv => ReadyReleased
  BY DEF IInv, HostsKnown, ReadyReleased
<1> QED
  BY <1>1, Invariance, PTL

(* An accepted pool was complete and released before its deadlines.        *)
THEOREM AcceptsInTime == Spec => []AcceptedInTime
<1>1. IInv => AcceptedInTime
  BY DEF IInv, Settled, PoolSucceeded, FullPool, Punctual, AcceptedInTime
<1> QED
  BY <1>1, Invariance, PTL

-----------------------------------------------------------------------------
(***************************************************************************)
(* What the liveness properties rest on, apart from fairness: the deadline *)
(* of hold() stays ahead of GitHub's, and everything in a run is used up.  *)
(***************************************************************************)

(* A worker whose deadline is before GitHub's keeps it so, or ends.        *)
EndsByItself ==
  \A w \in Worker :
    worker[w] = "serving" /\ hold[w] < limit[w] =>
      \/ worker'[w] = "serving" /\ hold'[w] < limit'[w]
      \/ worker'[w] \in {"done", "expired", "lost"}

(* A worker that began to serve in time is never killed by its job's limit *)
(* and its deadline stays the earlier one, whatever the coordinator does   *)
(* or fails to do: hold() returns, gives up or the machine is lost         *)
(* ("workers also have a bounded timeout").                                *)
THEOREM NeverOrphaned == Spec => [][EndsByItself]_vars
<1>1. ASSUME IInv, Next PROVE EndsByItself
  <2> SUFFICES ASSUME NEW w \in Worker, worker[w] = "serving", hold[w] < limit[w]
               PROVE  \/ worker'[w] = "serving" /\ hold'[w] < limit'[w]
                      \/ worker'[w] \in {"done", "expired", "lost"}
    BY DEF EndsByItself
  <2>1. /\ hold[w] \in Nat /\ limit[w] \in Nat
        /\ worker \in [Worker -> WorkerState]
    BY <1>1, TimesAssumption DEF IInv, TypeOK
  <2>2. ASSUME NEW v \in Worker, WorkerStep(v) \/ WorkerServes(v) \/ WorkerLost(v)
        PROVE  /\ UNCHANGED <<hold, limit>>
               /\ worker'[w] = worker[w] \/ worker'[w] \in {"done", "expired", "lost"}
    <3>1. limit[w] # 0
      BY <2>1
    <3> QED
      BY <2>1, <2>2, <3>1 DEF WorkerStep, WorkerStart, WorkerServes, HoldReturns, HoldExpires,
                              WorkerLost, WorkerKilled
  <2>3. CASE Tick
    <3>1. hold[w] # 0 /\ limit[w] # 0
      BY <2>3 DEF Tick, Urgent, GivesUp
    <3>2. worker'[w] = "serving" /\ hold'[w] = hold[w] - 1 /\ limit'[w] = limit[w] - 1
      BY <2>3 DEF Tick
    <3> QED
      BY <2>1, <3>1, <3>2
  <2>4. CASE UNCHANGED <<worker, limit, hold>>
    BY <2>4
  <2>5. \/ \E v \in Worker : WorkerStep(v) \/ WorkerServes(v) \/ WorkerLost(v)
        \/ Tick \/ UNCHANGED <<worker, limit, hold>>
    BY <1>1 DEF Next, CoordStep, Probe, CoordStart, Discovered, DiscoverFails, StopHost,
                CoordEnds, CoordKilled, Builds, CoordInterrupted, Accept, workers
  <2> QED
    BY <2>2, <2>3, <2>4, <2>5
<1>2. IInv /\ [Next]_vars => [EndsByItself]_vars
  BY <1>1
<1> QED
  BY <1>2, Invariance, PTL DEF Spec

(* What a worker job, the coordinator and the acceptance job can still do: *)
(* steps and ticks.                                                        *)
WorkerLeft(w) ==
  (CASE worker[w] = "queued" -> 3 [] worker[w] = "setup" -> 2
     [] worker[w] = "serving" -> 1 [] OTHER -> 0)
  + limit[w] + hold[w]

CoordLeft ==
  (CASE coord = "queued" -> 5 [] coord = "discover" -> 4 [] coord = "build" -> 3
     [] coord = "verify" -> 2 [] coord = "release" -> 1 [] OTHER -> 0)
  + clock + search

AcceptLeft == IF accepted = "waiting" THEN 1 ELSE 0

(* Nothing grows back, and every step uses something up.                   *)
UsesUp ==
  /\ \A w \in Worker : WorkerLeft(w)' <= WorkerLeft(w)
  /\ CoordLeft' <= CoordLeft /\ AcceptLeft' <= AcceptLeft
  /\ hosts \subseteq hosts' /\ ready \subseteq ready' /\ tried \subseteq tried'
  /\ \/ \E w \in Worker : WorkerLeft(w)' < WorkerLeft(w)
     \/ CoordLeft' < CoordLeft \/ AcceptLeft' < AcceptLeft
     \/ hosts' # hosts \/ ready' # ready \/ tried' # tried

LEMMA LeftTypes ==
  ASSUME IInv
  PROVE  /\ CoordLeft \in Nat /\ AcceptLeft \in Nat
         /\ \A w \in Worker : WorkerLeft(w) \in Nat
<1>1. /\ clock \in Nat /\ search \in Nat
      /\ \A w \in Worker : limit[w] \in Nat /\ hold[w] \in Nat
  BY TimesAssumption DEF IInv, TypeOK
<1> QED
  BY <1>1 DEF CoordLeft, AcceptLeft, WorkerLeft

(* A run of the pool terminates, for pools of any size and whatever its    *)
(* jobs do: timers only run down, the files and lists of discover() and    *)
(* stop() only grow, no job starts twice, and no step leaves all as it was.*)
THEOREM PoolTerminates == Spec => [][UsesUp]_vars
<1>1. ASSUME IInv, Next, vars' # vars PROVE UsesUp
  <2>1. /\ CoordLeft \in Nat /\ AcceptLeft \in Nat
        /\ \A w \in Worker : WorkerLeft(w) \in Nat
    BY <1>1, LeftTypes
  <2>2. /\ clock \in Nat /\ search \in Nat
        /\ \A w \in Worker : limit[w] \in Nat /\ hold[w] \in Nat
        /\ worker \in [Worker -> WorkerState]
        /\ limit \in [Worker -> 0 .. WorkerTime] /\ hold \in [Worker -> 0 .. HoldTime]
        /\ coord \in CoordState
    BY <1>1, TimesAssumption DEF IInv, TypeOK
  <2>3. ASSUME NEW v \in Worker, WorkerStep(v) \/ WorkerServes(v) \/ WorkerLost(v)
        PROVE  UsesUp
    <3>1. /\ UNCHANGED <<limit, hold, coordinator, accepted>>
          /\ \A w \in Worker \ {v} : worker'[w] = worker[w]
          /\ \/ worker[v] = "queued" /\ worker'[v] = "setup"
             \/ worker[v] = "setup" /\ worker'[v] = "serving"
             \/ worker[v] \in {"setup", "serving"} /\ worker'[v] \in WorkerEnd
      BY <2>2, <2>3 DEF WorkerStep, WorkerStart, WorkerServes, HoldReturns, HoldExpires,
                        WorkerLost, WorkerKilled, WorkerEnd
    <3>2. \A w \in Worker \ {v} : WorkerLeft(w)' = WorkerLeft(w)
      BY <3>1 DEF WorkerLeft
    <3>3. WorkerLeft(v)' < WorkerLeft(v) /\ WorkerLeft(v)' <= WorkerLeft(v)
      BY <2>2, <3>1 DEF WorkerLeft, WorkerEnd
    <3>4. CoordLeft' = CoordLeft /\ AcceptLeft' = AcceptLeft
      BY <3>1 DEF coordinator, CoordLeft, AcceptLeft
    <3>5. \A w \in Worker : WorkerLeft(w)' <= WorkerLeft(w)
      BY <2>1, <3>2, <3>3
    <3> QED
      BY <2>1, <3>1, <3>3, <3>4, <3>5 DEF UsesUp, coordinator
  <2>4. ASSUME UNCHANGED <<worker, limit, hold>>
        PROVE  \A w \in Worker : WorkerLeft(w)' = WorkerLeft(w)
    BY <2>4 DEF WorkerLeft
  <2>5. ASSUME coord' # coord, UNCHANGED <<workers, clock, search, ready, tried, accepted>>,
               hosts \subseteq hosts',
               \/ coord = "queued"
               \/ coord = "discover" /\ coord' # "queued"
               \/ coord = "build" /\ coord' \notin {"queued", "discover"}
               \/ coord = "verify" /\ coord' \in {"release"} \union CoordEnd
               \/ coord = "release" /\ coord' \in CoordEnd
        PROVE  UsesUp
    <3>1. CoordLeft' < CoordLeft /\ CoordLeft' <= CoordLeft
      BY <2>2, <2>5 DEF CoordLeft, CoordEnd
    <3>2. AcceptLeft' = AcceptLeft
      BY <2>5 DEF AcceptLeft
    <3>3. \A w \in Worker : WorkerLeft(w)' = WorkerLeft(w)
      BY <2>4, <2>5 DEF workers
    <3> QED
      BY <2>1, <2>5, <3>1, <3>2, <3>3 DEF UsesUp
  <2>6. CASE CoordStart
    BY <2>5, <2>6 DEF CoordStart
  <2>7. CASE Discovered
    BY <1>1, <2>5, <2>7 DEF Discovered, PoolReady, IInv, TypeOK
  <2>8. CASE DiscoverFails
    BY <2>5, <2>8 DEF DiscoverFails
  <2>9. CASE Builds
    BY <2>5, <2>9 DEF Builds
  <2>10. CASE CoordInterrupted
    BY <2>5, <2>10 DEF CoordInterrupted
  <2>11. CASE CoordEnds
    BY <2>5, <2>11 DEF CoordEnds, CoordEnd
  <2>12. CASE CoordKilled
    <3>1. coord \in {"discover", "build", "verify", "release"}
      BY <2>2, <2>12 DEF CoordKilled, CoordState, CoordEnd
    <3> QED
      BY <2>5, <2>12, <3>1 DEF CoordKilled, CoordEnd
  <2>13. ASSUME UNCHANGED <<worker, limit, hold, coord, clock, search, accepted>>,
                hosts \subseteq hosts', ready \subseteq ready', tried \subseteq tried',
                hosts' # hosts \/ ready' # ready \/ tried' # tried
         PROVE  UsesUp
    <3>1. \A w \in Worker : WorkerLeft(w)' = WorkerLeft(w)
      BY <2>4, <2>13
    <3>2. CoordLeft' = CoordLeft /\ AcceptLeft' = AcceptLeft
      BY <2>13 DEF CoordLeft, AcceptLeft
    <3> QED
      BY <2>1, <2>13, <3>1, <3>2 DEF UsesUp
  <2>14. ASSUME NEW v \in Worker, Probe(v) PROVE UsesUp
    <3>1. hosts' # hosts \/ ready' # ready
      BY <1>1, <2>14 DEF Probe, vars, workers
    <3> QED
      BY <2>13, <2>14, <3>1 DEF Probe, workers
  <2>15. ASSUME NEW v \in Worker, StopHost(v) PROVE UsesUp
    BY <2>13, <2>15 DEF StopHost
  <2>16. CASE Accept
    <3>1. UNCHANGED <<workers, coordinator>> /\ accepted = "waiting" /\ accepted' # "waiting"
      BY <2>16 DEF Accept
    <3>2. AcceptLeft = 1 /\ AcceptLeft' = 0 /\ CoordLeft' = CoordLeft
      BY <3>1 DEF AcceptLeft, CoordLeft, coordinator
    <3>3. \A w \in Worker : WorkerLeft(w)' = WorkerLeft(w)
      BY <2>4, <3>1 DEF workers
    <3> QED
      BY <2>1, <3>1, <3>2, <3>3 DEF UsesUp, coordinator
  <2>17. CASE Tick
    <3>1. UNCHANGED <<worker, released, coord, hosts, ready, tried, failed, accepted>>
      BY <2>17 DEF Tick
    <3>2. \A w \in Worker :
            /\ limit'[w] = IF worker[w] \in {"setup", "serving"} THEN limit[w] - 1 ELSE limit[w]
            /\ hold'[w] = IF worker[w] = "serving" THEN hold[w] - 1 ELSE hold[w]
      BY <2>17 DEF Tick
    <3>3. /\ clock' = IF coord \in CoordEnd \union {"queued"} THEN clock ELSE clock - 1
          /\ search' = IF coord = "discover" THEN search - 1 ELSE search
      BY <2>17 DEF Tick
    <3>4. \A w \in Worker : /\ WorkerLeft(w)' <= WorkerLeft(w)
                            /\ worker[w] \in {"setup", "serving"} => WorkerLeft(w)' < WorkerLeft(w)
      BY <2>2, <3>1, <3>2 DEF WorkerLeft
    <3>5. /\ CoordLeft' <= CoordLeft /\ AcceptLeft' = AcceptLeft
          /\ coord \notin CoordEnd \union {"queued"} => CoordLeft' < CoordLeft
      BY <2>2, <3>1, <3>3 DEF CoordLeft, AcceptLeft, CoordEnd
    <3>6. CASE /\ \A w \in Worker : worker[w] \notin {"setup", "serving"}
               /\ coord \in CoordEnd \union {"queued"}
      <4>1. limit' = limit /\ hold' = hold
        BY <2>2, <2>17, <3>6 DEF Tick
      <4>2. clock' = clock /\ search' = search
        BY <3>3, <3>6 DEF CoordEnd
      <4> QED
        BY <1>1, <3>1, <4>1, <4>2 DEF vars
    <3> QED
      BY <2>1, <3>1, <3>4, <3>5, <3>6 DEF UsesUp
  <2> QED
    BY <1>1, <2>3, <2>6, <2>7, <2>8, <2>9, <2>10, <2>11, <2>12, <2>14, <2>15, <2>16, <2>17
       DEF Next, CoordStep
<1>2. IInv /\ [Next]_vars => [UsesUp]_vars
  BY <1>1
<1> QED
  BY <1>2, Invariance, PTL DEF Spec
=============================================================================
