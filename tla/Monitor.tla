------------------------------- MODULE Monitor -------------------------------
(***************************************************************************)
(* The path of a check through the agent: the sync loop of cmdRun, which   *)
(* pulls the list of targets from the Control Plane; dynamicManager        *)
(* (internal/scheduler/manager_impl.go), which runs one ticking goroutine  *)
(* per target; agentPool (cmd/agent/main.go), whose workers take the jobs  *)
(* the goroutines enqueue and hand the results to the alert engine.        *)
(*                                                                         *)
(* Of the alert engine this module keeps what the scheduler's resets are   *)
(* about: from which configurations' results the entry of a target was     *)
(* built.  AlertEngine models the rest.                                    *)
(*                                                                         *)
(* SyncConfiguration holds m.mu throughout and the loops do not take it.   *)
(* It is one action: its ResetTarget calls and the loops it starts or      *)
(* cancels concern different targets or commute with the workers' steps.   *)
(***************************************************************************)
EXTENDS Integers, Sequences, FiniteSets

CONSTANTS
  Target,     \* target ids
  Version,    \* what a TargetConfig says besides its id
  Active,     \* the versions whose IsActive is true
  Listable,   \* the lists the Control Plane may answer with
  Worker,     \* the goroutines of agentPool
  QueueCap,   \* capacity of jobQueue (maxWorkers*3 = 150 in the code)
  MaxLoops,   \* bound: loops started for one target
  MaxEdits    \* bound: edits of the target list on the Control Plane

Lists == UNION {[S -> Version] : S \in SUBSET Target}

ASSUME MonitorAssumption ==
  /\ Active \subseteq Version
  /\ Listable \subseteq Lists
  /\ QueueCap \in Nat
  /\ MaxLoops \in Nat
  /\ MaxEdits \in Nat

VARIABLES
  cp,            \* external: the list the Control Plane would answer with
  edits,         \* edits of cp so far
  sync,          \* where the sync loop is, and the list it holds
  applied,       \* did the last SyncConfiguration take effect?
  running,       \* m.rootCtx # nil: StartTicks has run
  done,          \* ctx is cancelled: SIGTERM was received
  parents,       \* the list the engine's parentMap was built from
  activeTargets, \* m.activeTargets
  cancelFuncs,   \* m.cancelFuncs: the loop each entry cancels
  loops,         \* the live runTargetLoop goroutines, by target and number
  started,       \* loops started so far, per target
  jobQueue,      \* p.jobQueue
  worker,        \* what each worker is doing
  evidence       \* versions whose results each engine entry was built from

syncVars  == <<cp, edits, sync, applied>>
schedVars == <<running, parents, activeTargets, cancelFuncs, started>>
vars == <<syncVars, schedVars, done, loops, jobQueue, worker, evidence>>

-----------------------------------------------------------------------------
(* Types. *)
NoTargets == [t \in {} |-> CHOOSE v \in Version : TRUE]

Job == [target : Target, version : Version]

(* A loop waits out its jitter, is about to send its first job, or ticks.  *)
LoopState == [version : Version, at : {"jitter", "first", "ticking"},
              cancelled : BOOLEAN]

SyncState == [at : {"boot", "waiting", "stopped"}, list : {NoTargets}]
               \cup [at : {"fetched", "updated"}, list : Lists]

WorkerState == [at : {"idle", "exited"}, job : {<<>>}]
                 \cup [at : {"checking", "processed"}, job : Job]

Idle == [at |-> "idle", job |-> <<>>]

(* incomingMap: the active targets of a list. *)
Incoming(list) == [t \in {x \in DOMAIN list : list[x] \in Active} |-> list[t]]

(* Mutant: the loops' contexts are not derived from rootCtx. *)
CancelledAlone(l) == loops[l].cancelled

Cancelled(l) == done \/ loops[l].cancelled

-----------------------------------------------------------------------------
(* The Control Plane. *)
Edit == /\ edits < MaxEdits
        /\ edits' = edits + 1
        /\ \E list \in Listable : list # cp /\ cp' = list
        /\ UNCHANGED <<sync, applied, schedVars, done, loops, jobQueue, worker, evidence>>

-----------------------------------------------------------------------------
(* The sync loop: doSync at boot, then on every tick of PollInterval.      *)
(* fetchConfig returns what the Control Plane answers, or an error.        *)
FetchConfig ==
  /\ sync.at \in {"boot", "waiting"}
  /\ ~done
  /\ sync' = [at |-> "fetched", list |-> cp]
  /\ UNCHANGED <<cp, edits, applied, schedVars, done, loops, jobQueue, worker, evidence>>

FetchFails ==
  /\ sync.at = "boot"
  /\ sync' = [at |-> "waiting", list |-> NoTargets]
  /\ UNCHANGED <<cp, edits, applied, schedVars, done, loops, jobQueue, worker, evidence>>

StopSync ==
  /\ sync.at = "waiting" /\ done
  /\ sync' = [sync EXCEPT !.at = "stopped"]
  /\ UNCHANGED <<cp, edits, applied, schedVars, done, loops, jobQueue, worker, evidence>>

(* alertEngine.UpdateTargets. *)
UpdateTargets ==
  /\ sync.at = "fetched"
  /\ sync' = [sync EXCEPT !.at = "updated"]
  /\ parents' = sync.list
  /\ UNCHANGED <<cp, edits, applied, running, activeTargets, cancelFuncs, started,
                 done, loops, jobQueue, worker, evidence>>

(* Mutant: the configurations are not compared. *)
StaleIfDropped(incoming) == {t \in DOMAIN activeTargets : t \notin DOMAIN incoming}

(* The active targets that the list drops or changes. *)
Stale(incoming) ==
  {t \in DOMAIN activeTargets : t \notin DOMAIN incoming \/ incoming[t] # activeTargets[t]}

(* Mutant: a changed target is cancelled, but keeps its entry. *)
KeptUnlessDropped(S) == DOMAIN activeTargets \ (S \ DOMAIN Incoming(sync.list))

(* The targets that stay scheduled when those of S are cancelled. *)
Kept(S) == DOMAIN activeTargets \ S

(* Mutant: the entry is deleted and its CancelFunc not called. *)
CancelledByNobody(S) == {}

(* The loops whose CancelFunc a sync calls for the targets of S. *)
CancelledBy(S) == {<<t, cancelFuncs[t]>> : t \in S \cap DOMAIN cancelFuncs}

SyncConfiguration ==
  LET incoming == Incoming(sync.list)
      stale    == Stale(incoming)
      kept     == Kept(stale)
      added    == DOMAIN incoming \ kept
      new      == {<<t, started[t] + 1>> : t \in added}
  IN  /\ \A t \in added : started[t] < MaxLoops
      /\ activeTargets' = [t \in kept \cup added |->
                             IF t \in added THEN incoming[t] ELSE activeTargets[t]]
      /\ cancelFuncs' = [t \in (DOMAIN cancelFuncs \ stale) \cup added |->
                           IF t \in added THEN started[t] + 1 ELSE cancelFuncs[t]]
      /\ started' = [t \in Target |-> IF t \in added THEN started[t] + 1 ELSE started[t]]
      /\ loops' = [l \in DOMAIN loops \cup new |->
                     IF l \in new
                     THEN [version |-> incoming[l[1]], at |-> "jitter", cancelled |-> FALSE]
                     ELSE [loops[l] EXCEPT !.cancelled = @ \/ l \in CancelledBy(stale)]]
      /\ evidence' = [t \in Target |-> IF t \in stale THEN {} ELSE evidence[t]]

(* The call of SyncConfiguration and the "sync OK" that is logged after it *)
(* whether it took effect or returned at once.                             *)
Sync ==
  /\ sync.at = "updated"
  /\ sync' = [at |-> "waiting", list |-> NoTargets]
  /\ applied' = (running /\ ~done)
  /\ IF running /\ ~done
     THEN SyncConfiguration
     ELSE UNCHANGED <<activeTargets, cancelFuncs, started, loops, evidence>>
  /\ UNCHANGED <<cp, edits, running, parents, done, jobQueue, worker>>

-----------------------------------------------------------------------------
(* The scheduler's goroutines. *)
StartTicks ==
  /\ ~running
  /\ running' = TRUE
  /\ UNCHANGED <<syncVars, parents, activeTargets, cancelFuncs, started, done, loops,
                 jobQueue, worker, evidence>>

(* The jitter is over; select may find ctx done as well, and take either.  *)
JitterOver(l) ==
  /\ loops[l].at = "jitter"
  /\ loops' = [loops EXCEPT ![l].at = "first"]
  /\ UNCHANGED <<syncVars, schedVars, done, jobQueue, worker, evidence>>

(* Mutant: the queue takes one job too many. *)
QueueHasRoomForOneMore == Len(jobQueue) <= QueueCap

QueueHasRoom == Len(jobQueue) < QueueCap

(* EnqueueJob, which drops the job if the queue is full; the first job is  *)
(* sent without another look at ctx.                                       *)
EnqueueJob(l) ==
  /\ loops[l].at \in {"first", "ticking"}
  /\ loops' = [loops EXCEPT ![l].at = "ticking"]
  /\ jobQueue' = IF QueueHasRoom
                 THEN Append(jobQueue, [target |-> l[1], version |-> loops[l].version])
                 ELSE jobQueue
  /\ UNCHANGED <<syncVars, schedVars, done, worker, evidence>>

ExitLoop(l) ==
  /\ Cancelled(l)
  /\ loops[l].at \in {"jitter", "ticking"}
  /\ loops' = [x \in DOMAIN loops \ {l} |-> loops[x]]
  /\ UNCHANGED <<syncVars, schedVars, done, jobQueue, worker, evidence>>

-----------------------------------------------------------------------------
(* The workers. *)
TakeJob(w) ==
  /\ worker[w].at = "idle"
  /\ jobQueue # <<>>
  /\ jobQueue' = Tail(jobQueue)
  /\ worker' = [worker EXCEPT ![w] =
                  IF Head(jobQueue).version \in Active
                  THEN [at |-> "checking", job |-> Head(jobQueue)]
                  ELSE Idle]
  /\ UNCHANGED <<syncVars, schedVars, done, loops, evidence>>

(* The check is over and alertEngine.ProcessResult runs. *)
ProcessResult(w) ==
  /\ worker[w].at = "checking"
  /\ worker' = [worker EXCEPT ![w].at = "processed"]
  /\ evidence' = [evidence EXCEPT ![worker[w].job.target] =
                    @ \cup {worker[w].job.version}]
  /\ UNCHANGED <<syncVars, schedVars, done, loops, jobQueue>>

(* rep.Add, and back to the select. *)
Report(w) ==
  /\ worker[w].at = "processed"
  /\ worker' = [worker EXCEPT ![w] = Idle]
  /\ UNCHANGED <<syncVars, schedVars, done, loops, jobQueue, evidence>>

ExitWorker(w) ==
  /\ worker[w].at = "idle" /\ done
  /\ worker' = [worker EXCEPT ![w].at = "exited"]
  /\ UNCHANGED <<syncVars, schedVars, done, loops, jobQueue, evidence>>

(* SIGINT or SIGTERM: cancel(). *)
Shutdown ==
  /\ ~done
  /\ done' = TRUE
  /\ UNCHANGED <<syncVars, schedVars, loops, jobQueue, worker, evidence>>

-----------------------------------------------------------------------------
Init == /\ cp \in Listable
        /\ edits = 0
        /\ sync = [at |-> "boot", list |-> NoTargets]
        /\ applied = FALSE
        /\ running = FALSE
        /\ done = FALSE
        /\ parents = NoTargets
        /\ activeTargets = NoTargets
        /\ cancelFuncs = [t \in {} |-> 0]
        /\ loops = [l \in {} |-> 0]
        /\ started = [t \in Target |-> 0]
        /\ jobQueue = <<>>
        /\ worker = [w \in Worker |-> Idle]
        /\ evidence = [t \in Target |-> {}]

Next == \/ Edit
        \/ FetchConfig \/ FetchFails \/ UpdateTargets \/ Sync \/ StopSync
        \/ StartTicks
        \/ \E l \in DOMAIN loops : JitterOver(l) \/ EnqueueJob(l) \/ ExitLoop(l)
        \/ \E w \in Worker : TakeJob(w) \/ ProcessResult(w) \/ Report(w) \/ ExitWorker(w)
        \/ Shutdown

Spec == Init /\ [][Next]_vars

(* Goroutines that can run do run; a select that finds ctx done and a tick *)
(* both ready picks at random, so it does not pick the tick for ever; the  *)
(* ticker of the sync loop keeps ticking and the Control Plane eventually  *)
(* answers one of the requests.                                            *)
LoopIds == Target \X (1 .. MaxLoops)

JitterEnds(l) == l \in DOMAIN loops /\ JitterOver(l)
Ticks(l)      == l \in DOMAIN loops /\ EnqueueJob(l)
Exits(l)      == l \in DOMAIN loops /\ ExitLoop(l)

LoopFair(l) == WF_vars(JitterEnds(l)) /\ WF_vars(Ticks(l)) /\ WF_vars(Exits(l))

LoopsFair == \A l \in LoopIds : LoopFair(l)

Fairness ==
  /\ WF_vars(FetchConfig) /\ WF_vars(FetchFails) /\ WF_vars(UpdateTargets)
  /\ WF_vars(Sync) /\ WF_vars(StopSync) /\ WF_vars(StartTicks)
  /\ LoopsFair
  /\ \A w \in Worker : /\ WF_vars(TakeJob(w)) /\ WF_vars(ProcessResult(w))
                       /\ WF_vars(Report(w)) /\ WF_vars(ExitWorker(w))

FairSpec == Spec /\ Fairness

-----------------------------------------------------------------------------
(* Properties *)

(* Every variable has its type. *)
TypeOK ==
  /\ cp \in Lists /\ parents \in Lists /\ activeTargets \in Lists
  /\ edits \in Nat
  /\ sync \in SyncState
  /\ applied \in BOOLEAN /\ running \in BOOLEAN /\ done \in BOOLEAN
  /\ DOMAIN cancelFuncs \subseteq Target
  /\ \A t \in DOMAIN cancelFuncs : cancelFuncs[t] \in Nat
  /\ started \in [Target -> Nat]
  /\ DOMAIN loops \subseteq Target \X Nat
  /\ \A l \in DOMAIN loops : loops[l] \in LoopState
  /\ jobQueue \in Seq(Job) /\ Len(jobQueue) <= QueueCap
  /\ worker \in [Worker -> WorkerState]
  /\ evidence \in [Target -> SUBSET Version]

(* A target is pinged by exactly one live loop, the one its CancelFunc     *)
(* cancels, with the configuration the scheduler lists for it: no sync     *)
(* leaves a loop that nobody can stop, or a listed target without a loop.  *)
OneLoopPerTarget ==
  /\ DOMAIN cancelFuncs = DOMAIN activeTargets
  /\ \A t \in DOMAIN activeTargets :
       LET l == <<t, cancelFuncs[t]>>
       IN  /\ ~done => l \in DOMAIN loops
           /\ l \in DOMAIN loops =>
                /\ ~loops[l].cancelled
                /\ loops[l].version = activeTargets[t]
  /\ \A l \in DOMAIN loops : ~loops[l].cancelled =>
       l[1] \in DOMAIN activeTargets /\ cancelFuncs[l[1]] = l[2]

(* The engine's topology and the scheduler's targets, which cmdRun updates *)
(* one after the other, come from one list except between the two calls,   *)
(* unless the last SyncConfiguration returned at once.                     *)
TopologyAgrees ==
  applied /\ sync.at # "updated" => Incoming(parents) = activeTargets

(* However the list was edited, however long jobs waited in the queue and  *)
(* even if the first sync came too early, an agent that keeps running      *)
(* comes to run exactly the last list of the Control Plane: its targets    *)
(* are scheduled, the loops and jobs of earlier configurations are gone.   *)
RunsList(list) ==
  /\ activeTargets = Incoming(list)
  /\ \A l \in DOMAIN loops : l[1] \in DOMAIN activeTargets
                             /\ loops[l].version = activeTargets[l[1]]
  /\ \A j \in {jobQueue[i] : i \in DOMAIN jobQueue}
              \cup {worker[w].job : w \in {x \in Worker : worker[x].at = "checking"}} :
       j.target \in DOMAIN activeTargets /\ j.version = activeTargets[j.target]

ConvergesToControlPlane ==
  \A list \in Listable : <>[](~done /\ cp = list) => <>[]RunsList(list)

(* What has converged stays so while the Control Plane keeps its list:     *)
(* fetches, failed syncs, dropped jobs and the signal bring nothing else   *)
(* back.                                                                   *)
HoldsNoOther(list) == cp = list /\ (sync.at \in {"fetched", "updated"} => sync.list = list)

Converged(list) == HoldsNoOther(list) /\ RunsList(list)

StaysConverged ==
  [][\A list \in Listable : Converged(list) /\ cp' = list => Converged(list)']_vars

(* The part of it that has no measure: the list is scheduled, and each     *)
(* loop that is not of it ends.                                            *)
Wanted(list) == ~done /\ cp = list
Scheduled(list) == activeTargets = Incoming(list)

LoopCurrent(l) == l \in DOMAIN loops => /\ l[1] \in DOMAIN activeTargets
                                        /\ loops[l].version = activeTargets[l[1]]

Schedules(list) == <>[]Wanted(list) => <>[]Scheduled(list)

Drops(list, l) == <>[]Wanted(list) => <>[]LoopCurrent(l)

ScheduleConverges ==
  \A list \in Listable : Schedules(list) /\ \A l \in LoopIds : Drops(list, l)

(* A loop whose context is cancelled ends, by a sync or by the signal, and *)
(* after the signal the sync loop returns.                                 *)
Ending(l) == l \in DOMAIN loops /\ Cancelled(l)
Gone(l)   == l \notin DOMAIN loops

LoopEnds(l) == Ending(l) ~> Gone(l)

CancelledLoopsEnd == \A l \in LoopIds : LoopEnds(l)

SyncLoopReturns == done ~> sync.at = "stopped"

(* Where the guard of a step under fairness holds, it can be taken; that   *)
(* of Sync includes MaxLoops, so this says too that MaxLoops is enough.    *)
LoopAt(l, a) == l \in DOMAIN loops /\ loops[l].at = a

LoopGuards(l) ==
  /\ LoopAt(l, "jitter") => ENABLED <<JitterEnds(l)>>_vars
  /\ LoopAt(l, "first") => ENABLED <<Ticks(l)>>_vars
  /\ LoopAt(l, "ticking") /\ Cancelled(l) => ENABLED <<Exits(l)>>_vars

LoopsGuarded == \A l \in LoopIds : LoopGuards(l)

GuardsSuffice ==
  /\ sync.at \in {"boot", "waiting"} /\ ~done => ENABLED <<FetchConfig>>_vars
  /\ sync.at = "boot" => ENABLED <<FetchFails>>_vars
  /\ sync.at = "fetched" => ENABLED <<UpdateTargets>>_vars
  /\ sync.at = "updated" => ENABLED <<Sync>>_vars
  /\ sync.at = "waiting" /\ done => ENABLED <<StopSync>>_vars
  /\ ~running => ENABLED <<StartTicks>>_vars
  /\ LoopsGuarded

(* After the signal every goroutine comes to an end. *)
ShutdownStops ==
  done ~> /\ loops = [l \in {} |-> 0]
          /\ \A w \in Worker : worker[w].at = "exited"
          /\ sync.at = "stopped"

(* What manager_impl.go:70 says of the reset: "Reset FSM state so          *)
(* reactivated targets start fresh (no stale isAlarmed)".                  *)
ReactivatedStartsFresh ==
  [][\A t \in DOMAIN activeTargets' :
       t \notin DOMAIN activeTargets \/ activeTargets'[t] # activeTargets[t]
       => evidence'[t] = {}]_vars

(* What cmdRun logs after a sync (main.go:316, "sync OK [boot]: N          *)
(* targets") and install-agent.sh waits for as "first config sync": the    *)
(* targets of the list are scheduled.                                      *)
SyncOkMeansScheduled ==
  [][sync.at = "updated" /\ sync'.at = "waiting" /\ ~done
     => activeTargets' = Incoming(sync.list)]_vars
=============================================================================
