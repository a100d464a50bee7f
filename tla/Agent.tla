-------------------------------- MODULE Agent --------------------------------
(***************************************************************************)
(* The scheduler, the pool and the alert engine of a running agent         *)
(* together: Monitor, whose workers hand each result to the engine of      *)
(* AlertEngine under the configuration that the job carried, which may be  *)
(* older than the one the target has now.                                  *)
(*                                                                         *)
(* Here the targets are real: they go down and come up, and a check says   *)
(* what it saw.  So alarms can be compared with outages, across edits of   *)
(* the list, resets and the shutdown.  Rules are immediate (T = 0); time   *)
(* is left to AlertHistory.                                                *)
(***************************************************************************)
EXTENDS Monitor

CONSTANTS
  Root,       \* the ParentID "" of a root target
  Rule,       \* the rule, thresholds and contacts of each version
  Parent,     \* the ParentID of each version
  Latency,    \* the latencies an answered probe may measure
  MaxErrors,  \* bound: failures counted for a target
  MaxFlips    \* bound: outages that begin or end

ASSUME AgentAssumption ==
  /\ DOMAIN Rule = Version /\ \A v \in Version : Rule[v].T = 0 /\ Rule[v].R \in Int
  /\ Parent \in [Version -> Target \cup {Root}]
  /\ MaxErrors \in Nat /\ MaxFlips \in Nat

VARIABLES
  states,   \* e.states
  told,     \* the last word on each target since its last reset
  answer,   \* what the check of each worker has found
  up,       \* external: the targets that answer
  flips,    \* outages that began or ended so far
  wasDown   \* the targets that failed to answer at some time

engineVars == <<states, told, answer>>
worldVars  == <<up, flips, wasDown>>
agentVars  == <<vars, engineVars, worldVars>>

-----------------------------------------------------------------------------
ParentMap == [t \in DOMAIN parents |-> Parent[parents[t]]]

(* The engine in the hands of worker w, under the configuration of its job. *)
Engine(w) == INSTANCE AlertEngine
  WITH cfg <- [t \in Target |-> Rule[worker[w].job.version]],
       parentMap <- ParentMap, now <- 1,
       Config <- {Rule[v] : v \in Version}, Topology <- {},
       Minute <- 60, MaxTime <- 1, MaxLag <- 0

(* The engine under the configurations that the scheduler lists. *)
Listed == INSTANCE AlertEngine
  WITH cfg <- [t \in DOMAIN activeTargets |-> Rule[activeTargets[t]]], parentMap <- ParentMap, now <- 1,
       Config <- {Rule[v] : v \in Version}, Topology <- {},
       Minute <- 60, MaxTime <- 1, MaxLag <- 0

Alarmed(t) == Listed!Alarmed(states, t)

-----------------------------------------------------------------------------
(* The targets, and the checks of them.                                    *)
Flip(t) ==
  /\ flips < MaxFlips
  /\ flips' = flips + 1
  /\ up' = IF t \in up THEN up \ {t} ELSE up \cup {t}
  /\ wasDown' = wasDown \cup (Target \ up')
  /\ UNCHANGED <<vars, engineVars>>

(* Mutant: checks run under the context of the target's loop. *)
AbortedWithLoop(job) ==
  done \/ job \notin {[target |-> t, version |-> activeTargets[t]] : t \in DOMAIN activeTargets}

(* Checks run under ctx, which only the signal cancels. *)
Aborted(job) == done

(* A check that is aborted finds its target down, if no answer was faster. *)
CheckEnds(w) ==
  /\ worker[w].at = "checking" /\ answer[w] = "none"
  /\ \E found \in {"up", "down"} :
       /\ found = "up" => worker[w].job.target \in up
       /\ found = "down" => worker[w].job.target \notin up \/ Aborted(worker[w].job)
       /\ answer' = [answer EXCEPT ![w] = found]
  /\ UNCHANGED <<vars, states, told, worldVars>>

(* alertEngine.ProcessResult with what the check found. *)
Judge(w) ==
  /\ answer[w] # "none"
  /\ answer' = [answer EXCEPT ![w] = "none"]
  /\ ProcessResult(w)
  /\ \E p \in Engine(w)!Probe :
       /\ p.isDown <=> answer[w] = "down"
       /\ Engine(w)!ProcessResult(worker[w].job.target, p, 1)
  /\ UNCHANGED worldVars

-----------------------------------------------------------------------------
(* Mutant: a target whose configuration changed keeps its entry. *)
ResetIfDropped == {t \in DOMAIN activeTargets : t \notin DOMAIN Incoming(sync.list)}

(* The targets for which SyncConfiguration calls ResetTarget. *)
ResetBySync == Stale(Incoming(sync.list))

SyncAndReset ==
  LET reset == IF running /\ ~done THEN ResetBySync ELSE {}
  IN  /\ Sync
      /\ states' = [t \in DOMAIN states \ reset |-> states[t]]
      /\ told' = [t \in Target |-> IF t \in reset THEN "nothing" ELSE told[t]]
      /\ UNCHANGED <<answer, worldVars>>

(* A step that neither the engine nor the targets take part in. *)
Alone(A) == A /\ UNCHANGED <<engineVars, worldVars>>

-----------------------------------------------------------------------------
AInit == /\ Init
         /\ states = [t \in {} |-> 0]
         /\ told = [t \in Target |-> "nothing"]
         /\ answer = [w \in Worker |-> "none"]
         /\ up \in SUBSET Target
         /\ flips = 0
         /\ wasDown = Target \ up

SyncStep == \/ Alone(FetchConfig) \/ Alone(FetchFails) \/ Alone(UpdateTargets)
            \/ SyncAndReset \/ Alone(StopSync)

LoopStep(l) == l \in DOMAIN loops /\ (Alone(JitterOver(l)) \/ Alone(EnqueueJob(l)))

LoopExit(l) == l \in DOMAIN loops /\ Alone(ExitLoop(l))

WorkerStep(w) == Alone(TakeJob(w)) \/ CheckEnds(w) \/ Judge(w) \/ Alone(Report(w))

ANext == \/ Alone(Edit) \/ Alone(StartTicks) \/ Alone(Shutdown)
         \/ SyncStep
         \/ \E l \in DOMAIN loops : LoopStep(l) \/ LoopExit(l)
         \/ \E w \in Worker : WorkerStep(w) \/ Alone(ExitWorker(w))
         \/ \E t \in Target : Flip(t)

ASpec == AInit /\ [][ANext]_agentVars

(* As in Monitor, with one condition for the steps a goroutine takes in    *)
(* turn; a check ends, by its timeout if not by an answer.                 *)
AFairness ==
  /\ WF_agentVars(SyncStep) /\ WF_agentVars(Alone(StartTicks))
  /\ \A l \in LoopIds : WF_agentVars(LoopStep(l)) /\ WF_agentVars(LoopExit(l))
  /\ \A w \in Worker : WF_agentVars(WorkerStep(w)) /\ WF_agentVars(Alone(ExitWorker(w)))

FairAgent == ASpec /\ AFairness

-----------------------------------------------------------------------------
(* Properties *)

(* However a sync, the jobs of older configurations and the checks under   *)
(* way interleave, an entry that was built from results of the listed      *)
(* configuration alone is one that AlertEngine would have built: its       *)
(* counters are consistent with that rule and no alarm was missed.         *)
EngineRulesHold ==
  \A t \in DOMAIN states \cap DOMAIN activeTargets :
    evidence[t] \subseteq {activeTargets[t]} =>
      /\ Listed!ConsistentState(states[t], Rule[activeTargets[t]])
      /\ Listed!NothingMissed(states[t], Rule[activeTargets[t]])

(* No false alarm: a target that has always answered is not in alarm, and  *)
(* nobody was told so, before the agent is stopped; loops that a sync      *)
(* cancels do not turn their checks into failures (agentPool.worker).      *)
NoFalseAlarm ==
  \A t \in Target \ wasDown :
    ~done => ~Alarmed(t) /\ told[t] \notin {"critical", "reminder"}

(* Whatever was left behind by older configurations: a listed target that  *)
(* is down for good comes to be in alarm and stays so, its operator was    *)
(* told, and one that answers for good comes to be out of alarm (or the    *)
(* bound on the counters ends its story), once the list stays as it is.    *)
Settled(t, v) == ~done /\ t \in DOMAIN cp /\ cp[t] = v

OutageIsAnnounced ==
  \A t \in Target, v \in Active :
    <>[](Settled(t, v) /\ t \notin up) => <>[](Alarmed(t) /\ told[t] \in {"critical", "reminder"})

RecoveryIsSeen ==
  \A t \in Target, v \in Active :
    <>[](Settled(t, v) /\ t \in up) =>
      <>[](Alarmed(t) => states[t].windowErrors = MaxErrors)

(* An outage that was announced stays announced and in alarm while the     *)
(* target is down and the list stays, once no answer from before is on its *)
(* way: no sync resets it and no job of an older configuration ends it.    *)
OutageKnown(t, list) ==
  /\ HoldsNoOther(list) /\ activeTargets = Incoming(list)
  /\ t \notin up /\ \A w \in Worker : answer[w] = "up" => worker[w].job.target # t
  /\ Alarmed(t) /\ told[t] \in {"critical", "reminder"}

StaysAnnounced ==
  [][\A t \in Target, list \in Listable :
       OutageKnown(t, list) /\ cp' = list /\ t \notin up' => OutageKnown(t, list)']_agentVars

(* A target that is out of alarm and answers stays so and is not spoken    *)
(* of, once no failure from before is on its way, whatever is edited.      *)
KnownWell(t) ==
  /\ t \in up /\ \A w \in Worker : answer[w] = "down" => worker[w].job.target # t
  /\ ~Alarmed(t) /\ told[t] \notin {"critical", "reminder"}

StaysWell == [][\A t \in Target : KnownWell(t) /\ t \in up' /\ ~done' => KnownWell(t)']_agentVars

(* What manager_impl.go:70 says of the reset: "Reset FSM state so          *)
(* reactivated targets start fresh (no stale isAlarmed)".                  *)
ReactivatedWithoutAlarm ==
  [][\A t \in DOMAIN activeTargets' \ DOMAIN activeTargets :
       t \in DOMAIN states' => ~states'[t].isAlarmed]_agentVars
=============================================================================
