---------------------------- MODULE MonitorProofs ----------------------------
(***************************************************************************)
(* Proofs about Monitor for any targets, versions, workers and bounds.     *)
(*                                                                         *)
(* OneLoopPerTarget is not inductive alone: that a sync cancels the loop   *)
(* of its target and no other, and starts one under a name that is not in  *)
(* use, rests on the numbering of the loops.                               *)
(*                                                                         *)
(* The second part is about Agent, the scheduler with the alert engine and *)
(* real targets: its steps are steps of Monitor, so the first part holds   *)
(* of it; a target that always answers is never in alarm; and entries keep *)
(* the rules of the engine.                                                *)
(*                                                                         *)
(* The third part proves what the runs' leads-to properties leave open:    *)
(* that what was reached, the list of the Control Plane, the announced     *)
(* outage, the recovered target, is not left again; and of getting there   *)
(* what takes a chain of steps of fixed length: the list is scheduled,     *)
(* loops and sync loop end.  What the recipients were told last agrees     *)
(* with the engine throughout.                                             *)
(***************************************************************************)
EXTENDS Agent, TLAPS

Numbered ==
  /\ \A l \in DOMAIN loops : l[2] <= started[l[1]]
  /\ \A t \in DOMAIN cancelFuncs : cancelFuncs[t] <= started[t]

(* Between the two calls of doSync the engine already has the list. *)
EngineHasList == sync.at = "updated" => parents = sync.list

IInv == TypeOK /\ Numbered /\ OneLoopPerTarget /\ TopologyAgrees /\ EngineHasList

-----------------------------------------------------------------------------
LEMMA EmptyListTyped == NoTargets \in Lists /\ DOMAIN NoTargets = {}
<1>1. NoTargets \in [{} -> Version] /\ DOMAIN NoTargets = {}
  BY DEF NoTargets
<1>2. QED
  BY <1>1 DEF Lists

LEMMA ListTyped ==
  ASSUME NEW list \in Lists
  PROVE  DOMAIN list \subseteq Target /\ \A t \in DOMAIN list : list[t] \in Version
  BY DEF Lists

LEMMA IncomingTyped ==
  ASSUME NEW list \in Lists
  PROVE  Incoming(list) \in Lists
<1> DEFINE S == {x \in DOMAIN list : list[x] \in Active}
<1>1. S \subseteq Target /\ Incoming(list) \in [S -> Version]
  BY ListTyped DEF Incoming
<1>2. QED
  BY <1>1 DEF Lists

LEMMA InitIInv == Init => IInv
<1> SUFFICES ASSUME Init PROVE IInv
  OBVIOUS
<1>1. /\ sync \in SyncState /\ sync.at = "boot"
      /\ Idle \in WorkerState
  BY DEF Init, SyncState, WorkerState, Idle
<1>2. TypeOK
  <2>1. cp \in Lists /\ parents \in Lists /\ activeTargets \in Lists
    BY EmptyListTyped, MonitorAssumption DEF Init
  <2>2. /\ DOMAIN cancelFuncs = {} /\ DOMAIN loops = {}
        /\ started \in [Target -> Nat] /\ evidence \in [Target -> SUBSET Version]
    BY DEF Init
  <2>3. jobQueue \in Seq(Job) /\ Len(jobQueue) <= QueueCap
    BY MonitorAssumption DEF Init
  <2>4. worker \in [Worker -> WorkerState]
    BY <1>1 DEF Init
  <2>5. edits \in Nat /\ applied \in BOOLEAN /\ running \in BOOLEAN /\ done \in BOOLEAN
    BY DEF Init
  <2>6. QED
    BY <1>1, <2>1, <2>2, <2>3, <2>4, <2>5 DEF TypeOK
<1>3. DOMAIN loops = {} /\ DOMAIN cancelFuncs = {} /\ DOMAIN activeTargets = {}
  BY EmptyListTyped DEF Init
<1>4. QED
  BY <1>1, <1>2, <1>3 DEF Init, IInv, Numbered, OneLoopPerTarget, TopologyAgrees,
                         EngineHasList

-----------------------------------------------------------------------------
(* One pass of SyncConfiguration, with the names of its locals. *)
LEMMA SyncConfigurationStep ==
  ASSUME TypeOK, Numbered, OneLoopPerTarget, ~done, UNCHANGED done,
         sync.list \in Lists, SyncConfiguration
  PROVE  /\ activeTargets' = Incoming(sync.list)
         /\ DOMAIN cancelFuncs' = DOMAIN activeTargets'
         /\ started' \in [Target -> Nat]
         /\ \A t \in DOMAIN cancelFuncs' : cancelFuncs'[t] \in Nat
         /\ DOMAIN loops' \subseteq Target \X Nat
         /\ \A l \in DOMAIN loops' : loops'[l] \in LoopState
         /\ evidence' \in [Target -> SUBSET Version]
         /\ Numbered'
         /\ OneLoopPerTarget'
<1> DEFINE incoming == Incoming(sync.list)
           stale    == Stale(incoming)
           kept     == DOMAIN activeTargets \ stale
           added    == DOMAIN incoming \ kept
           new      == {<<t, started[t] + 1>> : t \in added}
           fresh(l) == [version |-> incoming[l[1]], at |-> "jitter", cancelled |-> FALSE]
           old(l)   == [loops[l] EXCEPT !.cancelled = @ \/ l \in CancelledBy(stale)]
<1>1. /\ activeTargets' = [t \in kept \cup added |->
                             IF t \in added THEN incoming[t] ELSE activeTargets[t]]
      /\ cancelFuncs' = [t \in (DOMAIN cancelFuncs \ stale) \cup added |->
                           IF t \in added THEN started[t] + 1 ELSE cancelFuncs[t]]
      /\ started' = [t \in Target |-> IF t \in added THEN started[t] + 1 ELSE started[t]]
      /\ loops' = [l \in DOMAIN loops \cup new |-> IF l \in new THEN fresh(l) ELSE old(l)]
      /\ evidence' = [t \in Target |-> IF t \in stale THEN {} ELSE evidence[t]]
  BY Zenon DEF SyncConfiguration, Kept
<1>2. /\ DOMAIN incoming \subseteq Target
      /\ \A t \in DOMAIN incoming : incoming[t] \in Version
      /\ incoming = [t \in DOMAIN incoming |-> incoming[t]]
  BY IncomingTyped, ListTyped DEF Incoming
<1>3. /\ DOMAIN activeTargets \subseteq Target
      /\ DOMAIN cancelFuncs = DOMAIN activeTargets
      /\ started \in [Target -> Nat]
      /\ \A t \in DOMAIN cancelFuncs : cancelFuncs[t] \in Nat
      /\ DOMAIN loops \subseteq Target \X Nat
      /\ \A l \in DOMAIN loops : loops[l] \in LoopState
  BY ListTyped DEF TypeOK, OneLoopPerTarget
<1>4. /\ kept \subseteq DOMAIN incoming /\ kept \subseteq DOMAIN activeTargets
      /\ \A t \in kept : incoming[t] = activeTargets[t]
      /\ kept \cup added = DOMAIN incoming
      /\ stale \subseteq DOMAIN activeTargets /\ kept \cap stale = {}
      /\ added \cap kept = {} /\ added \subseteq Target
      /\ DOMAIN activeTargets = kept \cup stale
  BY <1>2 DEF Stale
<1> HIDE DEF incoming, stale, kept, added
<1>5. activeTargets' = incoming
  BY <1>1, <1>2, <1>4
<1>6. DOMAIN cancelFuncs' = kept \cup added
  BY <1>1, <1>3, <1>4
<1>7. /\ started' \in [Target -> Nat]
      /\ \A t \in DOMAIN cancelFuncs' : cancelFuncs'[t] \in Nat
      /\ evidence' \in [Target -> SUBSET Version]
  BY <1>1, <1>3, <1>4 DEF TypeOK
<1>8. \A l \in new : /\ l \in Target \X Nat /\ l[1] \in added
                     /\ l[2] = started[l[1]] + 1 /\ l = <<l[1], l[2]>>
  BY <1>3, <1>4
<1>9. \A l \in new : l \notin DOMAIN loops
  BY <1>3, <1>4, <1>8 DEF Numbered
<1>10. \A l \in new : fresh(l) \in LoopState /\ ~fresh(l).cancelled
                      /\ fresh(l).version = incoming[l[1]]
  BY <1>2, <1>4, <1>8 DEF LoopState
<1>11. \A l \in DOMAIN loops :
         /\ old(l) \in LoopState
         /\ old(l).version = loops[l].version
         /\ old(l).cancelled <=> loops[l].cancelled \/ l \in CancelledBy(stale)
  BY <1>3 DEF LoopState
<1> HIDE DEF fresh, old, new
<1>12. /\ DOMAIN loops' = DOMAIN loops \cup new
       /\ \A l \in new : loops'[l] = fresh(l)
       /\ \A l \in DOMAIN loops : loops'[l] = old(l)
  BY <1>1, <1>9
<1>13. DOMAIN loops' \subseteq Target \X Nat /\ \A l \in DOMAIN loops' : loops'[l] \in LoopState
  BY <1>3, <1>8, <1>10, <1>11, <1>12
<1>14. \A t \in stale, n \in Nat :
         <<t, n>> \in CancelledBy(stale) <=> n = cancelFuncs[t]
  BY <1>3, <1>4 DEF CancelledBy
<1>15. \A l \in CancelledBy(stale) : l[1] \in stale
  BY DEF CancelledBy
<1>16. /\ \A t \in added : started'[t] = started[t] + 1 /\ cancelFuncs'[t] = started[t] + 1
       /\ \A t \in Target \ added : started'[t] = started[t]
       /\ \A t \in kept : cancelFuncs'[t] = cancelFuncs[t]
  BY <1>1, <1>3, <1>4
<1>17. Numbered'
  <2>1. ASSUME NEW l \in DOMAIN loops' PROVE l[2] <= started'[l[1]]
    <3>1. CASE l \in new
      BY <1>3, <1>8, <1>16, <3>1
    <3>2. CASE l \in DOMAIN loops
      <4>1. l[1] \in Target /\ l[2] \in Nat /\ l[2] <= started[l[1]] /\ started[l[1]] \in Nat
        BY <1>3, <3>2 DEF Numbered
      <4>2. started'[l[1]] = started[l[1]] \/ started'[l[1]] = started[l[1]] + 1
        BY <1>16, <4>1
      <4>3. QED
        BY <4>1, <4>2
    <3>3. QED
      BY <1>12, <3>1, <3>2
  <2>2. ASSUME NEW t \in DOMAIN cancelFuncs' PROVE cancelFuncs'[t] <= started'[t]
    <3>1. CASE t \in added
      BY <1>3, <1>4, <1>16, <3>1
    <3>2. CASE t \in kept
      BY <1>3, <1>4, <1>16, <3>2 DEF Numbered
    <3>3. QED
      BY <1>6, <3>1, <3>2
  <2>3. QED
    BY <2>1, <2>2 DEF Numbered
<1>18. ASSUME NEW t \in DOMAIN activeTargets'
       PROVE  LET l == <<t, cancelFuncs'[t]>>
              IN  /\ l \in DOMAIN loops' /\ ~loops'[l].cancelled
                  /\ loops'[l].version = activeTargets'[t]
  <2>1. CASE t \in added
    <3> DEFINE l == <<t, cancelFuncs'[t]>>
    <3>1. l \in new
      BY <1>16, <2>1 DEF new
    <3>2. QED
      BY <1>5, <1>10, <1>12, <3>1
  <2>2. CASE t \in kept
    <3> DEFINE l == <<t, cancelFuncs[t]>>
    <3>1. /\ l \in DOMAIN loops /\ ~loops[l].cancelled
          /\ loops[l].version = activeTargets[t]
      BY <1>4, <2>2 DEF OneLoopPerTarget
    <3>2. l \notin CancelledBy(stale)
      BY <1>4, <1>15, <2>2
    <3>3. QED
      BY <1>4, <1>5, <1>11, <1>12, <1>16, <2>2, <3>1, <3>2
  <2>3. QED
    BY <1>4, <1>5, <2>1, <2>2
<1>19. ASSUME NEW l \in DOMAIN loops', ~loops'[l].cancelled
       PROVE  l[1] \in DOMAIN activeTargets' /\ cancelFuncs'[l[1]] = l[2]
  <2>1. CASE l \in new
    BY <1>4, <1>5, <1>8, <1>16, <2>1
  <2>2. CASE l \in DOMAIN loops
    <3>1. ~loops[l].cancelled /\ l \notin CancelledBy(stale)
      BY <1>11, <1>12, <1>19, <2>2
    <3>2. l[1] \in DOMAIN activeTargets /\ cancelFuncs[l[1]] = l[2]
      BY <2>2, <3>1 DEF OneLoopPerTarget
    <3>3. l = <<l[1], l[2]>> /\ l[2] \in Nat
      BY <1>3, <2>2
    <3>4. l[1] \in kept
      BY <1>4, <1>14, <3>1, <3>2, <3>3
    <3>5. QED
      BY <1>4, <1>5, <1>16, <3>2, <3>4
  <2>3. QED
    BY <1>12, <2>1, <2>2
<1>20. OneLoopPerTarget'
  <2>1. DOMAIN cancelFuncs' = DOMAIN activeTargets'
    BY <1>4, <1>5, <1>6
  <2>2. QED
    BY <1>18, <1>19, <2>1 DEF OneLoopPerTarget
<1>21. QED
  BY <1>4, <1>5, <1>6, <1>7, <1>13, <1>17, <1>20 DEF incoming

-----------------------------------------------------------------------------
(* The steps of the sync loop. *)
LEMMA SyncListTyped ==
  ASSUME TypeOK
  PROVE  sync.list \in Lists
  BY EmptyListTyped DEF TypeOK, SyncState

LEMMA SyncIInv ==
  ASSUME IInv, Sync
  PROVE  IInv'
<1>1. sync' \in SyncState /\ sync'.at = "waiting" /\ applied' \in BOOLEAN
  BY DEF Sync, SyncState, IInv, TypeOK
<1>2. CASE running /\ ~done
  <2>1. SyncConfiguration /\ UNCHANGED done
    BY <1>2 DEF Sync
  <2>2. /\ activeTargets' = Incoming(sync.list) /\ started' \in [Target -> Nat]
        /\ DOMAIN cancelFuncs' = DOMAIN activeTargets'
        /\ \A t \in DOMAIN cancelFuncs' : cancelFuncs'[t] \in Nat
        /\ DOMAIN loops' \subseteq Target \X Nat
        /\ \A l \in DOMAIN loops' : loops'[l] \in LoopState
        /\ evidence' \in [Target -> SUBSET Version]
        /\ Numbered' /\ OneLoopPerTarget'
    BY <1>2, <2>1, SyncListTyped, SyncConfigurationStep DEF IInv
  <2>3. activeTargets' \in Lists /\ DOMAIN activeTargets' \subseteq Target
    BY <2>2, SyncListTyped, IncomingTyped, ListTyped DEF IInv
  <2>4. TypeOK'
    BY <1>1, <2>2, <2>3 DEF Sync, IInv, TypeOK
  <2>5. parents = sync.list
    BY DEF Sync, IInv, EngineHasList
  <2>6. QED
    BY <1>1, <2>2, <2>4, <2>5 DEF Sync, IInv, TopologyAgrees, EngineHasList, Incoming
<1>3. CASE ~(running /\ ~done)
  BY <1>1, <1>3 DEF Sync, IInv, TypeOK, Numbered, OneLoopPerTarget, TopologyAgrees,
                    EngineHasList
<1>4. QED
  BY <1>2, <1>3

(* A step that only moves the sync loop, and perhaps hands its list to the *)
(* engine.                                                                 *)
LEMMA SyncLoopIInv ==
  ASSUME IInv, Edit \/ FetchConfig \/ FetchFails \/ StopSync \/ UpdateTargets
  PROVE  IInv'
<1>1. CASE Edit
  <2>1. TypeOK'
    BY <1>1, MonitorAssumption DEF Edit, IInv, TypeOK, schedVars
  <2>2. QED
    BY <1>1, <2>1 DEF Edit, IInv, schedVars, Numbered, OneLoopPerTarget, TopologyAgrees,
                      EngineHasList
<1>2. CASE FetchConfig \/ FetchFails \/ StopSync
  <2>1. sync' \in SyncState /\ sync.at # "updated" /\ sync'.at # "updated"
    BY <1>2 DEF FetchConfig, FetchFails, StopSync, IInv, TypeOK, SyncState
  <2>2. TypeOK'
    BY <1>2, <2>1 DEF FetchConfig, FetchFails, StopSync, IInv, TypeOK, schedVars
  <2>3. QED
    BY <1>2, <2>1, <2>2 DEF FetchConfig, FetchFails, StopSync, IInv, schedVars, Numbered,
                            OneLoopPerTarget, TopologyAgrees, EngineHasList
<1>3. CASE UpdateTargets
  <2>1. sync' \in SyncState /\ sync'.at = "updated" /\ sync'.list = sync.list
    BY <1>3 DEF UpdateTargets, IInv, TypeOK, SyncState
  <2>2. TypeOK'
    BY <1>3, <2>1, SyncListTyped DEF UpdateTargets, IInv, TypeOK
  <2>3. QED
    BY <1>3, <2>1, <2>2 DEF UpdateTargets, IInv, Numbered, OneLoopPerTarget,
                            TopologyAgrees, EngineHasList
<1>4. QED
  BY <1>1, <1>2, <1>3

-----------------------------------------------------------------------------
(* The steps of the scheduler's goroutines. *)
LEMMA LoopIInv ==
  ASSUME IInv, NEW l \in DOMAIN loops, JitterOver(l) \/ EnqueueJob(l) \/ ExitLoop(l)
  PROVE  IInv'
<1>1. /\ l \in Target \X Nat /\ loops[l] \in LoopState
  BY DEF IInv, TypeOK
<1>2. CASE JitterOver(l) \/ EnqueueJob(l)
  <2>1. /\ DOMAIN loops' = DOMAIN loops
        /\ \A x \in DOMAIN loops : /\ loops'[x] \in LoopState
                                   /\ loops'[x].version = loops[x].version
                                   /\ loops'[x].cancelled = loops[x].cancelled
    <3>1. PICK a \in {"first", "ticking"} : loops' = [loops EXCEPT ![l].at = a]
      BY <1>2 DEF JitterOver, EnqueueJob
    <3>2. QED
      BY <1>1, <3>1 DEF IInv, TypeOK, LoopState
  <2>2. jobQueue' \in Seq(Job) /\ Len(jobQueue') <= QueueCap
    <3>1. CASE JitterOver(l)
      BY <3>1 DEF JitterOver, IInv, TypeOK
    <3>2. CASE EnqueueJob(l)
      <4>1. [target |-> l[1], version |-> loops[l].version] \in Job
        BY <1>1 DEF Job, LoopState
      <4>2. QED
        BY <3>2, <4>1, MonitorAssumption DEF EnqueueJob, QueueHasRoom, IInv, TypeOK
    <3>3. QED
      BY <1>2, <3>1, <3>2
  <2>3. TypeOK'
    BY <1>2, <2>1, <2>2 DEF JitterOver, EnqueueJob, IInv, TypeOK, syncVars, schedVars
  <2>4. QED
    BY <1>2, <2>1, <2>3 DEF JitterOver, EnqueueJob, IInv, syncVars, schedVars, Numbered,
                            OneLoopPerTarget, TopologyAgrees, EngineHasList
<1>3. CASE ExitLoop(l)
  <2>1. /\ DOMAIN loops' = DOMAIN loops \ {l}
        /\ \A x \in DOMAIN loops' : loops'[x] = loops[x]
        /\ done \/ loops[l].cancelled
    BY <1>3 DEF ExitLoop, Cancelled
  <2>2. TypeOK'
    BY <1>3, <2>1 DEF ExitLoop, IInv, TypeOK, syncVars, schedVars
  <2>3. OneLoopPerTarget'
    BY <1>3, <2>1 DEF ExitLoop, IInv, syncVars, schedVars, OneLoopPerTarget
  <2>4. QED
    BY <1>3, <2>1, <2>2, <2>3 DEF ExitLoop, IInv, syncVars, schedVars, Numbered,
                                  TopologyAgrees, EngineHasList
<1>4. QED
  BY <1>2, <1>3

(* StartTicks, the signal and the workers leave the schedule alone. *)
LEMMA OtherIInv ==
  ASSUME IInv,
         StartTicks \/ Shutdown \/ \E w \in Worker : \/ TakeJob(w) \/ ProcessResult(w)
                                                   \/ Report(w) \/ ExitWorker(w)
  PROVE  IInv'
<1>1. CASE StartTicks \/ Shutdown
  <2>1. TypeOK'
    BY <1>1 DEF StartTicks, Shutdown, IInv, TypeOK, syncVars, schedVars
  <2>2. QED
    BY <1>1, <2>1 DEF StartTicks, Shutdown, IInv, syncVars, schedVars, Numbered,
                      OneLoopPerTarget, TopologyAgrees, EngineHasList
<1>2. ASSUME NEW w \in Worker,
             TakeJob(w) \/ ProcessResult(w) \/ Report(w) \/ ExitWorker(w)
      PROVE  IInv'
  <2>1. worker[w] \in WorkerState /\ Idle \in WorkerState
    BY DEF IInv, TypeOK, WorkerState, Idle
  <2>2. /\ worker' \in [Worker -> WorkerState]
        /\ jobQueue' \in Seq(Job) /\ Len(jobQueue') <= QueueCap
        /\ evidence' \in [Target -> SUBSET Version]
    <3>1. CASE TakeJob(w)
      <4>1. Head(jobQueue) \in Job /\ Tail(jobQueue) \in Seq(Job)
            /\ Len(Tail(jobQueue)) <= QueueCap
        BY <3>1, MonitorAssumption DEF TakeJob, IInv, TypeOK
      <4>2. [at |-> "checking", job |-> Head(jobQueue)] \in WorkerState
        BY <4>1 DEF WorkerState
      <4>3. QED
        BY <2>1, <3>1, <4>1, <4>2 DEF TakeJob, IInv, TypeOK
    <3>2. CASE ProcessResult(w)
      <4>1. worker[w].job \in Job /\ [worker[w] EXCEPT !.at = "processed"] \in WorkerState
        BY <2>1, <3>2 DEF ProcessResult, WorkerState
      <4>2. worker[w].job.target \in Target /\ worker[w].job.version \in Version
        BY <4>1 DEF Job
      <4>3. worker' = [worker EXCEPT ![w] = [worker[w] EXCEPT !.at = "processed"]]
        BY <3>2 DEF ProcessResult
      <4>4. QED
        BY <3>2, <4>1, <4>2, <4>3 DEF ProcessResult, IInv, TypeOK
    <3>3. CASE Report(w)
      BY <2>1, <3>3 DEF Report, IInv, TypeOK
    <3>4. CASE ExitWorker(w)
      <4>1. [worker[w] EXCEPT !.at = "exited"] \in WorkerState
        BY <2>1, <3>4 DEF ExitWorker, WorkerState
      <4>2. worker' = [worker EXCEPT ![w] = [worker[w] EXCEPT !.at = "exited"]]
        BY <3>4 DEF ExitWorker
      <4>3. QED
        BY <3>4, <4>1, <4>2 DEF ExitWorker, IInv, TypeOK
    <3>5. QED
      BY <1>2, <3>1, <3>2, <3>3, <3>4
  <2>3. UNCHANGED <<syncVars, schedVars, done, loops>>
    BY <1>2 DEF TakeJob, ProcessResult, Report, ExitWorker
  <2>4. TypeOK'
    BY <2>2, <2>3 DEF IInv, TypeOK, syncVars, schedVars
  <2>5. QED
    BY <2>3, <2>4 DEF IInv, syncVars, schedVars, Numbered, OneLoopPerTarget, TopologyAgrees,
                      EngineHasList
<1>3. QED
  BY <1>1, <1>2

LEMMA NextIInv == IInv /\ [Next]_vars => IInv'
<1> SUFFICES ASSUME IInv, [Next]_vars PROVE IInv'
  OBVIOUS
<1>1. CASE UNCHANGED vars
  BY <1>1 DEF vars, syncVars, schedVars, IInv, TypeOK, Numbered, OneLoopPerTarget,
              TopologyAgrees, EngineHasList
<1>2. CASE Next
  BY <1>2, SyncLoopIInv, SyncIInv, LoopIInv, OtherIInv DEF Next
<1>3. QED
  BY <1>1, <1>2

-----------------------------------------------------------------------------
THEOREM MonitorInvariant == Spec => []IInv
  BY InitIInv, NextIInv, PTL DEF Spec

(* Each variable of the agent's schedule keeps its type. *)
THEOREM MonitorTyped == Spec => []TypeOK
<1>1. IInv => TypeOK
  BY DEF IInv
<1>2. QED
  BY <1>1, MonitorInvariant, PTL

(* SyncConfiguration keeps one stoppable loop per listed target, with that *)
(* target's configuration.                                                 *)
THEOREM MonitorOneLoop == Spec => []OneLoopPerTarget
<1>1. IInv => OneLoopPerTarget
  BY DEF IInv
<1>2. QED
  BY <1>1, MonitorInvariant, PTL

(* The topology of the engine and the targets of the scheduler are of one  *)
(* list between syncs.                                                     *)
THEOREM MonitorTopology == Spec => []TopologyAgrees
<1>1. IInv => TopologyAgrees
  BY DEF IInv
<1>2. QED
  BY <1>1, MonitorInvariant, PTL

-----------------------------------------------------------------------------
(* The steps of the agent are steps of Monitor. *)
LEMMA AgentNextIsNext == [ANext]_agentVars => [Next]_vars
<1> SUFFICES ASSUME ANext PROVE [Next]_vars
  BY DEF agentVars
<1>1. CASE SyncStep
  BY <1>1, Zenon DEF SyncStep, Alone, SyncAndReset, Next
<1>2. CASE Alone(Edit) \/ Alone(StartTicks) \/ Alone(Shutdown)
  BY <1>2, Zenon DEF Alone, Next
<1>3. CASE \E l \in DOMAIN loops : LoopStep(l) \/ LoopExit(l)
  BY <1>3, Zenon DEF LoopStep, LoopExit, Alone, Next
<1>4. CASE \E w \in Worker : WorkerStep(w) \/ Alone(ExitWorker(w))
  BY <1>4, Zenon DEF WorkerStep, CheckEnds, Judge, Alone, Next
<1>5. CASE \E t \in Target : Flip(t)
  BY <1>5, Zenon DEF Flip
<1> QED
  BY <1>1, <1>2, <1>3, <1>4, <1>5, Zenon DEF ANext

(* The composition adds an engine and a world to Monitor and takes nothing *)
(* away: what holds of the scheduler alone holds in the agent.             *)
THEOREM AgentIsMonitor == ASpec => Spec
<1>1. AInit => Init
  BY DEF AInit
<1> QED
  BY <1>1, AgentNextIsNext, PTL DEF ASpec, Spec

-----------------------------------------------------------------------------
(* No answer of a target is slow enough to be a failure.  Without it a     *)
(* target that answers slowly is in alarm, and rightly.                    *)
QuickAnswers ==
  \A v \in Version : /\ Rule[v].maxLatency \in Int
                     /\ \A l \in Latency : l \in Int /\ l <= Rule[v].maxLatency

(* All that matters of the shape of an entry. *)
HasAlarm(s) == "isAlarmed" \in DOMAIN s

LastWords == {"nothing", "critical", "reminder", "recovery"}

AgentTyped ==
  /\ \A t \in DOMAIN states : HasAlarm(states[t])
  /\ told \in [Target -> LastWords]
  /\ answer \in [Worker -> {"none", "up", "down"}]
  /\ \A w \in Worker : answer[w] # "none" => worker[w].at = "checking"
  /\ Target \ up \subseteq wasDown

Untroubled ==
  \A t \in Target \ wasDown : ~done =>
    /\ \A w \in Worker : answer[w] = "down" => worker[w].job.target # t
    /\ ~(t \in DOMAIN states /\ states[t].isAlarmed)
    /\ told[t] \notin {"critical", "reminder"}

AInv == IInv /\ AgentTyped /\ Untroubled

-----------------------------------------------------------------------------
LEMMA CountedHasAlarm ==
  ASSUME NEW w \in Worker, NEW s, HasAlarm(s)
  PROVE  HasAlarm(Engine(w)!CountFailure(s, 1))
BY Zenon DEF Engine!CountFailure, HasAlarm

LEMMA JudgedHasAlarm ==
  ASSUME NEW w \in Worker, NEW s, NEW c, HasAlarm(s)
  PROVE  HasAlarm(Engine(w)!Judge(s, c, 1))
<1>1. \/ Engine(w)!Judge(s, c, 1) = Engine(w)!RestartWindow(s, 1)
      \/ Engine(w)!Judge(s, c, 1) = [s EXCEPT !.isAlarmed = TRUE, !.lastReminderTime = 1]
      \/ Engine(w)!Judge(s, c, 1) = s
  BY DEF Engine!Judge
<1> QED
  BY <1>1, Zenon DEF Engine!RestartWindow, HasAlarm

LEMMA StateHasAlarm ==
  ASSUME AgentTyped, NEW w \in Worker, NEW t \in Target
  PROVE  /\ HasAlarm(Engine(w)!StateOf(t))
         /\ Engine(w)!StateOf(t).isAlarmed => t \in DOMAIN states /\ states[t].isAlarmed
<1>1. CASE t \in DOMAIN states
  BY <1>1, Zenon DEF Engine!StateOf, AgentTyped
<1>2. CASE t \notin DOMAIN states
  BY <1>2 DEF Engine!StateOf, Engine!Fresh, HasAlarm
<1> QED
  BY <1>1, <1>2

(* What a failure does to the entry of its target, and to nothing else. *)
LEMMA FailureTyped ==
  ASSUME AgentTyped, NEW w \in Worker, NEW t \in Target, Engine(w)!HandleCritical(t, 1)
  PROVE  /\ \E r : HasAlarm(r) /\ states' = Engine(w)!WithState(t, r)
         /\ told' \in [Target -> LastWords]
         /\ \A x \in Target \ {t} : told'[x] = told[x]
<1> DEFINE c == Rule[worker[w].job.version]
           judged == Engine(w)!Judge(Engine(w)!CountFailure(Engine(w)!StateOf(t), 1), c, 1)
           reminded == [judged EXCEPT !.lastReminderTime = 1]
<1>1. HasAlarm(judged)
  BY StateHasAlarm, CountedHasAlarm, JudgedHasAlarm
<1>2. HasAlarm(reminded)
  BY <1>1, Zenon DEF HasAlarm
<1>3. /\ states' = Engine(w)!WithState(t, judged) \/ states' = Engine(w)!WithState(t, reminded)
      /\ \/ Engine(w)!Notify(t, "critical") \/ Engine(w)!Notify(t, "reminder") \/ told' = told
  BY Zenon DEF Engine!HandleCritical
<1>4. told' = told \/ told' = [told EXCEPT ![t] = "critical"] \/ told' = [told EXCEPT ![t] = "reminder"]
  BY <1>3, Zenon DEF Engine!Notify
<1>5. told' \in [Target -> LastWords] /\ \A x \in Target \ {t} : told'[x] = told[x]
  BY <1>4 DEF AgentTyped, LastWords
<1> HIDE DEF judged, reminded
<1> QED
  BY <1>1, <1>2, <1>3, <1>5, Zenon

(* An answer raises no alarm. *)
LEMMA AnswerTyped ==
  ASSUME AgentTyped, NEW w \in Worker, NEW t \in Target, NEW slow,
         Engine(w)!HandleSuccessOrWarning(t, slow)
  PROVE  /\ \E r : /\ HasAlarm(r) /\ states' = Engine(w)!WithState(t, r)
                   /\ r.isAlarmed => t \in DOMAIN states /\ states[t].isAlarmed
         /\ told' \in [Target -> LastWords]
         /\ \A x \in Target \ {t} : told'[x] = told[x]
         /\ told'[t] \in {told[t], "recovery"}
<1> DEFINE e == Engine(w)!StateOf(t)
           s == [e EXCEPT !.currentStreak = 0]
           Calm(r) == HasAlarm(r) /\ (r.isAlarmed => t \in DOMAIN states /\ states[t].isAlarmed)
<1>1. Calm(e)
  BY StateHasAlarm
<1> HIDE DEF e
<1>2. Calm(s)
  BY <1>1, Zenon DEF HasAlarm
<1> HIDE DEF s
<1>3. Calm([s EXCEPT !.consecutiveSuccess = 0])
  BY <1>2, Zenon DEF HasAlarm
<1>4. Calm([s EXCEPT !.consecutiveSuccess = s.consecutiveSuccess + 1])
  BY <1>2, Zenon DEF HasAlarm
<1>5. Calm(Engine(w)!Recovered(s))
  BY <1>2, Zenon DEF HasAlarm, Engine!Recovered
<1>6. \/ states' = Engine(w)!WithState(t, [s EXCEPT !.consecutiveSuccess = 0])
      \/ states' = Engine(w)!WithState(t, s)
      \/ states' = Engine(w)!WithState(t, [s EXCEPT !.consecutiveSuccess = s.consecutiveSuccess + 1])
      \/ states' = Engine(w)!WithState(t, Engine(w)!Recovered(s))
  BY Zenon DEF Engine!HandleSuccessOrWarning, s, e
<1>7. told' = told \/ told' = [told EXCEPT ![t] = "recovery"]
  BY Zenon DEF Engine!HandleSuccessOrWarning, Engine!Notify
<1>8. /\ told' \in [Target -> LastWords] /\ \A x \in Target \ {t} : told'[x] = told[x]
      /\ told'[t] \in {told[t], "recovery"}
  BY <1>7 DEF AgentTyped, LastWords
<1> QED
  BY <1>2, <1>3, <1>4, <1>5, <1>6, <1>8, Zenon

-----------------------------------------------------------------------------
(* The steps.  Most of them are of Monitor alone, and leave a check that   *)
(* is under way to its worker.                                             *)
ChecksGoOn == \A w \in Worker : worker[w].at = "checking" => worker'[w] = worker[w]

LEMMA AloneStep ==
  ASSUME AgentTyped, Untroubled, UNCHANGED <<engineVars, worldVars>>, done => done', ChecksGoOn
  PROVE  AgentTyped' /\ Untroubled'
BY DEF AgentTyped, Untroubled, engineVars, worldVars, ChecksGoOn

(* One entry is replaced and one last word: what is left to say is of      *)
(* their target.                                                           *)
LEMMA StoredEntry ==
  ASSUME AgentTyped, Untroubled, NEW w \in Worker, NEW t \in Target, NEW r, HasAlarm(r),
         states' = Engine(w)!WithState(t, r),
         told' \in [Target -> LastWords], \A x \in Target \ {t} : told'[x] = told[x],
         worker[w].at = "checking", worker' = [worker EXCEPT ![w].at = "processed"],
         answer' = [answer EXCEPT ![w] = "none"], UNCHANGED <<done, up, flips, wasDown>>,
         IInv,
         t \in Target \ wasDown /\ ~done =>
           (r.isAlarmed => t \in DOMAIN states /\ states[t].isAlarmed)
           /\ told'[t] \in {told[t], "recovery"}
  PROVE  AgentTyped' /\ Untroubled'
<1>1. /\ DOMAIN states' = DOMAIN states \cup {t} /\ states'[t] = r
      /\ \A x \in DOMAIN states \ {t} : states'[x] = states[x]
  BY DEF Engine!WithState
<1>2. /\ answer' \in [Worker -> {"none", "up", "down"}]
      /\ answer'[w] = "none"
      /\ \A v \in Worker \ {w} : answer'[v] = answer[v] /\ worker'[v] = worker[v]
  BY DEF AgentTyped, IInv, TypeOK
<1>3. AgentTyped'
  BY <1>1, <1>2 DEF AgentTyped
<1>4. Untroubled'
  <2> SUFFICES ASSUME NEW x \in Target \ wasDown, ~done
               PROVE  /\ \A v \in Worker : answer'[v] = "down" => worker'[v].job.target # x
                      /\ ~(x \in DOMAIN states' /\ states'[x].isAlarmed)
                      /\ told'[x] \notin {"critical", "reminder"}
    BY DEF Untroubled
  <2>1. \A v \in Worker : answer'[v] = "down" => worker'[v].job.target # x
    BY <1>2 DEF Untroubled
  <2>2. ~(x \in DOMAIN states' /\ states'[x].isAlarmed)
    <3>1. CASE x = t
      BY <1>1, <3>1 DEF Untroubled
    <3>2. CASE x # t
      BY <1>1, <3>2 DEF Untroubled
    <3> QED
      BY <3>1, <3>2
  <2>3. told'[x] \notin {"critical", "reminder"}
    BY DEF Untroubled
  <2> QED
    BY <2>1, <2>2, <2>3
<1> QED
  BY <1>3, <1>4

LEMMA JudgeStep ==
  ASSUME QuickAnswers, IInv, AgentTyped, Untroubled, NEW w \in Worker, Judge(w)
  PROVE  AgentTyped' /\ Untroubled'
<1>1. /\ answer[w] # "none" /\ answer' = [answer EXCEPT ![w] = "none"]
      /\ worker[w].at = "checking" /\ worker' = [worker EXCEPT ![w].at = "processed"]
      /\ UNCHANGED <<done, up, flips, wasDown>>
  BY DEF Judge, ProcessResult, worldVars, schedVars, syncVars
<1>2. worker[w].job.target \in Target /\ worker[w].job.version \in Version
  BY <1>1 DEF IInv, TypeOK, WorkerState, Job
<1>3. PICK t \in Target, v \in Version : worker[w].job.target = t /\ worker[w].job.version = v
  BY <1>2
<1>4. PICK p \in Engine(w)!Probe : /\ p.isDown <=> answer[w] = "down"
                                  /\ Engine(w)!ProcessResult(t, p, 1)
  BY <1>3, Zenon DEF Judge
<1>5. CASE p.isDown \/ p.latency > Rule[v].maxLatency
  <2>1. answer[w] = "down"
    <3>1. p.isDown \in BOOLEAN /\ (~p.isDown => p.latency \in Latency)
      BY DEF Engine!Probe
    <3>2. \A l \in Latency : ~(l > Rule[v].maxLatency)
      BY DEF QuickAnswers
    <3> QED
      BY <1>4, <1>5, <3>1, <3>2
  <2>2. t \in Target \ wasDown => done
    BY <1>3, <2>1 DEF Untroubled
  <2>3. Engine(w)!HandleCritical(t, 1)
    BY <1>3, <1>4, <1>5, Zenon DEF Engine!ProcessResult, Engine!IsCritical
  <2> QED
    BY <1>1, <2>2, <2>3, FailureTyped, StoredEntry
<1>6. CASE ~(p.isDown \/ p.latency > Rule[v].maxLatency)
  <2>1. \E slow : Engine(w)!HandleSuccessOrWarning(t, slow)
    BY <1>3, <1>4, <1>6, Zenon DEF Engine!ProcessResult, Engine!IsCritical
  <2> QED
    BY <1>1, <2>1, AnswerTyped, StoredEntry
<1> QED
  BY <1>5, <1>6

LEMMA CheckEndsStep ==
  ASSUME AgentTyped, Untroubled, NEW w \in Worker, CheckEnds(w)
  PROVE  AgentTyped' /\ Untroubled'
<1>1. PICK found \in {"up", "down"} :
        /\ found = "down" => worker[w].job.target \notin up \/ done
        /\ answer' = [answer EXCEPT ![w] = found]
  BY DEF CheckEnds, Aborted
<1>2. /\ worker[w].at = "checking"
      /\ UNCHANGED <<worker, done, states, told, up, wasDown>>
  BY DEF CheckEnds, vars, worldVars
<1>3. /\ answer' \in [Worker -> {"none", "up", "down"}]
      /\ answer'[w] = found /\ \A v \in Worker \ {w} : answer'[v] = answer[v]
  BY <1>1 DEF AgentTyped
<1>4. AgentTyped'
  BY <1>2, <1>3 DEF AgentTyped
<1>5. Untroubled'
  BY <1>1, <1>2, <1>3 DEF Untroubled, AgentTyped
<1> QED
  BY <1>4, <1>5

LEMMA FlipStep ==
  ASSUME AgentTyped, Untroubled, NEW t \in Target, Flip(t)
  PROVE  AgentTyped' /\ Untroubled'
<1>1. /\ wasDown' = wasDown \cup (Target \ up')
      /\ UNCHANGED <<worker, done, states, told, answer>>
  BY DEF Flip, vars, engineVars
<1> QED
  BY <1>1 DEF AgentTyped, Untroubled

LEMMA SyncAndResetStep ==
  ASSUME AgentTyped, Untroubled, SyncAndReset
  PROVE  AgentTyped' /\ Untroubled'
<1>1. PICK reset :
        /\ states' = [t \in DOMAIN states \ reset |-> states[t]]
        /\ told' = [t \in Target |-> IF t \in reset THEN "nothing" ELSE told[t]]
  BY DEF SyncAndReset
<1>2. UNCHANGED <<worker, done, answer, up, wasDown>>
  BY DEF SyncAndReset, Sync, worldVars
<1>3. AgentTyped'
  BY <1>1, <1>2 DEF AgentTyped, LastWords
<1>4. Untroubled'
  BY <1>1, <1>2 DEF Untroubled
<1> QED
  BY <1>3, <1>4

LEMMA AgentNext ==
  ASSUME QuickAnswers, AInv, [ANext]_agentVars
  PROVE  AInv'
<1>1. IInv /\ AgentTyped /\ Untroubled
  BY DEF AInv
<1> SUFFICES AgentTyped' /\ Untroubled'
  BY <1>1, NextIInv, AgentNextIsNext, Zenon DEF AInv
<1>2. CASE SyncStep
  <2>1. CASE SyncAndReset
    BY <1>1, <2>1, SyncAndResetStep
  <2>2. CASE Alone(FetchConfig) \/ Alone(FetchFails) \/ Alone(UpdateTargets) \/ Alone(StopSync)
    <3>1. UNCHANGED <<worker, done, engineVars, worldVars>>
      BY <2>2 DEF Alone, FetchConfig, FetchFails, UpdateTargets, StopSync
    <3> QED
      BY <1>1, <3>1, AloneStep DEF ChecksGoOn
  <2> QED
    BY <1>1, <1>2, <2>1, <2>2 DEF SyncStep
<1>3. CASE Alone(Edit) \/ Alone(StartTicks) \/ Alone(Shutdown)
  <2>1. UNCHANGED <<worker, engineVars, worldVars>> /\ (done => done')
    BY <1>3 DEF Alone, Edit, StartTicks, Shutdown
  <2> QED
    BY <1>1, <2>1, AloneStep DEF ChecksGoOn
<1>4. CASE \E l \in DOMAIN loops : LoopStep(l) \/ LoopExit(l)
  <2>1. UNCHANGED <<worker, done, engineVars, worldVars>>
    BY <1>4 DEF LoopStep, LoopExit, Alone, JitterOver, EnqueueJob, ExitLoop
  <2> QED
    BY <1>1, <2>1, AloneStep DEF ChecksGoOn
<1>5. ASSUME NEW w \in Worker, WorkerStep(w) \/ Alone(ExitWorker(w))
      PROVE  AgentTyped' /\ Untroubled'
  <2>1. CASE Judge(w)
    BY <1>1, <2>1, JudgeStep, Zenon
  <2>2. CASE CheckEnds(w)
    BY <1>1, <2>2, CheckEndsStep
  <2>3. CASE Alone(TakeJob(w)) \/ Alone(Report(w)) \/ Alone(ExitWorker(w))
    <3>1. /\ UNCHANGED <<done, engineVars, worldVars>>
          /\ worker[w].at # "checking" /\ \A v \in Worker \ {w} : worker'[v] = worker[v]
      BY <1>1, <2>3 DEF Alone, TakeJob, Report, ExitWorker, IInv, TypeOK
    <3>2. ChecksGoOn
      BY <3>1 DEF ChecksGoOn
    <3> QED
      BY <1>1, <3>1, <3>2, AloneStep, Zenon
  <2> QED
    BY <1>5, <2>1, <2>2, <2>3 DEF WorkerStep
<1>6. CASE \E t \in Target : Flip(t)
  BY <1>1, <1>6, FlipStep
<1>7. CASE UNCHANGED agentVars
  <2>1. UNCHANGED <<worker, done, engineVars, worldVars>>
    BY <1>7 DEF agentVars, vars
  <2> QED
    BY <1>1, <2>1, AloneStep DEF ChecksGoOn
<1> QED
  BY <1>2, <1>3, <1>4, <1>5, <1>6, <1>7 DEF ANext

LEMMA AgentStart == AInit => AInv
<1> SUFFICES ASSUME AInit PROVE AInv
  OBVIOUS
<1>1. IInv
  BY InitIInv DEF AInit
<1>2. AgentTyped /\ Untroubled
  BY DEF AInit, AgentTyped, Untroubled, LastWords
<1> QED
  BY <1>1, <1>2 DEF AInv

(* Whatever syncs, resets, stale jobs and other targets do: if no answer   *)
(* is slow enough to be a failure, a target that always answered is not in *)
(* alarm and nobody was told so, until the agent is stopped.               *)
THEOREM AgentRaisesNoFalseAlarm == ASSUME QuickAnswers PROVE ASpec => []NoFalseAlarm
<1>1. AInv => NoFalseAlarm
  BY DEF AInv, Untroubled, NoFalseAlarm, Alarmed, Listed!Alarmed
<1> QED
  BY <1>1, AgentStart, AgentNext, PTL DEF ASpec

-----------------------------------------------------------------------------
(* The rules of the engine.  An entry whose results were all of one        *)
(* configuration satisfies them under that configuration, whatever the     *)
(* list says now; of every other entry only the type is known.             *)
Sound(s, c) == Listed!ConsistentState(s, c) /\ Listed!NothingMissed(s, c)

EntriesSound ==
  \A t \in DOMAIN states \cap Target :
    /\ states[t] \in Listed!TargetState
    /\ \A v \in Version : evidence[t] \subseteq {v} => Sound(states[t], Rule[v])

RInv == IInv /\ EntriesSound

FieldsTyped(s) ==
  /\ s.isAlarmed \in BOOLEAN /\ s.lastReminderTime \in Nat /\ s.firstErrorTime \in Nat
  /\ s.windowErrors \in Nat /\ s.currentStreak \in Nat /\ s.maxStreakInWin \in Nat
  /\ s.consecutiveSuccess \in Nat

LEMMA StateFields ==
  ASSUME NEW s \in Listed!TargetState
  PROVE  FieldsTyped(s)
BY DEF Listed!TargetState, FieldsTyped

LEMMA CountedSound ==
  ASSUME NEW w \in Worker, NEW s \in Listed!TargetState
  PROVE  LET n == Engine(w)!CountFailure(s, 1)
         IN  /\ n \in Listed!TargetState
             /\ \A c : Listed!ConsistentState(s, c) =>
                         /\ Listed!ConsistentState(n, c)
                         /\ n.windowErrors > 0 /\ n.consecutiveSuccess = 0
<1> DEFINE n == Engine(w)!CountFailure(s, 1)
           f == IF s.windowErrors = 0 THEN 1 ELSE s.firstErrorTime
           m == IF s.currentStreak + 1 > s.maxStreakInWin THEN s.currentStreak + 1
                                                         ELSE s.maxStreakInWin
<1>1. FieldsTyped(s)
  BY StateFields
<1>2. /\ f \in Nat /\ m \in Nat /\ m >= s.currentStreak + 1
      /\ m >= s.maxStreakInWin /\ (m = s.currentStreak + 1 \/ m = s.maxStreakInWin)
      /\ (s.windowErrors = 0 => f = 1) /\ (s.windowErrors # 0 => f = s.firstErrorTime)
  BY <1>1 DEF FieldsTyped
<1>3. n = [s EXCEPT !.consecutiveSuccess = 0, !.firstErrorTime = f,
                    !.windowErrors = s.windowErrors + 1,
                    !.currentStreak = s.currentStreak + 1, !.maxStreakInWin = m]
  BY DEF Engine!CountFailure
<1> HIDE DEF f, m, n
<1>4. /\ n \in Listed!TargetState
      /\ n.isAlarmed = s.isAlarmed /\ n.lastReminderTime = s.lastReminderTime
      /\ n.consecutiveSuccess = 0 /\ n.windowErrors = s.windowErrors + 1
      /\ n.firstErrorTime = f /\ n.currentStreak = s.currentStreak + 1
      /\ n.maxStreakInWin = m
  <2>1. s.windowErrors + 1 \in Nat /\ s.currentStreak + 1 \in Nat
    BY <1>1 DEF FieldsTyped
  <2> QED
    BY <1>2, <1>3, <2>1 DEF Listed!TargetState
<1>5. ASSUME NEW c, Listed!ConsistentState(s, c)
      PROVE  Listed!ConsistentState(n, c)
  BY <1>1, <1>2, <1>4, <1>5 DEF FieldsTyped, Listed!ConsistentState, Listed!ZeroTime
<1>6. n.windowErrors > 0
  BY <1>1, <1>4 DEF FieldsTyped
<1> QED
  BY <1>4, <1>5, <1>6, Zenon DEF n

(* With T = 0 the judgement only raises the alarm, and raises it when the  *)
(* rule is satisfied.                                                      *)
LEMMA JudgedSound ==
  ASSUME NEW w \in Worker, NEW s \in Listed!TargetState, NEW c, c.T = 0
  PROVE  LET n == Engine(w)!Judge(s, c, 1)
         IN  /\ n \in Listed!TargetState
             /\ /\ Listed!ConsistentState(s, c)
                /\ s.windowErrors > 0 /\ s.consecutiveSuccess = 0
                => Sound(n, c)
<1> DEFINE n == Engine(w)!Judge(s, c, 1)
           r == [s EXCEPT !.isAlarmed = TRUE, !.lastReminderTime = 1]
<1>1. /\ Engine(w)!Raises(s, c, 1) => n = r
      /\ ~Engine(w)!Raises(s, c, 1) => n = s
  BY Zenon DEF Engine!Judge, Engine!WindowExpired
<1>2. Engine(w)!Raises(s, c, 1) <=> Listed!ConditionMet(s, c) /\ ~s.isAlarmed
  BY Zenon DEF Engine!Raises, Engine!ShouldAlarm, Engine!ConditionMet, Listed!ConditionMet
<1> HIDE DEF n
<1>3. /\ r \in Listed!TargetState /\ r.isAlarmed /\ r.lastReminderTime = 1
      /\ r.firstErrorTime = s.firstErrorTime /\ r.windowErrors = s.windowErrors
      /\ r.consecutiveSuccess = s.consecutiveSuccess
      /\ r.currentStreak = s.currentStreak /\ r.maxStreakInWin = s.maxStreakInWin
  BY DEF Listed!TargetState
<1> HIDE DEF r
<1>4. ASSUME Listed!ConsistentState(s, c), s.windowErrors > 0, s.consecutiveSuccess = 0
      PROVE  Sound(n, c)
  <2>1. CASE Engine(w)!Raises(s, c, 1)
    BY <1>1, <1>3, <1>4, <2>1, StateFields
    DEF Sound, FieldsTyped, Listed!ConsistentState, Listed!NothingMissed, Listed!ZeroTime
  <2>2. CASE ~Engine(w)!Raises(s, c, 1)
    BY <1>1, <1>2, <1>4, <2>2 DEF Sound, Listed!NothingMissed
  <2> QED
    BY <2>1, <2>2
<1>5. n \in Listed!TargetState
  BY <1>1, <1>3
<1> QED
  BY <1>4, <1>5, Zenon DEF n

LEMMA RemindedSound ==
  ASSUME NEW s \in Listed!TargetState
  PROVE  LET n == [s EXCEPT !.lastReminderTime = 1]
         IN  /\ n \in Listed!TargetState
             /\ \A c : Sound(s, c) => Sound(n, c)
<1> DEFINE n == [s EXCEPT !.lastReminderTime = 1]
<1>1. /\ n \in Listed!TargetState
      /\ n.isAlarmed = s.isAlarmed /\ n.firstErrorTime = s.firstErrorTime
      /\ n.windowErrors = s.windowErrors /\ n.consecutiveSuccess = s.consecutiveSuccess
      /\ n.currentStreak = s.currentStreak /\ n.maxStreakInWin = s.maxStreakInWin
      /\ n.lastReminderTime = 1
  BY DEF Listed!TargetState
<1> HIDE DEF n
<1>2. ASSUME NEW c, Sound(s, c) PROVE Sound(n, c)
  BY <1>1, <1>2 DEF Sound, Listed!ConsistentState, Listed!NothingMissed,
                    Listed!ConditionMet, Listed!ZeroTime
<1> QED
  BY <1>1, <1>2, Zenon DEF n

(* What HandleSuccessOrWarning may store, short of a recovery. *)
LEMMA AnsweredSound ==
  ASSUME NEW s \in Listed!TargetState, NEW k \in Nat
  PROVE  LET n == [[s EXCEPT !.currentStreak = 0] EXCEPT !.consecutiveSuccess = k]
         IN  /\ n \in Listed!TargetState
             /\ \A c : Sound(s, c) /\ (k > 0 => s.isAlarmed /\ k < c.R) => Sound(n, c)
<1> DEFINE m == [s EXCEPT !.currentStreak = 0]
           n == [m EXCEPT !.consecutiveSuccess = k]
<1>1. m \in Listed!TargetState /\ n \in Listed!TargetState
  BY DEF Listed!TargetState
<1>2. /\ n.isAlarmed = s.isAlarmed /\ n.firstErrorTime = s.firstErrorTime
      /\ n.windowErrors = s.windowErrors /\ n.consecutiveSuccess = k
      /\ n.currentStreak = 0 /\ n.maxStreakInWin = s.maxStreakInWin
      /\ n.lastReminderTime = s.lastReminderTime
  BY <1>1 DEF Listed!TargetState
<1> HIDE DEF m, n
<1>3. ASSUME NEW c, Sound(s, c), k > 0 => s.isAlarmed /\ k < c.R PROVE Sound(n, c)
  BY <1>2, <1>3, StateFields DEF Sound, FieldsTyped, Listed!ConsistentState,
     Listed!NothingMissed, Listed!ConditionMet, Listed!ZeroTime
<1> QED
  BY <1>1, <1>3, Zenon DEF m, n

LEMMA RecoveredSound ==
  ASSUME NEW w \in Worker, NEW s \in Listed!TargetState
  PROVE  LET n == Engine(w)!Recovered(s)
         IN  n \in Listed!TargetState /\ \A c : Sound(n, c)
<1> DEFINE n == Engine(w)!Recovered(s)
<1>1. /\ n \in Listed!TargetState
      /\ n.isAlarmed = FALSE /\ n.consecutiveSuccess = 0 /\ n.firstErrorTime = 0
      /\ n.windowErrors = 0 /\ n.currentStreak = 0 /\ n.maxStreakInWin = 0
  BY DEF Engine!Recovered, Engine!ZeroTime, Listed!TargetState
<1> HIDE DEF n
<1>2. ASSUME NEW c PROVE Sound(n, c)
  BY <1>1 DEF Sound, Listed!ConsistentState, Listed!NothingMissed, Listed!ZeroTime
<1> QED
  BY <1>1, <1>2, Zenon DEF n

LEMMA FreshSound ==
  ASSUME NEW w \in Worker
  PROVE  /\ Engine(w)!Fresh \in Listed!TargetState
         /\ \A c : Sound(Engine(w)!Fresh, c)
BY DEF Engine!Fresh, Engine!ZeroTime, Sound, Listed!TargetState, Listed!ConsistentState,
       Listed!NothingMissed, Listed!ZeroTime

(* The entry of a target, if its results were all of version v. *)
LEMMA EntrySound ==
  ASSUME EntriesSound, NEW w \in Worker, NEW t \in Target
  PROVE  /\ Engine(w)!StateOf(t) \in Listed!TargetState
         /\ \A v \in Version : evidence[t] \subseteq {v} => Sound(Engine(w)!StateOf(t), Rule[v])
<1>1. CASE t \in DOMAIN states
  BY <1>1, Zenon DEF Engine!StateOf, EntriesSound
<1>2. CASE t \notin DOMAIN states
  BY <1>2, FreshSound, Zenon DEF Engine!StateOf
<1> QED
  BY <1>1, <1>2

LEMMA FailureSound ==
  ASSUME EntriesSound, NEW w \in Worker, NEW t \in Target, NEW v \in Version,
         worker[w].job.version = v, Engine(w)!HandleCritical(t, 1)
  PROVE  \E r \in Listed!TargetState :
           /\ states' = Engine(w)!WithState(t, r)
           /\ evidence[t] \subseteq {v} => Sound(r, Rule[v])
<1> DEFINE s == Engine(w)!StateOf(t)
           counted == Engine(w)!CountFailure(s, 1)
           judged == Engine(w)!Judge(counted, Rule[v], 1)
           reminded == [judged EXCEPT !.lastReminderTime = 1]
<1>1. states' = Engine(w)!WithState(t, judged) \/ states' = Engine(w)!WithState(t, reminded)
  BY Zenon DEF Engine!HandleCritical
<1>2. /\ s \in Listed!TargetState
      /\ evidence[t] \subseteq {v} => Sound(s, Rule[v])
  BY EntrySound
<1> HIDE DEF s
<1>3. /\ counted \in Listed!TargetState
      /\ Listed!ConsistentState(s, Rule[v]) =>
           /\ Listed!ConsistentState(counted, Rule[v])
           /\ counted.windowErrors > 0 /\ counted.consecutiveSuccess = 0
  BY <1>2, CountedSound, Zenon
<1> HIDE DEF counted
<1>4. /\ judged \in Listed!TargetState
      /\ evidence[t] \subseteq {v} => Sound(judged, Rule[v])
  <2>1. Rule[v].T = 0
    BY AgentAssumption
  <2> QED
    BY <1>2, <1>3, <2>1, JudgedSound, Zenon DEF Sound
<1> HIDE DEF judged
<1>5. /\ reminded \in Listed!TargetState
      /\ evidence[t] \subseteq {v} => Sound(reminded, Rule[v])
  BY <1>4, RemindedSound, Zenon
<1> QED
  BY <1>1, <1>4, <1>5, Zenon

LEMMA AnswerSound ==
  ASSUME EntriesSound, NEW w \in Worker, NEW t \in Target, NEW v \in Version,
         worker[w].job.version = v, NEW slow, Engine(w)!HandleSuccessOrWarning(t, slow)
  PROVE  \E r \in Listed!TargetState :
           /\ states' = Engine(w)!WithState(t, r)
           /\ evidence[t] \subseteq {v} => Sound(r, Rule[v])
<1> DEFINE e == Engine(w)!StateOf(t)
           s == [e EXCEPT !.currentStreak = 0]
           Fits(r) == r \in Listed!TargetState /\ (evidence[t] \subseteq {v} => Sound(r, Rule[v]))
<1>1. Fits(e)
  BY EntrySound
<1> HIDE DEF e
<1>2. /\ s \in Listed!TargetState /\ s.isAlarmed = e.isAlarmed
      /\ s.consecutiveSuccess = e.consecutiveSuccess /\ e.consecutiveSuccess \in Nat
  BY <1>1 DEF Listed!TargetState
<1>3. \A k \in Nat : /\ [s EXCEPT !.consecutiveSuccess = k] \in Listed!TargetState
                     /\ \A c : Sound(e, c) /\ (k > 0 => e.isAlarmed /\ k < c.R)
                               => Sound([s EXCEPT !.consecutiveSuccess = k], c)
  BY <1>1, AnsweredSound, Zenon
<1>4. s = [s EXCEPT !.consecutiveSuccess = e.consecutiveSuccess]
  BY <1>2 DEF Listed!TargetState
<1> HIDE DEF s
<1>5. Fits(s)
  <2>1. Sound(e, Rule[v]) =>
          (e.consecutiveSuccess > 0 => e.isAlarmed /\ e.consecutiveSuccess < Rule[v].R)
    BY DEF Sound, Listed!ConsistentState
  <2> QED
    BY <1>1, <1>2, <1>3, <1>4, <2>1, Zenon
<1>6. Fits([s EXCEPT !.consecutiveSuccess = 0])
  <2>1. 0 \in Nat /\ ~(0 > 0)
    OBVIOUS
  <2> QED
    BY <1>1, <1>3, <2>1, Zenon
<1>7. e.isAlarmed /\ ~(s.consecutiveSuccess + 1 >= Rule[v].R) =>
        Fits([s EXCEPT !.consecutiveSuccess = s.consecutiveSuccess + 1])
  <2> DEFINE k == s.consecutiveSuccess + 1
  <2>1. k \in Nat /\ (~(k >= Rule[v].R) => k < Rule[v].R)
    BY <1>2, AgentAssumption
  <2> HIDE DEF k
  <2>2. e.isAlarmed /\ ~(k >= Rule[v].R) => Fits([s EXCEPT !.consecutiveSuccess = k])
    BY <1>1, <1>3, <2>1, Zenon
  <2> QED
    BY <2>2 DEF k
<1>8. Fits(Engine(w)!Recovered(s))
  BY <1>2, RecoveredSound
<1>9. \/ states' = Engine(w)!WithState(t, [s EXCEPT !.consecutiveSuccess = 0])
      \/ states' = Engine(w)!WithState(t, s)
      \/ /\ s.isAlarmed /\ ~(s.consecutiveSuccess + 1 >= Rule[v].R)
         /\ states' = Engine(w)!WithState(t, [s EXCEPT !.consecutiveSuccess =
                                                          s.consecutiveSuccess + 1])
      \/ states' = Engine(w)!WithState(t, Engine(w)!Recovered(s))
  BY Zenon DEF Engine!HandleSuccessOrWarning, Engine!RecoveryComplete, s, e
<1> QED
  BY <1>2, <1>5, <1>6, <1>7, <1>8, <1>9, Zenon

(* One more result of version v: the entry is of one configuration after   *)
(* it only if that is v, and then it was before.                           *)
LEMMA ResultSound ==
  ASSUME IInv, EntriesSound, NEW w \in Worker, Judge(w)
  PROVE  EntriesSound'
<1>1. worker[w].at = "checking"
  BY DEF Judge, ProcessResult
<1>2. worker[w].job.target \in Target /\ worker[w].job.version \in Version
  BY <1>1 DEF IInv, TypeOK, WorkerState, Job
<1>3. PICK t \in Target, v \in Version : worker[w].job.target = t /\ worker[w].job.version = v
  BY <1>2
<1>4. PICK p \in Engine(w)!Probe : Engine(w)!ProcessResult(t, p, 1)
  BY <1>3, Zenon DEF Judge
<1>5. PICK r \in Listed!TargetState :
        /\ states' = Engine(w)!WithState(t, r)
        /\ evidence[t] \subseteq {v} => Sound(r, Rule[v])
  <2>1. \/ Engine(w)!HandleCritical(t, 1)
        \/ \E slow : Engine(w)!HandleSuccessOrWarning(t, slow)
    BY <1>4, Zenon DEF Engine!ProcessResult
  <2> QED
    BY <1>3, <2>1, FailureSound, AnswerSound, Zenon
<1>6. /\ DOMAIN states' = DOMAIN states \cup {t} /\ states'[t] = r
      /\ \A x \in DOMAIN states \ {t} : states'[x] = states[x]
  BY <1>5 DEF Engine!WithState
<1>7. /\ evidence'[t] = evidence[t] \cup {v}
      /\ \A x \in Target \ {t} : evidence'[x] = evidence[x]
  BY <1>3 DEF Judge, ProcessResult, IInv, TypeOK
<1>8. ASSUME NEW x \in DOMAIN states' \cap Target
      PROVE  /\ states'[x] \in Listed!TargetState
             /\ \A u \in Version : evidence'[x] \subseteq {u} => Sound(states'[x], Rule[u])
  <2>1. CASE x = t
    BY <1>5, <1>6, <1>7, <2>1
  <2>2. CASE x # t
    BY <1>6, <1>7, <2>2 DEF EntriesSound
  <2> QED
    BY <2>1, <2>2
<1> QED
  BY <1>8, Zenon DEF EntriesSound, Sound, Listed!ConsistentState, Listed!NothingMissed,
     Listed!ConditionMet, Listed!ZeroTime, Listed!TargetState

(* A reset takes the entry and its evidence together. *)
LEMMA ResetSound ==
  ASSUME IInv, EntriesSound, SyncAndReset
  PROVE  EntriesSound'
<1> DEFINE stale == Stale(Incoming(sync.list))
<1>1. PICK reset :
        /\ reset = IF running /\ ~done THEN stale ELSE {}
        /\ states' = [t \in DOMAIN states \ reset |-> states[t]]
  BY Zenon DEF SyncAndReset, ResetBySync
<1>2. \A t \in Target \ reset : evidence'[t] = evidence[t]
  <2>1. CASE running /\ ~done
    <3>1. evidence' = [t \in Target |-> IF t \in stale THEN {} ELSE evidence[t]]
      BY <2>1, Zenon DEF SyncAndReset, Sync, SyncConfiguration
    <3> QED
      BY <1>1, <2>1, <3>1, Zenon
  <2>2. CASE ~(running /\ ~done)
    BY <2>2, Zenon DEF SyncAndReset, Sync
  <2> QED
    BY <2>1, <2>2
<1>3. \A t \in DOMAIN states' : t \in DOMAIN states \ reset /\ states'[t] = states[t]
  BY <1>1
<1>4. ASSUME NEW t \in DOMAIN states' \cap Target
      PROVE  /\ states'[t] \in Listed!TargetState
             /\ \A v \in Version : evidence'[t] \subseteq {v} => Sound(states'[t], Rule[v])
  BY <1>2, <1>3 DEF EntriesSound
<1> QED
  BY <1>4, Zenon DEF EntriesSound, Sound, Listed!ConsistentState, Listed!NothingMissed,
     Listed!ConditionMet, Listed!ZeroTime, Listed!TargetState

LEMMA IdleSound ==
  ASSUME EntriesSound, UNCHANGED <<states, evidence>>
  PROVE  EntriesSound'
BY Zenon DEF EntriesSound, Sound, Listed!ConsistentState, Listed!NothingMissed,
   Listed!ConditionMet, Listed!ZeroTime, Listed!TargetState

LEMMA NextSound ==
  ASSUME RInv, [ANext]_agentVars
  PROVE  RInv'
<1>1. IInv /\ EntriesSound
  BY DEF RInv
<1> SUFFICES EntriesSound'
  BY <1>1, NextIInv, AgentNextIsNext, Zenon DEF RInv
<1>2. CASE SyncAndReset
  BY <1>1, <1>2, ResetSound
<1>3. CASE \E w \in Worker : Judge(w)
  BY <1>1, <1>3, ResultSound
<1>4. CASE UNCHANGED <<states, evidence>>
  BY <1>1, <1>4, IdleSound
<1>5. SyncAndReset \/ (\E w \in Worker : Judge(w)) \/ UNCHANGED <<states, evidence>>
  <2>1. CASE SyncStep
    BY <2>1 DEF SyncStep, Alone, FetchConfig, FetchFails, UpdateTargets, StopSync, engineVars
  <2>2. CASE Alone(Edit) \/ Alone(StartTicks) \/ Alone(Shutdown)
    BY <2>2 DEF Alone, Edit, StartTicks, Shutdown, engineVars
  <2>3. CASE \E l \in DOMAIN loops : LoopStep(l) \/ LoopExit(l)
    BY <2>3 DEF LoopStep, LoopExit, Alone, JitterOver, EnqueueJob, ExitLoop, engineVars
  <2>4. CASE \E w \in Worker : WorkerStep(w) \/ Alone(ExitWorker(w))
    BY <2>4 DEF WorkerStep, CheckEnds, Alone, TakeJob, Report, ExitWorker, engineVars, vars
  <2>5. CASE (\E t \in Target : Flip(t)) \/ UNCHANGED agentVars
    BY <2>5 DEF Flip, agentVars, engineVars, vars
  <2> QED
    BY <2>1, <2>2, <2>3, <2>4, <2>5 DEF ANext
<1> QED
  BY <1>2, <1>3, <1>4, <1>5

(* However edits, syncs, jobs of older configurations and checks under way *)
(* interleave: an entry whose results were all of the listed configuration *)
(* keeps the rules of the alert engine under that configuration.           *)
THEOREM AgentKeepsEngineRules == ASpec => []EngineRulesHold
<1>1. AInit => RInv
  <2> SUFFICES ASSUME AInit PROVE RInv
    OBVIOUS
  <2>1. IInv /\ DOMAIN states = {}
    BY InitIInv DEF AInit
  <2> QED
    BY <2>1 DEF RInv, EntriesSound
<1>2. RInv => EngineRulesHold
  <2> SUFFICES ASSUME RInv, NEW t \in DOMAIN states \cap DOMAIN activeTargets,
                      evidence[t] \subseteq {activeTargets[t]}
               PROVE  Sound(states[t], Rule[activeTargets[t]])
    BY Zenon DEF EngineRulesHold, Sound
  <2>1. t \in Target /\ activeTargets[t] \in Version
    BY ListTyped DEF RInv, IInv, TypeOK
  <2> QED
    BY <2>1 DEF RInv, EntriesSound
<1> QED
  BY <1>1, <1>2, NextSound, PTL DEF ASpec

-----------------------------------------------------------------------------
(* What has converged stays.  The pieces of RunsList. *)
Current(j) == j.target \in DOMAIN activeTargets /\ j.version = activeTargets[j.target]

LoopsCurrent == \A l \in DOMAIN loops : /\ l[1] \in DOMAIN activeTargets
                                        /\ loops[l].version = activeTargets[l[1]]

JobsCurrent == /\ \A i \in DOMAIN jobQueue : Current(jobQueue[i])
               /\ \A w \in Worker : worker[w].at = "checking" => Current(worker[w].job)

LEMMA RunsListParts ==
  ASSUME NEW list
  PROVE  RunsList(list) <=> activeTargets = Incoming(list) /\ LoopsCurrent /\ JobsCurrent
  BY DEF RunsList, LoopsCurrent, JobsCurrent, Current

LEMMA RunsListPartsNext ==
  ASSUME NEW list
  PROVE  RunsList(list)' <=>
           activeTargets' = Incoming(list) /\ LoopsCurrent' /\ JobsCurrent'
  BY DEF RunsList, LoopsCurrent, JobsCurrent, Current, Incoming

(* A list that is listed already changes nothing. *)
LEMMA SyncSame ==
  ASSUME IInv, Sync, activeTargets = Incoming(sync.list)
  PROVE  /\ activeTargets' = activeTargets
         /\ DOMAIN loops' = DOMAIN loops
         /\ \A l \in DOMAIN loops : loops'[l].version = loops[l].version
<1>1. CASE running /\ ~done
  <2> DEFINE incoming == Incoming(sync.list)
             stale    == Stale(incoming)
             kept     == Kept(stale)
             added    == DOMAIN incoming \ kept
             new      == {<<t, started[t] + 1>> : t \in added}
  <2>1. stale = {}
    BY DEF Stale
  <2>2. added = {} /\ kept = DOMAIN activeTargets
    BY <2>1 DEF Kept
  <2>3. new = {}
    BY <2>2
  <2>4. SyncConfiguration
    BY <1>1 DEF Sync
  <2>5. /\ activeTargets' = [t \in kept \cup added |->
                               IF t \in added THEN incoming[t] ELSE activeTargets[t]]
        /\ loops' = [l \in DOMAIN loops \cup new |->
                       IF l \in new
                       THEN [version |-> incoming[l[1]], at |-> "jitter", cancelled |-> FALSE]
                       ELSE [loops[l] EXCEPT !.cancelled = @ \/ l \in CancelledBy(stale)]]
    BY <2>4, Zenon DEF SyncConfiguration
  <2> HIDE DEF incoming, stale, kept, added, new
  <2>6. activeTargets' = [t \in DOMAIN activeTargets |-> activeTargets[t]]
    BY <2>2, <2>5
  <2>7. DOMAIN loops' = DOMAIN loops
    BY <2>3, <2>5
  <2>8. ASSUME NEW l \in DOMAIN loops
        PROVE  loops'[l].version = loops[l].version
    <3>1. loops[l] \in LoopState
      BY DEF IInv, TypeOK
    <3>2. loops'[l] = [loops[l] EXCEPT !.cancelled = @ \/ l \in CancelledBy(stale)]
      BY <2>3, <2>5
    <3>3. QED
      BY <3>1, <3>2 DEF LoopState
  <2>9. activeTargets' = activeTargets
    BY <2>6 DEF IInv, TypeOK, Lists
  <2>10. QED
    BY <2>7, <2>8, <2>9
<1>2. CASE ~(running /\ ~done)
  BY <1>2 DEF Sync
<1>3. QED
  BY <1>1, <1>2

LEMMA LoopsStep ==
  ASSUME IInv, LoopsCurrent, JobsCurrent, NEW l \in DOMAIN loops,
         JitterOver(l) \/ EnqueueJob(l) \/ ExitLoop(l)
  PROVE  LoopsCurrent' /\ JobsCurrent'
<1>1. l \in Target \X Nat /\ \A x \in DOMAIN loops : loops[x] \in LoopState
  BY DEF IInv, TypeOK
<1>2. UNCHANGED <<activeTargets, worker>>
  BY DEF JitterOver, EnqueueJob, ExitLoop, schedVars
<1>3. /\ DOMAIN loops' \subseteq DOMAIN loops
      /\ \A x \in DOMAIN loops' : loops'[x].version = loops[x].version
  <2>1. CASE ExitLoop(l)
    BY <2>1 DEF ExitLoop
  <2>2. CASE JitterOver(l) \/ EnqueueJob(l)
    <3>1. PICK a \in {"first", "ticking"} : loops' = [loops EXCEPT ![l].at = a]
      BY <2>2 DEF JitterOver, EnqueueJob
    <3>2. QED
      BY <1>1, <3>1 DEF LoopState
  <2>3. QED
    BY <2>1, <2>2
<1>4. LoopsCurrent'
  BY <1>2, <1>3 DEF LoopsCurrent
<1>5. \A i \in DOMAIN jobQueue' : Current(jobQueue'[i])
  <2>1. CASE jobQueue' = jobQueue
    BY <2>1 DEF JobsCurrent
  <2>2. CASE jobQueue' = Append(jobQueue, [target |-> l[1], version |-> loops[l].version])
    <3> DEFINE j == [target |-> l[1], version |-> loops[l].version]
    <3>1. Current(j)
      BY DEF LoopsCurrent, Current
    <3>2. jobQueue \in Seq(Job) /\ j \in Job
      BY <1>1 DEF IInv, TypeOK, Job, LoopState
    <3> HIDE DEF j
    <3>3. \A i \in DOMAIN jobQueue' : (i \in DOMAIN jobQueue /\ jobQueue'[i] = jobQueue[i])
                                      \/ jobQueue'[i] = j
      BY <2>2, <3>2 DEF j
    <3>4. QED
      BY <3>1, <3>3 DEF JobsCurrent
  <2>3. QED
    BY <2>1, <2>2 DEF JitterOver, EnqueueJob, ExitLoop
<1>6. JobsCurrent'
  BY <1>2, <1>5 DEF JobsCurrent, Current
<1>7. QED
  BY <1>4, <1>6

LEMMA WorkersStep ==
  ASSUME IInv, LoopsCurrent, JobsCurrent, NEW w \in Worker,
         TakeJob(w) \/ ProcessResult(w) \/ Report(w) \/ ExitWorker(w)
  PROVE  LoopsCurrent' /\ JobsCurrent'
<1>1. UNCHANGED <<activeTargets, loops>>
  BY DEF TakeJob, ProcessResult, Report, ExitWorker, schedVars
<1>2. \A x \in Worker \ {w} : worker'[x] = worker[x]
  BY DEF TakeJob, ProcessResult, Report, ExitWorker, IInv, TypeOK
<1>3. jobQueue \in Seq(Job) /\ worker \in [Worker -> WorkerState]
  BY DEF IInv, TypeOK
<1>4. CASE TakeJob(w)
  <2>1. /\ jobQueue # <<>> /\ jobQueue' = Tail(jobQueue)
        /\ worker'[w] \in {[at |-> "checking", job |-> Head(jobQueue)], Idle}
    BY <1>3, <1>4 DEF TakeJob
  <2>2. /\ 1 \in DOMAIN jobQueue /\ Head(jobQueue) = jobQueue[1]
        /\ \A i \in DOMAIN jobQueue' : i + 1 \in DOMAIN jobQueue /\ jobQueue'[i] = jobQueue[i + 1]
    BY <1>3, <2>1
  <2>3. \A i \in DOMAIN jobQueue' : Current(jobQueue'[i])
    BY <2>2 DEF JobsCurrent
  <2>4. worker'[w].at = "checking" => Current(worker'[w].job)
    BY <2>1, <2>2 DEF JobsCurrent, Idle
  <2>5. QED
    BY <1>1, <1>2, <2>3, <2>4 DEF LoopsCurrent, JobsCurrent, Current
<1>5. CASE ProcessResult(w) \/ Report(w) \/ ExitWorker(w)
  <2>1. worker'[w].at # "checking" /\ jobQueue' = jobQueue
    BY <1>3, <1>5 DEF ProcessResult, Report, ExitWorker, Idle, WorkerState
  <2>2. QED
    BY <1>1, <1>2, <2>1 DEF LoopsCurrent, JobsCurrent, Current
<1>6. QED
  BY <1>4, <1>5

(* No list but the one that runs is on its way, and a sync with that one   *)
(* leaves the targets as they are.                                         *)
LEMMA HoldsStep ==
  ASSUME IInv, [Next]_vars, NEW list, HoldsNoOther(list), activeTargets = Incoming(list),
         cp' = list
  PROVE  HoldsNoOther(list)' /\ activeTargets' = activeTargets
<1>1. sync \in SyncState /\ cp = list /\ (sync.at \in {"fetched", "updated"} => sync.list = list)
  BY DEF IInv, TypeOK, HoldsNoOther
<1> SUFFICES /\ activeTargets' = activeTargets
             /\ sync'.at \in {"fetched", "updated"} => sync'.list = list
  BY DEF HoldsNoOther
<1>2. CASE Sync
  <2>1. sync'.at = "waiting" /\ sync.at = "updated"
    BY <1>2 DEF Sync
  <2>2. QED
    BY <1>1, <1>2, <2>1, SyncSame
<1>3. CASE Edit \/ FetchConfig \/ FetchFails \/ UpdateTargets \/ StopSync
  <2>1. UNCHANGED activeTargets
    BY <1>3 DEF Edit, FetchConfig, FetchFails, UpdateTargets, StopSync, schedVars
  <2>2. sync'.at \in {"fetched", "updated"} => sync'.list = list
    BY <1>1, <1>3 DEF Edit, FetchConfig, FetchFails, UpdateTargets, StopSync, SyncState
  <2>3. QED
    BY <2>1, <2>2
<1>4. CASE StartTicks \/ Shutdown \/ UNCHANGED vars
  BY <1>1, <1>4 DEF StartTicks, Shutdown, vars, syncVars, schedVars
<1>5. CASE \E l \in DOMAIN loops : JitterOver(l) \/ EnqueueJob(l) \/ ExitLoop(l)
  BY <1>1, <1>5 DEF JitterOver, EnqueueJob, ExitLoop, schedVars, syncVars
<1>6. CASE \E w \in Worker : TakeJob(w) \/ ProcessResult(w) \/ Report(w) \/ ExitWorker(w)
  BY <1>1, <1>6 DEF TakeJob, ProcessResult, Report, ExitWorker, schedVars, syncVars
<1>7. QED
  BY <1>2, <1>3, <1>4, <1>5, <1>6 DEF Next

LEMMA DoneStays ==
  ASSUME [Next]_vars, done
  PROVE  done'
  BY DEF Next, vars, Edit, FetchConfig, FetchFails, UpdateTargets, Sync, StopSync, StartTicks,
         JitterOver, EnqueueJob, ExitLoop, TakeJob, ProcessResult, Report, ExitWorker, Shutdown

LEMMA ConvergedStep ==
  ASSUME IInv, [Next]_vars, NEW list, Converged(list), cp' = list
  PROVE  Converged(list)'
<1>1. /\ activeTargets = Incoming(list) /\ LoopsCurrent /\ JobsCurrent
      /\ HoldsNoOther(list)
  BY RunsListParts DEF Converged
<1>2. HoldsNoOther(list)' /\ activeTargets' = activeTargets
  BY <1>1, HoldsStep
<1> SUFFICES LoopsCurrent' /\ JobsCurrent'
  BY <1>1, <1>2, RunsListPartsNext DEF Converged
<1>3. CASE Sync
  <2>1. UNCHANGED <<jobQueue, worker>> /\ sync.at = "updated"
    BY <1>3 DEF Sync
  <2>2. sync.list = list
    BY <1>1, <2>1 DEF HoldsNoOther
  <2>3. /\ DOMAIN loops' = DOMAIN loops
        /\ \A l \in DOMAIN loops : loops'[l].version = loops[l].version
    BY <1>1, <1>3, <2>2, SyncSame
  <2>4. QED
    BY <1>1, <1>2, <2>1, <2>3 DEF LoopsCurrent, JobsCurrent, Current
<1>4. CASE UNCHANGED <<loops, jobQueue, worker>>
  BY <1>1, <1>2, <1>4 DEF LoopsCurrent, JobsCurrent, Current
<1>5. CASE \E l \in DOMAIN loops : JitterOver(l) \/ EnqueueJob(l) \/ ExitLoop(l)
  BY <1>1, <1>5, LoopsStep
<1>6. CASE \E w \in Worker : TakeJob(w) \/ ProcessResult(w) \/ Report(w) \/ ExitWorker(w)
  BY <1>1, <1>6, WorkersStep
<1>7. CASE \/ Edit \/ FetchConfig \/ FetchFails \/ UpdateTargets \/ StopSync
           \/ StartTicks \/ Shutdown \/ UNCHANGED vars
  <2>1. UNCHANGED <<loops, jobQueue, worker>>
    BY <1>7 DEF Edit, FetchConfig, FetchFails, UpdateTargets, StopSync, StartTicks, Shutdown,
                vars
  <2>2. QED
    BY <1>4, <2>1
<1>8. QED
  BY <1>3, <1>5, <1>6, <1>7 DEF Next

(* Once the agent runs the list of the Control Plane and holds no other, it *)
(* does so until that list changes: ConvergesToControlPlane asks only to    *)
(* get there.                                                               *)
THEOREM MonitorStaysConverged == Spec => StaysConverged
<1>1. IInv /\ [Next]_vars =>
        [\A list \in Listable : Converged(list) /\ cp' = list => Converged(list)']_vars
  <2> SUFFICES ASSUME IInv, [Next]_vars, NEW list \in Listable, Converged(list), cp' = list
               PROVE  Converged(list)'
    OBVIOUS
  <2>1. QED
    BY ConvergedStep
<1>2. QED
  BY <1>1, MonitorInvariant, PTL DEF Spec, StaysConverged

-----------------------------------------------------------------------------
(* The way of the sync loop. *)
Boot     == sync.at = "boot"
AtRest   == sync.at = "waiting"
Fetched  == sync.at = "fetched"
Updated  == sync.at = "updated"
Returned == sync.at = "stopped"

(* The loop only returns after the signal. *)
ReturnedDone == Returned => done

LEMMA SyncPlaces == IInv => Boot \/ AtRest \/ Fetched \/ Updated \/ Returned
  BY DEF IInv, TypeOK, SyncState, Boot, AtRest, Fetched, Updated, Returned

LEMMA SyncWay ==
  ASSUME IInv, [Next]_vars
  PROVE  /\ Boot => Boot' \/ AtRest' \/ Fetched'
         /\ AtRest => AtRest' \/ Fetched' \/ Returned'
         /\ Fetched => Fetched' \/ Updated'
         /\ Updated => (Updated' \/ AtRest') /\ (Updated' \/ Sync)
         /\ Returned => Returned'
         /\ done /\ Boot => ~Fetched'
         /\ done /\ AtRest => ~Fetched'
         /\ Returned' => Returned \/ done
<1> USE DEF Boot, AtRest, Fetched, Updated, Returned
<1>1. sync \in SyncState
  BY DEF IInv, TypeOK
<1>2. CASE FetchConfig \/ FetchFails \/ UpdateTargets \/ StopSync
  BY <1>1, <1>2 DEF FetchConfig, FetchFails, UpdateTargets, StopSync, SyncState
<1>3. CASE Sync
  BY <1>3 DEF Sync
<1>4. CASE Edit \/ StartTicks \/ Shutdown \/ UNCHANGED vars
  BY <1>4 DEF Edit, StartTicks, Shutdown, vars, syncVars
<1>5. CASE \E l \in DOMAIN loops : JitterOver(l) \/ EnqueueJob(l) \/ ExitLoop(l)
  BY <1>5 DEF JitterOver, EnqueueJob, ExitLoop, syncVars
<1>6. CASE \E w \in Worker : TakeJob(w) \/ ProcessResult(w) \/ Report(w) \/ ExitWorker(w)
  BY <1>6 DEF TakeJob, ProcessResult, Report, ExitWorker, syncVars
<1>7. QED
  BY <1>2, <1>3, <1>4, <1>5, <1>6 DEF Next

LEMMA SyncMoves ==
  ASSUME IInv
  PROVE  /\ FetchConfig => Fetched'
         /\ FetchFails => AtRest'
         /\ UpdateTargets => Updated'
         /\ Sync => AtRest'
         /\ StopSync => Returned'
  BY DEF IInv, TypeOK, SyncState, FetchConfig, FetchFails, UpdateTargets, Sync, StopSync,
         AtRest, Fetched, Updated, Returned

(* After the signal the sync loop returns, wherever it is: a sync that     *)
(* is under way is ended, and no other begins.                             *)
THEOREM MonitorSyncLoopReturns == FairSpec /\ []GuardsSuffice => SyncLoopReturns
<1>1. IInv => Boot \/ AtRest \/ Fetched \/ Updated \/ Returned
  BY SyncPlaces
<1>2. IInv /\ [Next]_vars => /\ Boot => Boot' \/ AtRest' \/ Fetched'
                             /\ AtRest => AtRest' \/ Fetched' \/ Returned'
                             /\ Fetched => Fetched' \/ Updated'
                             /\ Updated => Updated' \/ AtRest'
                             /\ done /\ Boot => ~Fetched'
                             /\ done /\ AtRest => ~Fetched'
  BY SyncWay
<1>3. IInv /\ <<FetchFails>>_vars => AtRest'
  BY SyncMoves
<1>4. IInv /\ <<UpdateTargets>>_vars => Updated'
  BY SyncMoves
<1>5. IInv /\ <<Sync>>_vars => AtRest'
  BY SyncMoves
<1>6. IInv /\ <<StopSync>>_vars => Returned'
  BY SyncMoves
<1>7. done /\ [Next]_vars => done'
  BY DoneStays
<1>8. /\ Boot => ~AtRest
      /\ AtRest => ~Fetched /\ ~Updated
      /\ Fetched => ~Updated
      /\ Boot <=> sync.at = "boot"
      /\ Fetched <=> sync.at = "fetched"
      /\ Updated <=> sync.at = "updated"
      /\ AtRest <=> sync.at = "waiting"
      /\ Returned <=> sync.at = "stopped"
  BY DEF Boot, AtRest, Fetched, Updated, Returned
<1>9. QED
  BY <1>1, <1>2, <1>3, <1>4, <1>5, <1>6, <1>7, <1>8, MonitorInvariant, PTL
     DEF FairSpec, Spec, Fairness, GuardsSuffice, SyncLoopReturns

(* While the Control Plane keeps the list and no signal comes. *)
LEMMA WantedStep ==
  ASSUME IInv, [Next]_vars, NEW list, Wanted(list), Wanted(list)'
  PROVE  /\ HoldsNoOther(list) => HoldsNoOther(list)'
         /\ HoldsNoOther(list) /\ Scheduled(list) => Scheduled(list)'
         /\ Boot' \/ AtRest' \/ (Fetched' /\ ~Fetched) => HoldsNoOther(list)'
<1> DEFINE Held == /\ HoldsNoOther(list) => HoldsNoOther(list)'
                   /\ Fetched' /\ ~Fetched => HoldsNoOther(list)'
<1> USE DEF Wanted, HoldsNoOther, Boot, AtRest, Fetched
<1>1. Boot' \/ AtRest' => HoldsNoOther(list)'
  OBVIOUS
<1>2. ASSUME FetchConfig \/ UpdateTargets \/ Sync \/ FetchFails \/ StopSync
      PROVE  Held
  <2>1. sync \in SyncState
    BY DEF IInv, TypeOK
  <2>2. QED
    BY <1>2, <2>1 DEF FetchConfig, UpdateTargets, Sync, FetchFails, StopSync, SyncState
<1>3. UNCHANGED sync => Held
  OBVIOUS
<1>4. ASSUME Edit \/ StartTicks \/ Shutdown \/ UNCHANGED vars
      PROVE  Held
  BY <1>3, <1>4 DEF Edit, StartTicks, Shutdown, vars, syncVars
<1>5. ASSUME \E l \in DOMAIN loops : JitterOver(l) \/ EnqueueJob(l) \/ ExitLoop(l)
      PROVE  Held
  BY <1>3, <1>5 DEF JitterOver, EnqueueJob, ExitLoop, syncVars
<1>6. ASSUME NEW w \in Worker,
             TakeJob(w) \/ ProcessResult(w) \/ Report(w) \/ ExitWorker(w)
      PROVE  Held
  BY <1>3, <1>6 DEF TakeJob, ProcessResult, Report, ExitWorker, syncVars
<1>7. Held
  BY <1>2, <1>4, <1>5, <1>6 DEF Next
<1>8. HoldsNoOther(list) /\ Scheduled(list) => Scheduled(list)'
  <2> SUFFICES ASSUME HoldsNoOther(list), activeTargets = Incoming(list)
               PROVE  activeTargets' = Incoming(list)
    BY DEF Scheduled, Incoming
  <2> QED
    BY HoldsStep
<1>9. QED
  BY <1>1, <1>7, <1>8

(* A sync that takes effect schedules the list it holds. *)
LEMMA SyncSchedules ==
  ASSUME IInv, Sync, NEW list, Wanted(list), HoldsNoOther(list), running
  PROVE  Scheduled(list)'
<1>1. sync.list = list /\ parents = list /\ sync.at = "updated"
  BY DEF Sync, HoldsNoOther, IInv, EngineHasList
<1>2. applied' /\ sync'.at # "updated" /\ parents' = list
  BY <1>1 DEF Sync, Wanted
<1>3. TopologyAgrees'
  BY NextIInv DEF Next, IInv
<1>4. Incoming(parents)' = activeTargets'
  BY <1>2, <1>3 DEF TopologyAgrees
<1>5. QED
  BY <1>2, <1>4 DEF Scheduled, Incoming

LEMMA RunningStays ==
  ASSUME [Next]_vars, running
  PROVE  running'
  BY DEF Next, vars, Edit, FetchConfig, FetchFails, UpdateTargets, Sync, StopSync, StartTicks,
         JitterOver, EnqueueJob, ExitLoop, TakeJob, ProcessResult, Report, ExitWorker, Shutdown,
         schedVars

LEMMA ReturnedIsDone == Spec => []ReturnedDone
<1>1. Init => ReturnedDone
  BY DEF Init, ReturnedDone, Returned
<1>2. IInv /\ ReturnedDone /\ [Next]_vars => ReturnedDone'
  BY SyncWay, DoneStays DEF ReturnedDone
<1>3. QED
  BY <1>1, <1>2, MonitorInvariant, PTL DEF Spec

(* Once the list stays, some sync that fetches it takes effect, and no     *)
(* later one changes the targets: whatever the sync under way held, and    *)
(* although the first sync may have come before StartTicks.                *)
LEMMA ListIsScheduled ==
  ASSUME NEW list \in Listable
  PROVE  FairSpec /\ []GuardsSuffice =>
           (<>[]Wanted(list) => <>[](Scheduled(list) /\ HoldsNoOther(list)))
<1>1. IInv => Boot \/ AtRest \/ Fetched \/ Updated \/ Returned
  BY SyncPlaces
<1>2. IInv /\ [Next]_vars => /\ Boot => Boot' \/ AtRest' \/ Fetched'
                             /\ AtRest => AtRest' \/ Fetched' \/ Returned'
                             /\ Fetched => Fetched' \/ Updated'
                             /\ Updated => Updated' \/ Sync
  BY SyncWay
<1>3. IInv /\ [Next]_vars /\ Wanted(list) /\ Wanted(list)' =>
        /\ HoldsNoOther(list) => HoldsNoOther(list)'
        /\ HoldsNoOther(list) /\ Scheduled(list) => Scheduled(list)'
        /\ Boot' \/ AtRest' \/ (Fetched' /\ ~Fetched) => HoldsNoOther(list)'
  BY WantedStep
<1>4. IInv /\ Sync /\ Wanted(list) /\ HoldsNoOther(list) /\ running
        => Scheduled(list)'
  BY SyncSchedules
<1>5. IInv /\ <<FetchConfig>>_vars => Fetched'
  BY SyncMoves
<1>6. IInv /\ <<UpdateTargets>>_vars => Updated'
  BY SyncMoves
<1>7. IInv /\ Sync => AtRest'
  BY SyncMoves
<1>8. <<StartTicks>>_vars => running'
  BY DEF StartTicks
<1>9. running /\ [Next]_vars => running'
  BY RunningStays
<1>10. /\ Wanted(list) => ~done
       /\ ReturnedDone /\ Returned => done
       /\ Boot => ~Fetched /\ ~Updated
       /\ AtRest => ~Fetched /\ ~Updated
       /\ Fetched => ~Updated
       /\ Boot \/ AtRest <=> sync.at \in {"boot", "waiting"}
       /\ Fetched <=> sync.at = "fetched"
       /\ Updated <=> sync.at = "updated"
  BY DEF Boot, AtRest, Fetched, Updated, Returned, ReturnedDone, Wanted
<1>11. QED
  BY <1>1, <1>2, <1>3, <1>4, <1>5, <1>6, <1>7, <1>8, <1>9, <1>10, MonitorInvariant,
     ReturnedIsDone, PTL
     DEF FairSpec, Spec, Fairness, GuardsSuffice

-----------------------------------------------------------------------------
(* The way of a loop. *)
Jittering(l) == LoopAt(l, "jitter")
First(l)     == LoopAt(l, "first")
Ticking(l)   == LoopAt(l, "ticking")

LEMMA LoopPlaces ==
  ASSUME IInv, NEW l, l \in DOMAIN loops
  PROVE  Jittering(l) \/ First(l) \/ Ticking(l)
  BY DEF IInv, TypeOK, LoopState, Jittering, First, Ticking, LoopAt

(* A sync keeps the loops that are there where they are, and takes no      *)
(* cancellation back.                                                      *)
LEMMA SyncKeepsLoops ==
  ASSUME IInv, Sync, NEW l \in DOMAIN loops
  PROVE  /\ l \in DOMAIN loops'
         /\ loops'[l].at = loops[l].at
         /\ loops[l].cancelled => loops'[l].cancelled
<1>1. CASE running /\ ~done
  <2> DEFINE incoming == Incoming(sync.list)
             stale    == Stale(incoming)
             kept     == Kept(stale)
             added    == DOMAIN incoming \ kept
             new      == {<<t, started[t] + 1>> : t \in added}
  <2>1. SyncConfiguration
    BY <1>1 DEF Sync
  <2>2. loops' = [x \in DOMAIN loops \cup new |->
                    IF x \in new
                    THEN [version |-> incoming[x[1]], at |-> "jitter", cancelled |-> FALSE]
                    ELSE [loops[x] EXCEPT !.cancelled = @ \/ x \in CancelledBy(stale)]]
    BY <2>1, Zenon DEF SyncConfiguration
  <2>3. l \notin new
    <3>1. l \in Target \X Nat /\ l[2] <= started[l[1]] /\ started \in [Target -> Nat]
      BY DEF IInv, TypeOK, Numbered
    <3>2. QED
      BY <3>1
  <2> HIDE DEF incoming, stale, kept, added, new
  <2>4. loops[l] \in LoopState
    BY DEF IInv, TypeOK
  <2>5. loops'[l] = [loops[l] EXCEPT !.cancelled = @ \/ l \in CancelledBy(stale)]
        /\ l \in DOMAIN loops'
    BY <2>2, <2>3
  <2>6. QED
    BY <2>4, <2>5 DEF LoopState
<1>2. CASE ~(running /\ ~done)
  BY <1>2 DEF Sync
<1>3. QED
  BY <1>1, <1>2

(* Where a loop may be after a step. *)
LEMMA LoopWay ==
  ASSUME IInv, [Next]_vars, NEW l, l \in DOMAIN loops
  PROVE  /\ Jittering(l) => Jittering(l)' \/ First(l)' \/ Gone(l)'
         /\ First(l) => First(l)' \/ Ticking(l)'
         /\ Ticking(l) => Ticking(l)' \/ Gone(l)'
         /\ loops[l].cancelled => Gone(l)' \/ loops'[l].cancelled
<1> USE DEF Jittering, First, Ticking, Gone, LoopAt
<1>1. CASE Sync
  BY <1>1, SyncKeepsLoops
<1>2. CASE UNCHANGED loops
  BY <1>2
<1>3. ASSUME NEW x \in DOMAIN loops, JitterOver(x) \/ EnqueueJob(x)
      PROVE  /\ Jittering(l) => Jittering(l)' \/ First(l)' \/ Gone(l)'
             /\ First(l) => First(l)' \/ Ticking(l)'
             /\ Ticking(l) => Ticking(l)' \/ Gone(l)'
             /\ loops[l].cancelled => Gone(l)' \/ loops'[l].cancelled
  <2>1. loops[x] \in LoopState /\ loops[l] \in LoopState
    BY <1>3 DEF IInv, TypeOK
  <2>2. QED
    BY <1>3, <2>1 DEF JitterOver, EnqueueJob, LoopState
<1>4. ASSUME NEW x \in DOMAIN loops, ExitLoop(x)
      PROVE  /\ Jittering(l) => Jittering(l)' \/ First(l)' \/ Gone(l)'
             /\ First(l) => First(l)' \/ Ticking(l)'
             /\ Ticking(l) => Ticking(l)' \/ Gone(l)'
             /\ loops[l].cancelled => Gone(l)' \/ loops'[l].cancelled
  BY <1>4 DEF ExitLoop
<1>5. CASE \E w \in Worker : TakeJob(w) \/ ProcessResult(w) \/ Report(w) \/ ExitWorker(w)
  BY <1>2, <1>5 DEF TakeJob, ProcessResult, Report, ExitWorker
<1>6. CASE \/ Edit \/ FetchConfig \/ FetchFails \/ UpdateTargets \/ StopSync
           \/ StartTicks \/ Shutdown \/ UNCHANGED vars
  BY <1>2, <1>6 DEF Edit, FetchConfig, FetchFails, UpdateTargets, StopSync, StartTicks,
                    Shutdown, vars
<1>7. QED
  BY <1>1, <1>3, <1>4, <1>5, <1>6 DEF Next

LEMMA EndingStep ==
  ASSUME IInv, [Next]_vars, NEW l, Ending(l)
  PROVE  /\ Ending(l)' \/ Gone(l)'
         /\ Jittering(l) => Jittering(l)' \/ First(l)' \/ Gone(l)'
         /\ First(l) => First(l)' \/ Ticking(l)'
         /\ Ticking(l) => Ticking(l)' \/ Gone(l)'
  BY LoopWay, DoneStays DEF Ending, Cancelled, Gone

LEMMA LoopMoves ==
  ASSUME IInv, NEW l
  PROVE  /\ JitterEnds(l) => First(l)'
         /\ Ticks(l) => Ticking(l)'
         /\ Exits(l) => Gone(l)'
<1>1. CASE l \in DOMAIN loops
  <2>1. loops[l] \in LoopState
    BY <1>1 DEF IInv, TypeOK
  <2>2. QED
    BY <1>1, <2>1 DEF JitterEnds, Ticks, Exits, JitterOver, EnqueueJob, ExitLoop, LoopState,
                      First, Ticking, Gone, LoopAt
<1>2. CASE l \notin DOMAIN loops
  BY <1>2 DEF JitterEnds, Ticks, Exits
<1>3. QED
  BY <1>1, <1>2

LEMMA LoopComesToEnd ==
  ASSUME NEW l \in LoopIds
  PROVE  FairSpec /\ []GuardsSuffice => LoopEnds(l)
<1>1. IInv /\ Ending(l) => Jittering(l) \/ First(l) \/ Ticking(l)
  BY LoopPlaces DEF Ending
<1>2. IInv /\ [Next]_vars /\ Ending(l) =>
        /\ Ending(l)' \/ Gone(l)'
        /\ Jittering(l) => Jittering(l)' \/ First(l)' \/ Gone(l)'
        /\ First(l) => First(l)' \/ Ticking(l)'
        /\ Ticking(l) => Ticking(l)' \/ Gone(l)'
  BY EndingStep
<1>3. IInv /\ <<JitterEnds(l)>>_vars => First(l)'
  BY LoopMoves
<1>4. IInv /\ <<Ticks(l)>>_vars => Ticking(l)'
  BY LoopMoves
<1>5. IInv /\ <<Exits(l)>>_vars => Gone(l)'
  BY LoopMoves
<1>6. /\ Jittering(l) => ~First(l) /\ ~Ticking(l) /\ ~Gone(l)
      /\ First(l) => ~Ticking(l) /\ ~Gone(l)
      /\ Ticking(l) => ~Gone(l)
      /\ Ending(l) => ~Gone(l)
  BY DEF Jittering, First, Ticking, Gone, LoopAt, Ending
<1>7. LoopsGuarded =>
        /\ Jittering(l) => ENABLED <<JitterEnds(l)>>_vars
        /\ First(l) => ENABLED <<Ticks(l)>>_vars
        /\ Ticking(l) /\ Ending(l) => ENABLED <<Exits(l)>>_vars
  <2>1. LoopsGuarded => LoopGuards(l)
    BY DEF LoopsGuarded
  <2>2. QED
    BY <2>1 DEF LoopGuards, Jittering, First, Ticking, Ending
<1>8. LoopsFair => LoopFair(l)
  BY DEF LoopsFair
<1>9. QED
  BY <1>1, <1>2, <1>3, <1>4, <1>5, <1>6, <1>7, <1>8, MonitorInvariant, PTL
     DEF FairSpec, Spec, Fairness, GuardsSuffice, LoopFair, LoopEnds

(* LoopIds has a name for every loop there is. *)
NamesSuffice == /\ \A t \in Target : started[t] <= MaxLoops
                /\ DOMAIN loops \subseteq LoopIds

LEMMA SyncNames ==
  ASSUME IInv, NamesSuffice, Sync
  PROVE  NamesSuffice'
<1>1. CASE running /\ ~done
  <2> DEFINE incoming == Incoming(sync.list)
             stale    == Stale(incoming)
             kept     == Kept(stale)
             added    == DOMAIN incoming \ kept
             new      == {<<t, started[t] + 1>> : t \in added}
  <2>1. SyncConfiguration
    BY <1>1 DEF Sync
  <2>2. /\ \A t \in added : started[t] < MaxLoops
        /\ started' = [t \in Target |-> IF t \in added THEN started[t] + 1 ELSE started[t]]
        /\ DOMAIN loops' = DOMAIN loops \cup new
    BY <2>1, Zenon DEF SyncConfiguration
  <2>3. added \subseteq Target
    BY SyncListTyped, IncomingTyped, ListTyped, <1>1 DEF Sync, IInv
  <2> HIDE DEF incoming, stale, kept, added
  <2>4. started \in [Target -> Nat] /\ MaxLoops \in Nat
    BY MonitorAssumption DEF IInv, TypeOK
  <2>5. \A t \in Target : started'[t] <= MaxLoops
    BY <2>2, <2>4 DEF NamesSuffice
  <2>6. new \subseteq LoopIds
    BY <2>2, <2>3, <2>4 DEF LoopIds
  <2>7. QED
    BY <2>2, <2>5, <2>6 DEF NamesSuffice, LoopIds
<1>2. CASE ~(running /\ ~done)
  BY <1>2 DEF Sync, NamesSuffice, LoopIds
<1>3. QED
  BY <1>1, <1>2

LEMMA NextNames ==
  ASSUME IInv, NamesSuffice, [Next]_vars
  PROVE  NamesSuffice'
<1>1. UNCHANGED started /\ DOMAIN loops' \subseteq DOMAIN loops => NamesSuffice'
  BY DEF NamesSuffice, LoopIds
<1>2. CASE Sync
  BY <1>2, SyncNames
<1>3. CASE \E l \in DOMAIN loops : JitterOver(l) \/ EnqueueJob(l) \/ ExitLoop(l)
  <2>1. UNCHANGED started /\ DOMAIN loops' \subseteq DOMAIN loops
    BY <1>3 DEF JitterOver, EnqueueJob, ExitLoop, schedVars
  <2>2. QED
    BY <1>1, <2>1
<1>4. CASE \E w \in Worker : TakeJob(w) \/ ProcessResult(w) \/ Report(w) \/ ExitWorker(w)
  BY <1>1, <1>4 DEF TakeJob, ProcessResult, Report, ExitWorker, schedVars
<1>5. CASE \/ Edit \/ FetchConfig \/ FetchFails \/ UpdateTargets \/ StopSync
           \/ StartTicks \/ Shutdown \/ UNCHANGED vars
  BY <1>1, <1>5 DEF Edit, FetchConfig, FetchFails, UpdateTargets, StopSync, StartTicks,
                    Shutdown, vars, schedVars
<1>6. QED
  BY <1>2, <1>3, <1>4, <1>5 DEF Next

(* The theorems about loops range over LoopIds, and with it over all loops. *)
LEMMA LoopsHaveNames == Spec => []NamesSuffice
<1>1. Init => NamesSuffice
  BY MonitorAssumption DEF Init, NamesSuffice
<1>2. IInv /\ NamesSuffice /\ [Next]_vars => NamesSuffice'
  BY NextNames
<1>3. QED
  BY <1>1, <1>2, MonitorInvariant, PTL DEF Spec

(* A loop that a sync cancelled ends, and every loop after the signal, in  *)
(* its jitter, before its first job or between two ticks: no goroutine of  *)
(* the scheduler is left behind, for any number of targets and syncs.      *)
THEOREM MonitorLoopsEnd == FairSpec /\ []GuardsSuffice => CancelledLoopsEnd
  BY LoopComesToEnd DEF CancelledLoopsEnd

(* When the list is scheduled and no other is on its way, a loop that is   *)
(* not of it is cancelled, and none comes back.                            *)
LEMMA NotCurrentEnds ==
  ASSUME IInv, NEW l
  PROVE  ~LoopCurrent(l) => Ending(l)
<1> SUFFICES ASSUME l \in DOMAIN loops, ~loops[l].cancelled
             PROVE  l[1] \in DOMAIN activeTargets /\ loops[l].version = activeTargets[l[1]]
  BY DEF LoopCurrent, Ending, Cancelled
<1>1. l[1] \in DOMAIN activeTargets /\ cancelFuncs[l[1]] = l[2]
  BY DEF IInv, OneLoopPerTarget
<1>2. l = <<l[1], cancelFuncs[l[1]]>>
  BY <1>1 DEF IInv, TypeOK
<1>3. QED
  BY <1>1, <1>2 DEF IInv, OneLoopPerTarget

LEMMA CurrentStays ==
  ASSUME IInv, [Next]_vars, NEW list, Wanted(list), Wanted(list)', HoldsNoOther(list),
         Scheduled(list), NEW l, LoopCurrent(l)
  PROVE  LoopCurrent(l)'
<1>1. activeTargets' = activeTargets
  BY HoldsStep DEF Wanted, Scheduled
<1>2. ASSUME l \in DOMAIN loops' => l \in DOMAIN loops /\ loops'[l].version = loops[l].version
      PROVE  LoopCurrent(l)'
  BY <1>1, <1>2 DEF LoopCurrent
<1>3. CASE Sync
  <2>1. activeTargets = Incoming(sync.list)
    BY <1>3 DEF Sync, HoldsNoOther, Scheduled
  <2>2. QED
    BY <1>2, <1>3, <2>1, SyncSame
<1>4. ASSUME NEW x \in DOMAIN loops, JitterOver(x) \/ EnqueueJob(x)
      PROVE  LoopCurrent(l)'
  <2>1. loops[x] \in LoopState
    BY <1>4 DEF IInv, TypeOK
  <2>2. l \in DOMAIN loops' => l \in DOMAIN loops /\ loops'[l].version = loops[l].version
    BY <1>4, <2>1 DEF JitterOver, EnqueueJob, LoopState
  <2>3. QED
    BY <1>2, <2>2
<1>5. ASSUME NEW x \in DOMAIN loops, ExitLoop(x)
      PROVE  LoopCurrent(l)'
  BY <1>2, <1>5 DEF ExitLoop
<1>6. CASE UNCHANGED loops
  BY <1>2, <1>6
<1>7. CASE \E w \in Worker : TakeJob(w) \/ ProcessResult(w) \/ Report(w) \/ ExitWorker(w)
  BY <1>6, <1>7 DEF TakeJob, ProcessResult, Report, ExitWorker
<1>8. CASE \/ Edit \/ FetchConfig \/ FetchFails \/ UpdateTargets \/ StopSync
           \/ StartTicks \/ Shutdown \/ UNCHANGED vars
  BY <1>6, <1>8 DEF Edit, FetchConfig, FetchFails, UpdateTargets, StopSync, StartTicks,
                    Shutdown, vars
<1>9. QED
  BY <1>3, <1>4, <1>5, <1>7, <1>8 DEF Next

LEMMA OtherLoopsDrop ==
  ASSUME NEW list \in Listable, NEW l \in LoopIds
  PROVE  FairSpec /\ []GuardsSuffice => Drops(list, l)
<1>1. IInv /\ [Next]_vars /\ Wanted(list) /\ Wanted(list)' /\ HoldsNoOther(list)
        /\ Scheduled(list) /\ LoopCurrent(l) => LoopCurrent(l)'
  BY CurrentStays
<1>2. IInv /\ ~LoopCurrent(l) => Ending(l)
  BY NotCurrentEnds
<1>3. Gone(l) => LoopCurrent(l)
  BY DEF Gone, LoopCurrent
<1>4. QED
  BY <1>1, <1>2, <1>3, ListIsScheduled, LoopComesToEnd, MonitorInvariant, PTL
     DEF FairSpec, Spec, LoopEnds, Drops

(* Once the Control Plane keeps its list, exactly its targets come to be   *)
(* scheduled and stay so, and every loop of another configuration ends,    *)
(* for any number of targets, edits and syncs, failed ones included.       *)
(* GuardsSuffice stands for what the prover cannot expand, and for         *)
(* MaxLoops, which the program does not have.                              *)
THEOREM MonitorScheduleConverges == FairSpec /\ []GuardsSuffice => ScheduleConverges
<1>1. ASSUME NEW list \in Listable
      PROVE  FairSpec /\ []GuardsSuffice => Schedules(list)
  BY ListIsScheduled, PTL DEF Schedules
<1>2. ASSUME NEW list \in Listable, NEW l \in LoopIds
      PROVE  FairSpec /\ []GuardsSuffice => Drops(list, l)
  BY OtherLoopsDrop
<1>3. QED
  BY <1>1, <1>2 DEF ScheduleConverges

-----------------------------------------------------------------------------
AnswersTyped ==
  /\ told \in [Target -> LastWords]
  /\ answer \in [Worker -> {"none", "up", "down"}]
  /\ \A w \in Worker : answer[w] # "none" => worker[w].at = "checking"

BInv == RInv /\ AnswersTyped

(* The entry of a target, as far as its alarm goes. *)
LEMMA EntryAlarm ==
  ASSUME EntriesSound, NEW w \in Worker, NEW t \in Target
  PROVE  /\ Engine(w)!StateOf(t) \in Listed!TargetState
         /\ Engine(w)!StateOf(t).isAlarmed <=> Alarmed(t)
<1>1. CASE t \in DOMAIN states
  BY <1>1, EntrySound, Zenon DEF Engine!StateOf, Alarmed, Listed!Alarmed
<1>2. CASE t \notin DOMAIN states
  <2>1. ~Engine(w)!StateOf(t).isAlarmed
    BY <1>2 DEF Engine!StateOf, Engine!Fresh
  <2>2. QED
    BY <1>2, <2>1, EntrySound, Zenon DEF Alarmed, Listed!Alarmed
<1>3. QED
  BY <1>1, <1>2

(* A failure ends no alarm, and says nothing but of an alarm. *)
LEMMA FailureKeepsAlarm ==
  ASSUME BInv, NEW w \in Worker, NEW t \in Target, NEW v \in Version,
         worker[w].job.version = v, Engine(w)!HandleCritical(t, 1)
  PROVE  \E r \in Listed!TargetState :
           /\ states' = Engine(w)!WithState(t, r)
           /\ Alarmed(t) => r.isAlarmed
           /\ \/ told' = told
              \/ r.isAlarmed /\ \E word \in {"critical", "reminder"} : Engine(w)!Notify(t, word)
<1> DEFINE s == Engine(w)!StateOf(t)
           counted == Engine(w)!CountFailure(s, 1)
           raised == Engine(w)!Raises(counted, Rule[v], 1)
           judged == Engine(w)!Judge(counted, Rule[v], 1)
           due == Engine(w)!ReminderDue(judged, Rule[v], 1)
           reminded == [judged EXCEPT !.lastReminderTime = 1]
<1>1. /\ states' = Engine(w)!WithState(t, judged) \/ states' = Engine(w)!WithState(t, reminded)
      /\ \/ raised /\ Engine(w)!Notify(t, "critical")
         \/ due /\ Engine(w)!Notify(t, "reminder")
         \/ told' = told
  BY Zenon DEF Engine!HandleCritical
<1>2. s \in Listed!TargetState /\ (s.isAlarmed <=> Alarmed(t))
  BY EntryAlarm DEF BInv, RInv
<1>3. counted \in Listed!TargetState
  BY <1>2, CountedSound, Zenon
<1>4. counted.isAlarmed = s.isAlarmed
  BY <1>2 DEF Engine!CountFailure, Listed!TargetState
<1>5. /\ judged \in {counted, [counted EXCEPT !.isAlarmed = TRUE, !.lastReminderTime = 1]}
      /\ raised => judged = [counted EXCEPT !.isAlarmed = TRUE, !.lastReminderTime = 1]
  <2>1. ~Engine(w)!WindowExpired(counted, Rule[v], 1)
    BY AgentAssumption, Zenon DEF Engine!WindowExpired
  <2> HIDE DEF counted
  <2>2. QED
    BY <2>1, Zenon DEF Engine!Judge
<1>6. due => judged.isAlarmed
  BY DEF Engine!ReminderDue
<1> HIDE DEF s, counted, raised, judged, due
<1>7. /\ judged \in Listed!TargetState
      /\ raised => judged.isAlarmed
      /\ Alarmed(t) => judged.isAlarmed
  <2> DEFINE up1 == [counted EXCEPT !.isAlarmed = TRUE, !.lastReminderTime = 1]
  <2>1. up1 \in Listed!TargetState /\ up1.isAlarmed
    BY <1>3 DEF Listed!TargetState
  <2>2. judged \in {counted, up1} /\ (raised => judged = up1)
    BY <1>5
  <2> HIDE DEF up1
  <2>3. Alarmed(t) => counted.isAlarmed
    BY <1>2, <1>4
  <2>4. QED
    BY <1>3, <2>1, <2>2, <2>3
<1>8. reminded \in Listed!TargetState /\ reminded.isAlarmed = judged.isAlarmed
  BY <1>7 DEF Listed!TargetState
<1> HIDE DEF reminded
<1>9. QED
  BY <1>1, <1>6, <1>7, <1>8, Zenon

(* An answer raises no alarm, and when it ends one it says so. *)
LEMMA AnswerEndsAlarm ==
  ASSUME BInv, NEW w \in Worker, NEW t \in Target, NEW slow,
         Engine(w)!HandleSuccessOrWarning(t, slow)
  PROVE  \E r \in Listed!TargetState :
           /\ states' = Engine(w)!WithState(t, r)
           /\ r.isAlarmed => Alarmed(t)
           /\ \/ told' = told /\ (Alarmed(t) => r.isAlarmed)
              \/ Engine(w)!Notify(t, "recovery")
<1> DEFINE e == Engine(w)!StateOf(t)
           s == [e EXCEPT !.currentStreak = 0]
           none == [s EXCEPT !.consecutiveSuccess = 0]
           more == [s EXCEPT !.consecutiveSuccess = s.consecutiveSuccess + 1]
           fine == Engine(w)!Recovered(s)
<1>1. e \in Listed!TargetState /\ (e.isAlarmed <=> Alarmed(t))
  BY EntryAlarm DEF BInv, RInv
<1>2. \/ states' = Engine(w)!WithState(t, none) /\ told' = told
      \/ states' = Engine(w)!WithState(t, s) /\ told' = told
      \/ states' = Engine(w)!WithState(t, more) /\ told' = told
      \/ states' = Engine(w)!WithState(t, fine) /\ Engine(w)!Notify(t, "recovery")
  BY Zenon DEF Engine!HandleSuccessOrWarning
<1> HIDE DEF e
<1>3. s \in Listed!TargetState /\ s.isAlarmed = e.isAlarmed
  BY <1>1 DEF Listed!TargetState
<1> HIDE DEF s
<1>4. /\ none \in Listed!TargetState /\ none.isAlarmed = e.isAlarmed
      /\ more \in Listed!TargetState /\ more.isAlarmed = e.isAlarmed
  BY <1>3 DEF Listed!TargetState
<1>5. fine \in Listed!TargetState
  BY <1>3, RecoveredSound
<1>6. ~fine.isAlarmed
  BY <1>3 DEF Engine!Recovered, Listed!TargetState
<1> HIDE DEF none, more, fine
<1>7. QED
  BY <1>1, <1>2, <1>3, <1>4, <1>5, <1>6, Zenon

(* What a result does to the alarm and the last word of its target. *)
LEMMA JudgeEffect ==
  ASSUME BInv, NEW w \in Worker, Judge(w)
  PROVE  \E t \in Target :
           /\ worker[w].job.target = t /\ DOMAIN states' = DOMAIN states \cup {t}
           /\ \A x \in Target \ {t} : (Alarmed(x)' <=> Alarmed(x)) /\ told'[x] = told[x]
           /\ told' \in [Target -> LastWords]
           /\ \/ /\ answer[w] = "down" \/ ~QuickAnswers
                 /\ Alarmed(t) => Alarmed(t)'
                 /\ told'[t] = told[t] \/ (told'[t] \in {"critical", "reminder"} /\ Alarmed(t)')
              \/ /\ answer[w] = "up"
                 /\ Alarmed(t)' => Alarmed(t)
                 /\ \/ told'[t] = told[t] /\ (Alarmed(t) => Alarmed(t)')
                    \/ Listed!Recipients(Rule[worker[w].job.version]) = {} /\ told'[t] = told[t]
                    \/ told'[t] = "recovery"
<1>1. worker[w].at = "checking" /\ answer[w] # "none"
  BY DEF Judge, ProcessResult
<1>2. worker[w].job.target \in Target /\ worker[w].job.version \in Version
  BY <1>1 DEF BInv, RInv, IInv, TypeOK, WorkerState, Job
<1>3. PICK t \in Target, v \in Version : worker[w].job.target = t /\ worker[w].job.version = v
  BY <1>2
<1>4. PICK p \in Engine(w)!Probe : /\ p.isDown <=> answer[w] = "down"
                                  /\ Engine(w)!ProcessResult(t, p, 1)
  BY <1>3, Zenon DEF Judge
<1>5. answer[w] \in {"up", "down"} /\ told \in [Target -> LastWords]
  BY <1>1 DEF BInv, AnswersTyped
<1>6. ASSUME NEW r \in Listed!TargetState, states' = Engine(w)!WithState(t, r)
      PROVE  /\ \A x \in Target \ {t} : Alarmed(x)' <=> Alarmed(x)
             /\ Alarmed(t)' <=> r.isAlarmed
             /\ DOMAIN states' = DOMAIN states \cup {t}
  <2>1. /\ DOMAIN states' = DOMAIN states \cup {t} /\ states'[t] = r
        /\ \A x \in DOMAIN states \ {t} : states'[x] = states[x]
    BY <1>6 DEF Engine!WithState
  <2>2. QED
    BY <2>1 DEF Alarmed, Listed!Alarmed
<1>7. ASSUME NEW word \in LastWords, Engine(w)!Notify(t, word)
      PROVE  /\ told' \in [Target -> LastWords]
             /\ \A x \in Target \ {t} : told'[x] = told[x]
             /\ \/ told'[t] = word
                \/ Listed!Recipients(Rule[v]) = {} /\ told'[t] = told[t]
  <2>1. told' = IF Listed!Recipients(Rule[v]) = {} THEN told ELSE [told EXCEPT ![t] = word]
    BY <1>3, <1>7 DEF Engine!Notify, Engine!Recipients, Listed!Recipients
  <2>2. QED
    BY <1>5, <2>1
<1>8. LastWords = {"nothing", "critical", "reminder", "recovery"}
  BY DEF LastWords
<1>9. CASE Engine(w)!IsCritical(Rule[v], p)
  <2>1. Engine(w)!HandleCritical(t, 1)
    BY <1>3, <1>4, <1>9, Zenon DEF Engine!ProcessResult
  <2>2. PICK r \in Listed!TargetState :
          /\ states' = Engine(w)!WithState(t, r)
          /\ Alarmed(t) => r.isAlarmed
          /\ \/ told' = told
             \/ r.isAlarmed /\ \E word \in {"critical", "reminder"} : Engine(w)!Notify(t, word)
    BY <1>3, <2>1, FailureKeepsAlarm
  <2>3. answer[w] = "down" \/ ~QuickAnswers
    <3>1. p.isDown \in BOOLEAN /\ (~p.isDown => p.latency \in Latency)
      BY DEF Engine!Probe
    <3>2. p.isDown \/ p.latency > Rule[v].maxLatency
      BY <1>9 DEF Engine!IsCritical
    <3>3. QED
      BY <1>4, <3>1, <3>2 DEF QuickAnswers
  <2>4. /\ \A x \in Target \ {t} : Alarmed(x)' <=> Alarmed(x)
        /\ Alarmed(t)' <=> r.isAlarmed
        /\ DOMAIN states' = DOMAIN states \cup {t}
    BY <1>6, <2>2
  <2>5. /\ told' \in [Target -> LastWords]
        /\ \A x \in Target \ {t} : told'[x] = told[x]
        /\ told'[t] = told[t] \/ (told'[t] \in {"critical", "reminder"} /\ Alarmed(t)')
    <3>1. told' = told => /\ told' \in [Target -> LastWords]
                          /\ \A x \in Target \ {t} : told'[x] = told[x]
                          /\ told'[t] = told[t]
      BY <1>5
    <3>2. ASSUME NEW word \in {"critical", "reminder"}, Engine(w)!Notify(t, word), r.isAlarmed
          PROVE  /\ told' \in [Target -> LastWords]
                 /\ \A x \in Target \ {t} : told'[x] = told[x]
                 /\ \/ told'[t] = told[t]
                    \/ told'[t] \in {"critical", "reminder"} /\ Alarmed(t)'
      <4>1. word \in LastWords
        BY <1>8
      <4>2. QED
        BY <1>7, <2>4, <3>2, <4>1
    <3>3. QED
      BY <2>2, <3>1, <3>2, Zenon
  <2>6. QED
    BY <1>3, <2>2, <2>3, <2>4, <2>5
<1>10. CASE ~Engine(w)!IsCritical(Rule[v], p)
  <2>1. PICK slow : Engine(w)!HandleSuccessOrWarning(t, slow)
    BY <1>3, <1>4, <1>10, Zenon DEF Engine!ProcessResult
  <2>2. PICK r \in Listed!TargetState :
          /\ states' = Engine(w)!WithState(t, r)
          /\ r.isAlarmed => Alarmed(t)
          /\ \/ told' = told /\ (Alarmed(t) => r.isAlarmed)
             \/ Engine(w)!Notify(t, "recovery")
    BY <2>1, AnswerEndsAlarm
  <2>3. answer[w] = "up"
    BY <1>4, <1>5, <1>10 DEF Engine!IsCritical
  <2>4. /\ \A x \in Target \ {t} : Alarmed(x)' <=> Alarmed(x)
        /\ Alarmed(t)' <=> r.isAlarmed
        /\ DOMAIN states' = DOMAIN states \cup {t}
    BY <1>6, <2>2
  <2>5. /\ told' \in [Target -> LastWords]
        /\ \A x \in Target \ {t} : told'[x] = told[x]
        /\ \/ told'[t] = told[t] /\ (Alarmed(t) => Alarmed(t)')
           \/ Listed!Recipients(Rule[v]) = {} /\ told'[t] = told[t]
           \/ told'[t] = "recovery"
    BY <1>5, <1>7, <1>8, <2>2, <2>4
  <2>6. QED
    BY <1>3, <2>2, <2>3, <2>4, <2>5
<1>11. QED
  BY <1>9, <1>10

(* The steps of the agent, as far as alarms and answers go. *)
LEMMA AgentSteps ==
  ASSUME BInv, [ANext]_agentVars
  PROVE  \/ \E w \in Worker : Judge(w) \/ CheckEnds(w)
         \/ SyncAndReset
         \/ \E t \in Target : Flip(t)
         \/ UNCHANGED <<states, told, answer, up>> /\ ChecksGoOn
<1>1. CASE SyncStep
  <2>1. CASE Alone(FetchConfig) \/ Alone(FetchFails) \/ Alone(UpdateTargets) \/ Alone(StopSync)
    BY <2>1 DEF Alone, FetchConfig, FetchFails, UpdateTargets, StopSync, engineVars,
                worldVars, ChecksGoOn
  <2>2. QED
    BY <1>1, <2>1 DEF SyncStep
<1>2. CASE Alone(Edit) \/ Alone(StartTicks) \/ Alone(Shutdown)
  BY <1>2 DEF Alone, Edit, StartTicks, Shutdown, engineVars, worldVars, ChecksGoOn
<1>3. CASE \E l \in DOMAIN loops : LoopStep(l) \/ LoopExit(l)
  BY <1>3 DEF LoopStep, LoopExit, Alone, JitterOver, EnqueueJob, ExitLoop, engineVars,
              worldVars, ChecksGoOn
<1>4. ASSUME NEW w \in Worker, Alone(TakeJob(w)) \/ Alone(Report(w)) \/ Alone(ExitWorker(w))
      PROVE  UNCHANGED <<states, told, answer, up>> /\ ChecksGoOn
  <2>1. /\ UNCHANGED <<states, told, answer, up>>
        /\ worker[w].at # "checking" /\ \A x \in Worker \ {w} : worker'[x] = worker[x]
    BY <1>4 DEF Alone, TakeJob, Report, ExitWorker, BInv, RInv, IInv, TypeOK, engineVars,
                worldVars
  <2>2. QED
    BY <2>1 DEF ChecksGoOn
<1>5. CASE UNCHANGED agentVars
  BY <1>5 DEF agentVars, vars, engineVars, worldVars, ChecksGoOn
<1>6. QED
  BY <1>1, <1>2, <1>3, <1>4, <1>5 DEF ANext, WorkerStep

LEMMA JudgeAnswers ==
  ASSUME BInv, NEW w \in Worker, Judge(w)
  PROVE  /\ answer' = [answer EXCEPT ![w] = "none"]
         /\ \A x \in Worker \ {w} : answer'[x] = answer[x] /\ worker'[x] = worker[x]
         /\ answer'[w] = "none" /\ UNCHANGED up
  BY DEF Judge, ProcessResult, BInv, RInv, IInv, TypeOK, AnswersTyped, worldVars

LEMMA CheckAnswers ==
  ASSUME BInv, NEW w \in Worker, CheckEnds(w)
  PROVE  /\ \E found \in {"up", "down"} :
              /\ answer' = [answer EXCEPT ![w] = found] /\ answer'[w] = found
              /\ found = "up" => worker[w].job.target \in up
              /\ found = "down" => worker[w].job.target \notin up \/ done
         /\ \A x \in Worker \ {w} : answer'[x] = answer[x]
         /\ worker[w].at = "checking" /\ UNCHANGED <<worker, states, told, up>>
  BY DEF CheckEnds, Aborted, BInv, AnswersTyped, vars, worldVars

LEMMA AnswersStep ==
  ASSUME BInv, [ANext]_agentVars
  PROVE  AnswersTyped'
<1>1. AnswersTyped
  BY DEF BInv
<1>2. ASSUME NEW w \in Worker, Judge(w)
      PROVE  AnswersTyped'
  <2>1. told' \in [Target -> LastWords]
    BY <1>2, JudgeEffect
  <2>2. QED
    BY <1>1, <1>2, <2>1, JudgeAnswers DEF AnswersTyped
<1>3. ASSUME NEW w \in Worker, CheckEnds(w)
      PROVE  AnswersTyped'
  BY <1>1, <1>3, CheckAnswers DEF AnswersTyped
<1>4. CASE SyncAndReset
  <2>1. UNCHANGED <<answer, worker>>
    BY <1>4 DEF SyncAndReset, Sync
  <2>2. PICK reset : told' = [t \in Target |-> IF t \in reset THEN "nothing" ELSE told[t]]
    BY <1>4 DEF SyncAndReset
  <2>3. told' \in [Target -> LastWords]
    BY <1>1, <2>2 DEF AnswersTyped, LastWords
  <2>4. QED
    BY <1>1, <2>1, <2>3 DEF AnswersTyped
<1>5. CASE \E t \in Target : Flip(t)
  BY <1>1, <1>5 DEF Flip, AnswersTyped, engineVars, vars
<1>6. CASE UNCHANGED <<states, told, answer, up>> /\ ChecksGoOn
  BY <1>1, <1>6 DEF AnswersTyped, ChecksGoOn
<1>7. QED
  BY <1>2, <1>3, <1>4, <1>5, <1>6, AgentSteps

LEMMA AgentBInv == ASpec => []BInv
<1>1. AInit => BInv
  <2> SUFFICES ASSUME AInit PROVE BInv
    OBVIOUS
  <2>1. IInv /\ DOMAIN states = {}
    BY InitIInv DEF AInit
  <2>2. AnswersTyped
    BY DEF AInit, AnswersTyped, LastWords
  <2>3. QED
    BY <2>1, <2>2 DEF BInv, RInv, EntriesSound
<1>2. BInv /\ [ANext]_agentVars => BInv'
  BY NextSound, AnswersStep DEF BInv
<1>3. QED
  BY <1>1, <1>2, PTL DEF ASpec

(* No answer of the other kind comes up while the target stays as it is. *)
LEMMA NoneUnderWay ==
  ASSUME BInv, [ANext]_agentVars, NEW t \in Target, NEW found \in {"up", "down"},
         \A w \in Worker : answer[w] = found => worker[w].job.target # t,
         found = "up" => t \notin up,
         found = "down" => t \in up /\ ~done
  PROVE  \A w \in Worker : answer'[w] = found => worker'[w].job.target # t
<1>1. \A w \in Worker : answer[w] # "none" => worker[w].at = "checking"
  BY DEF BInv, AnswersTyped
<1>2. ASSUME NEW w \in Worker, Judge(w)
      PROVE  \A x \in Worker : answer'[x] = found => worker'[x].job.target # t
  BY <1>2, JudgeAnswers
<1>3. ASSUME NEW w \in Worker, CheckEnds(w)
      PROVE  \A x \in Worker : answer'[x] = found => worker'[x].job.target # t
  BY <1>3, CheckAnswers
<1>4. CASE SyncAndReset
  BY <1>4 DEF SyncAndReset, Sync
<1>5. CASE \E x \in Target : Flip(x)
  BY <1>5 DEF Flip, engineVars, vars
<1>6. CASE UNCHANGED <<states, told, answer, up>> /\ ChecksGoOn
  BY <1>1, <1>6 DEF ChecksGoOn
<1>7. QED
  BY <1>2, <1>3, <1>4, <1>5, <1>6, AgentSteps

(* A reset silences and forgets; other targets keep alarm and word. *)
LEMMA SyncEffect ==
  ASSUME BInv, SyncAndReset, NEW t \in Target
  PROVE  \/ (Alarmed(t)' <=> Alarmed(t)) /\ told'[t] = told[t]
            /\ (t \in DOMAIN states => t \in DOMAIN states')
         \/ /\ t \in Stale(Incoming(sync.list)) /\ sync.at = "updated"
            /\ ~Alarmed(t)' /\ told'[t] = "nothing"
<1>1. PICK reset :
        /\ reset = IF running /\ ~done THEN Stale(Incoming(sync.list)) ELSE {}
        /\ states' = [x \in DOMAIN states \ reset |-> states[x]]
        /\ told' = [x \in Target |-> IF x \in reset THEN "nothing" ELSE told[x]]
  BY Zenon DEF SyncAndReset, ResetBySync
<1>2. sync.at = "updated"
  BY DEF SyncAndReset, Sync
<1>3. CASE t \in reset
  BY <1>1, <1>2, <1>3 DEF Alarmed, Listed!Alarmed
<1>4. CASE t \notin reset
  BY <1>1, <1>4 DEF Alarmed, Listed!Alarmed
<1>5. QED
  BY <1>3, <1>4

LEMMA QuietSteps ==
  ASSUME \/ \E x \in Target : Flip(x)
         \/ \E w \in Worker : CheckEnds(w)
         \/ UNCHANGED <<states, told, answer, up>> /\ ChecksGoOn
  PROVE  UNCHANGED <<states, told>>
  BY DEF Flip, CheckEnds, engineVars

-----------------------------------------------------------------------------
LEMMA OutageStays ==
  ASSUME BInv, [ANext]_agentVars, NEW t \in Target, NEW list,
         OutageKnown(t, list), cp' = list, t \notin up'
  PROVE  OutageKnown(t, list)'
<1>1. /\ HoldsNoOther(list) /\ activeTargets = Incoming(list) /\ t \notin up
      /\ \A w \in Worker : answer[w] = "up" => worker[w].job.target # t
      /\ Alarmed(t) /\ told[t] \in {"critical", "reminder"}
  BY DEF OutageKnown
<1>2. HoldsNoOther(list)' /\ activeTargets' = activeTargets
  BY <1>1, AgentNextIsNext, HoldsStep DEF BInv, RInv
<1>3. \A w \in Worker : answer'[w] = "up" => worker'[w].job.target # t
  BY <1>1, NoneUnderWay
<1>4. Alarmed(t)' /\ told'[t] \in {"critical", "reminder"}
  <2>1. ASSUME NEW w \in Worker, Judge(w)
        PROVE  Alarmed(t)' /\ told'[t] \in {"critical", "reminder"}
    <3>1. worker[w].job.target = t => answer[w] # "up"
      BY <1>1
    <3>2. PICK x \in Target :
            /\ worker[w].job.target = x
            /\ \A y \in Target \ {x} : (Alarmed(y)' <=> Alarmed(y)) /\ told'[y] = told[y]
            /\ \/ answer[w] = "up"
               \/ /\ Alarmed(x) => Alarmed(x)'
                  /\ told'[x] = told[x] \/ told'[x] \in {"critical", "reminder"}
      BY <2>1, JudgeEffect
    <3>3. QED
      BY <1>1, <3>1, <3>2
  <2>2. CASE SyncAndReset
    <3>1. Stale(Incoming(list)) = {}
      BY <1>1 DEF Stale
    <3>2. QED
      BY <1>1, <2>2, <3>1, SyncEffect DEF HoldsNoOther
  <2>3. CASE UNCHANGED <<states, told>>
    BY <1>1, <2>3 DEF Alarmed, Listed!Alarmed
  <2>4. QED
    BY <2>1, <2>2, <2>3, AgentSteps, QuietSteps
<1>5. QED
  BY <1>1, <1>2, <1>3, <1>4 DEF OutageKnown, Incoming

(* An outage the recipients know of stays announced and in alarm for as    *)
(* long as the target is down and the list is kept: after a sync with the  *)
(* same list, after jobs of an older configuration, after failed fetches,  *)
(* in every order of the workers' results.                                 *)
THEOREM AgentStaysAnnounced == ASpec => StaysAnnounced
<1>1. BInv /\ [ANext]_agentVars =>
        [\A t \in Target, list \in Listable :
           OutageKnown(t, list) /\ cp' = list /\ t \notin up' => OutageKnown(t, list)']_agentVars
  BY OutageStays
<1>2. QED
  BY <1>1, AgentBInv, PTL DEF ASpec, StaysAnnounced

LEMMA WellStays ==
  ASSUME QuickAnswers, BInv, [ANext]_agentVars, NEW t \in Target, KnownWell(t), t \in up', ~done'
  PROVE  KnownWell(t)'
<1>1. /\ t \in up /\ \A w \in Worker : answer[w] = "down" => worker[w].job.target # t
      /\ ~Alarmed(t) /\ told[t] \notin {"critical", "reminder"}
  BY DEF KnownWell
<1>2. ~done
  BY AgentNextIsNext, DoneStays
<1>3. \A w \in Worker : answer'[w] = "down" => worker'[w].job.target # t
  BY <1>1, <1>2, NoneUnderWay
<1>4. ~Alarmed(t)' /\ told'[t] \notin {"critical", "reminder"}
  <2>1. ASSUME NEW w \in Worker, Judge(w)
        PROVE  ~Alarmed(t)' /\ told'[t] \notin {"critical", "reminder"}
    <3>1. worker[w].job.target = t => answer[w] # "down"
      BY <1>1
    <3>2. PICK x \in Target :
            /\ worker[w].job.target = x
            /\ \A y \in Target \ {x} : (Alarmed(y)' <=> Alarmed(y)) /\ told'[y] = told[y]
            /\ \/ answer[w] = "down"
               \/ /\ Alarmed(x)' => Alarmed(x)
                  /\ told'[x] = told[x] \/ told'[x] = "recovery"
      BY <2>1, JudgeEffect
    <3>3. QED
      BY <1>1, <3>1, <3>2
  <2>2. CASE SyncAndReset
    BY <1>1, <2>2, SyncEffect
  <2>3. CASE UNCHANGED <<states, told>>
    BY <1>1, <2>3 DEF Alarmed, Listed!Alarmed
  <2>4. QED
    BY <2>1, <2>2, <2>3, AgentSteps, QuietSteps
<1>5. QED
  BY <1>1, <1>3, <1>4 DEF KnownWell

(* A target known to be well stays out of alarm, and no mail speaks of a   *)
(* failure of it, for as long as it answers: neither an edit of the list   *)
(* nor a reset, nor a result a worker still holds, alarms it.  With        *)
(* QuickAnswers, since a slow answer can be judged critical.               *)
THEOREM AgentStaysWell == ASSUME QuickAnswers PROVE ASpec => StaysWell
<1>1. BInv /\ [ANext]_agentVars =>
        [\A t \in Target : KnownWell(t) /\ t \in up' /\ ~done' => KnownWell(t)']_agentVars
  BY WellStays
<1>2. QED
  BY <1>1, AgentBInv, PTL DEF ASpec, StaysWell

(* Every configuration has a recipient.  Without one an alarm is raised    *)
(* and ended unheard, and the last word may be of the configuration before.*)
EveryoneHears == \A v \in Version : Listed!Recipients(Rule[v]) # {}

LEMMA ViewStep ==
  ASSUME EveryoneHears, BInv, Listed!OperatorView, [ANext]_agentVars
  PROVE  Listed!OperatorView'
<1>1. ASSUME NEW t \in Target
      PROVE  /\ told[t] \in {"critical", "reminder"} => Alarmed(t)
             /\ told[t] # "nothing" => t \in DOMAIN states
  BY DEF Listed!OperatorView, Alarmed
<1> SUFFICES ASSUME NEW t \in Target
             PROVE  /\ told'[t] \in {"critical", "reminder"} => Alarmed(t)'
                    /\ told'[t] # "nothing" => t \in DOMAIN states'
  BY DEF Listed!OperatorView, Alarmed, Listed!Alarmed
<1>2. ASSUME NEW w \in Worker, Judge(w)
      PROVE  /\ told'[t] \in {"critical", "reminder"} => Alarmed(t)'
             /\ told'[t] # "nothing" => t \in DOMAIN states'
  <2>1. Listed!Recipients(Rule[worker[w].job.version]) # {}
    <3>1. worker[w].job.version \in Version
      BY <1>2 DEF Judge, ProcessResult, BInv, RInv, IInv, TypeOK, WorkerState, Job
    <3>2. QED
      BY <3>1 DEF EveryoneHears
  <2>2. QED
    BY <1>1, <1>2, <2>1, JudgeEffect
<1>3. CASE SyncAndReset
  BY <1>1, <1>3, SyncEffect
<1>4. CASE UNCHANGED <<states, told>>
  BY <1>1, <1>4 DEF Alarmed, Listed!Alarmed
<1>5. QED
  BY <1>2, <1>3, <1>4, AgentSteps, QuietSteps

(* What the recipients were told last is of a target that has an entry,    *)
(* and bad news is of one in alarm, in the scheduler as a whole: under any *)
(* interleaving of the workers and of the syncs that reset targets, for    *)
(* any number of each.                                                     *)
THEOREM AgentOperatorView == ASSUME EveryoneHears PROVE ASpec => []Listed!OperatorView
<1>1. AInit => Listed!OperatorView
  BY DEF AInit, Listed!OperatorView
<1>2. BInv /\ Listed!OperatorView /\ [ANext]_agentVars => Listed!OperatorView'
  BY ViewStep
<1>3. QED
  BY <1>1, <1>2, AgentBInv, PTL DEF ASpec
=============================================================================
