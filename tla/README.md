# Formal model of the IPMonitor agent

TLA+ specifications, TLC configurations and TLAPS proofs for the monitoring
agent in `src/go-monitoring-worker` (the program `ipmonitor-agent`). The source
is the reference: each definition that models code is mapped, in
`PROJECT.json`, to the lines it stands for.

## 1. The system

An agent runs on a customer's machine. It pulls a list of targets from the
Control Plane, pings each target at its own interval, feeds the results to an
alarm state machine that sends mails and Telegram messages, and ships the
results back.

```
Control Plane --GET config--> sync loop --UpdateTargets-----> alert engine --SendEmail--> batch notifier
     ^                           |                              ^    ^   \                      | flush (10 s timer)
     |                   SyncConfiguration             ResetTarget   |    `-Telegram sender     v Enqueue
     |                           v                          |        |                     mail dispatcher --SMTP-->
     |                       scheduler ---------------------'  ProcessResult                 (2 workers)
     |                           | one loop per target               |
     |                           `--EnqueueJob--> job queue --> worker pool --Execute--> ICMP probe
     |                                                               | Add
     `--------------POST telemetry------------- reporter <-----------'
```

| Component | State | Operations | What is hard | What makes it correct |
|---|---|---|---|---|
| Alert engine, `internal/alerts/engine_impl.go` | a `targetState` per target (window of failures, streaks, recovery count, alarm flag, reminder time); the parent map | `ProcessResult`, `ResetTarget`, `UpdateTargets` | results of one target out of stamp order; long mixtures of failures, slow answers and greens; boundaries of T and N; parents that recover, change, or form cycles | an alarm is raised exactly when the rule says so, recovery is earned and never overdue, an alarm below an alarmed ancestor is not announced, nobody is left with the wrong picture |
| Scheduler, `internal/scheduler/manager_impl.go` | `activeTargets`, `cancelFuncs`, `rootCtx`; one goroutine per target | `SyncConfiguration`, `StartTicks`, `runTargetLoop` | a sync at any point of a loop's life; loops that outlive their entry | one stoppable loop per listed target, with its configuration |
| Sync loop, `cmdRun` and `fetchConfig` in `cmd/agent/main.go` | none of its own | `doSync` at boot and per tick | races the start of the scheduler; updates two components in turn; fetches fail | the agent converges to the last list |
| Worker pool, `agentPool` in `main.go` | job queue of 150, 50 workers | `EnqueueJob`, `worker`, `ResetTarget` | jobs carry a copy of the configuration and may be stale; a full queue drops them | stale work dies out; workers end on shutdown |
| Batch notifier, `notifier_impl.go` | messages per recipient and subject, one timer | `SendEmail`, `flush` | messages that arrive as the timer fires | no message lost or doubled, no batch without a timer |
| Mail dispatcher, `dispatcher.go` | queue of 500, 2 workers, three attempts | `Enqueue`, `workerLoop`, `Stop` | server down, silent for ever, or ambiguous in its errors; full queue; shutdown in the middle | every mail is settled but what a silent server holds up; the shutdown ends if the attempts to send do |
| Telegram sender, `telegram.go` | none; requests under way | `Send` | fire and forget, failures only logged | nobody waits for it, the shutdown least of all |
| Reporter, `reporter.go` | buffer of results | `Add`, `Run`, `flush`, `Heartbeat` | POSTs and heartbeats fail, their answer is lost, or they are given up and arrive later; shutdown | at most once, in order but for POSTs that were given up, every result accounted for; the agent stays seen |
| ICMP probe, `executor.go`, `icmp.go` | one raw socket per check | `Execute`, `executeICMP`, `executeTCP` | every socket gets every reply; late, lost, repeated replies | "up" only if the checked host answered; every check ends |
| Legacy alarm machine, `internal/fsm` | one machine per target | `Transition`, `SetMute` | same rules as the engine, evaluated on every check | as for the engine. The agent does not import it |
| Registration and credentials, `main.go` | the credentials file, its temporary file, the announced identity | `cmdRegister`, `saveCredentials`, `loadCredentials` | killed between truncation, write and rename; killed before the new identity is announced; the answer is lost after the token was used; two registers at once | the file on disk is whole, and is what was announced or a later identity whose register was killed before it said so |
| Service management, `main.go` | the systemd unit | `service install`, `uninstall`, `start`, `stop`; `Restart=on-failure` | started before it is registered; dies at any time; a wrong interval panics | a service that is wanted comes up once it can |
| Installer, `install-agent.sh` | environment file, binary, unit, credentials | the steps of the script | a step fails or is interrupted; the service restarts by itself in between | see section 4 |
| Engine registry, InfluxDB client | written once, or not constructed by the agent | | | not modelled, see section 7 |

## 2. The modules

| Module | Models | State and actions |
|---|---|---|
| `AlarmBoard` | the abstract promise of the alert engine: who is in alarm and what the operator was last told | `Raise`, `Remind`, `Recover`, `Forget`, `Rewire`; ancestors are a fixed point, not a walk |
| `AlertEngine` | `engine_impl.go` | `states` and `parentMap` are the engine's maps; `ProcessResult`, `ResetTarget`, `UpdateTargets` are its methods, each one action since each holds `e.mu` throughout; `Tick` is the clock. `cfg` holds the configuration that the jobs of a target carry, `told` is history |
| `AlertHistory` | `AlertEngine` with the results each state was built from | adds `hist`; the rules are restated on `hist` alone |
| `Monitor` | sync loop, scheduler and pool | `FetchConfig`, `FetchFails`, `UpdateTargets`, `Sync` are the steps of `doSync`; `JitterOver`, `EnqueueJob`, `ExitLoop` those of a target loop; `TakeJob`, `ProcessResult`, `Report`, `ExitWorker` those of a worker; `StartTicks`, `Shutdown`. Of the engine only `evidence` is kept: from which configurations' results each entry was built |
| `Agent` | `Monitor` composed with `AlertEngine`: targets go down and come up, a check says what it saw, the worker hands it to the engine under the configuration of its job, and a sync resets entries | `Flip`, `CheckEnds`, `Judge` (both modules' `ProcessResult` in one step), `SyncAndReset` (`Sync` with `ResetTarget` of every stale target); every other step is one of `Monitor`, `Alone` |
| `Outbox` | the abstract promise to whoever hands over a message: pending, then settled once; copies only while it is pending | `Submit`, `Attempt`, `Discard` |
| `MailPipeline` | batch notifier, dispatcher, Telegram sender, shutdown of `cmdRun`; implements `Outbox` | `SendEmail`, `Flush`, `Enqueue` (one mail of a running flush), `TakeMail`, `SendAttempt`, `ExitWorker`, `Signal`, `CloseQueue`, `WorkersGone`; `SendTelegram`, `PostEnds`; `fate` and `mails` are history |
| `Reporter` | `reporter.go`, the heartbeat and the end of the process | `Add`, `TickFlush`, `FinalFlush`, `Post`, `Heartbeat`, `HeartStops`, `Cancel`, `Exit`; `LateEnd` is the end of a POST that was given up, by the client's timeout, by ctx, or with the process, and is still on its way (`late`); `Forget` is the Control Plane losing sight of the agent; `givenUp` is history |
| `IcmpProbe` | `Execute` run by several workers | `Send`, `LoopTop`, `Receive`, `Dial`, `DialEnds`, `Timeout`, `StartFails`; `Answer` and `Arrive` are the network |
| `FsmMachine` | `internal/fsm/fsm.go` | `Transition` in its two states, `SetMute`, `Tick` |
| `Deployment` | registration, credentials file, service and installer | files are inodes and names: `OpenTmp`, `WriteTmp`, `Rename` are the steps of `saveCredentials`, `Announce` what `cmdRegister` says after them, `Fails` an error or a kill between any two; `Load`, `TickerPanics`, `SyncOk`, `Dies` are the agent's process, `RestartTimer` is systemd; `Begin` .. `Verify` and `ScriptDies` are the script; `Reboot` is the machine |
| `AlertEngineProofs`, `AlertHistoryProofs`, `MonitorProofs`, `MailPipelineProofs`, `ReporterProofs`, `IcmpProbeProofs`, `FsmMachineProofs`, `DeploymentProofs` | theorems and proofs about the module of that name; `MonitorProofs` also about `Agent` | section 5 |
| `MC*` | constants for TLC | |

An operator whose comment begins with "Mutant" is a variation of the definition
that follows it, of the kind a slip in the code would make; the model does not
use it. Each property of a passing run is violated by at least one of them
(`PROJECT.json`, "mutants").

Abstractions worth knowing:

- Time is a small integer in `AlertEngine` and `FsmMachine`; `Minute` is the
  number of units in a minute. `time.Time{}` is 0 and the clock starts at 1.
  Elsewhere timers and tickers are actions that may happen at any time, which
  covers every interval, jitter and backoff.
- A result's stamp is taken by the probe before the worker waits for the
  engine's lock. `AlertEngine` lets it be up to `MaxLag` older than the moment
  of processing, so results may be processed in either order.
- In `AlertEngine` the jobs of a target carry the configuration of its last
  reset. `Agent` does not assume it: there a job keeps the configuration it was
  made with, and the assumption turns out to be too generous for jobs on their
  way during a sync (`AgentReactivate`), but not for what the engine promises
  of entries made from results of the listed configuration (`EngineRulesHold`).
- In `Agent` the rules are immediate (T = 0) and the clock stands still: the
  windows are the business of `AlertHistory`.
- `Deployment` takes what was written to survive a restart of the machine: the
  code calls no `fsync`, and what a file system keeps without it is not in the
  code.
- `SyncConfiguration` is one action: it holds `m.mu`, and its effects on the
  loops and on the engine concern different targets or commute with the steps
  of loops and workers.
- The parsing of `AlertConfig` is left out; `Config` is the set of parsed
  rules, and the default is a rule like any other. Latencies are integers.
- `fireEvent` does nothing in the agent: its writer is nil (`main.go:277`).

## 3. The runs

| Run | Shows | Bounds |
|---|---|---|
| `AlertTopology` | `ImplementsBoard`: the engine refines `AlarmBoard`: suppression under an alarmed ancestor, reminders, recovery. `OperatorView`: whoever was last told CRITICAL or REMINDER was told of a target in alarm | 3 targets; a chain, a fork, a parent without entry, a cycle with and without the target; rules that fire at once, so that topology and not counting is explored; clock 1..2 is enough for one reminder |
| `AlertHistory` | counters of one window and one recovery (`WindowConsistent`), no missed alarm in immediate mode (`NoMissedAlarm`), no spurious alarm (`AlarmMatchesHistory`), recovery earned and not overdue (`RecoveryEarned`, `NoOverdueRecovery`) | 1 target (targets meet only in the topology), 6 rules over T, N, C, R, RI, 5 results between resets: two more than the largest N, so that a window closes and the next one opens; stamps up to 1 late (`MaxLag`, and `MinGap` as its negative, which bounds nothing) |
| `AlertOutage` | `SustainedOutageAlarms`: an outage of two periods and two gaps alarms, wherever in a window it began | two delayed rules, C and not C (T = 3, N = 4), a check per unit in stamp order (`MinGap`); 12 results: the shortest such outage takes 9, so it may begin in a window that an earlier failure opened, a green between, and be cut by the end of that window |
| `Monitor` | `OneLoopPerTarget`, `TopologyAgrees`, `ConvergesToControlPlane`, `ShutdownStops` | 2 targets, four lists (both targets, one with another version, one alone, one inactive), one edit after an arbitrary first list, two loops per target, a job queue of one |
| `Agent` | `NoFalseAlarm`: a target that always answered is never reported. `OutageIsAnnounced`, `RecoveryIsSeen`: once list and target stay as they are, alarm and announcement agree with the target, whatever older jobs did. `EngineRulesHold`: what `AlertEngine` promises holds for entries built under the listed rule | 1 target, 1 worker, a queue of one, two rules (one failure and R = 0; two in a row and R = 2) and an inactive version, one edit, one flip, 3 failures counted. The stale job, the job dropped for want of room and the check under way during a sync all occur |
| `Mail` | `Conservation`, `NoStrandedBatch`, `KeepsPromise` (refinement of `Outbox`), `StopDrainsQueue`, `EverySettled`, `ShutdownEnds` | 3 messages, 2 keys, 2 workers, a queue of 1, batches of 2, 2 attempts: each limit can be exceeded; 1 Telegram message; a server that never answers an attempt |
| `Reporter` | `OnceInOrder`, `NothingVanishes`, `ResultsLeave`, `StaysSeen` | 5 results: two batches of two can be given up and arrive in either order, before or after a later one |
| `IcmpProbe` | `UpIsDeserved`, `EveryProbeEnds` | 2 checks, 2 hosts, 2 identifiers: equal and distinct identifiers and hosts occur; ICMP, TCP and an unknown protocol |
| `FsmMachine` | `NoOverdueAlarm`, `CountersOfPhase`, `AlarmJustified` | 6 rules, one of them with the N and R that `NewMachine` replaces; 5 checks between changes of state |
| `Deployment` | `CredentialsWhole`, `AnnouncedIsOnDisk`, `ComesUp` | one register at a time (two are in section 4), which may be killed between any two steps, rename and announcement included; 2 identities, an answered interval of 0 or 60, 2 deaths or reboots, 2 runs of the script: enough for a failed attempt over a good file and a reinstallation over a running service |
| `AgentReactivate` | violated, see section 4 | as `Agent`, two edits |
| `MailPanic` | violated | 2 messages |

`CHECK_DEADLOCK FALSE` is set where the system really stops: after a shutdown
(`Monitor`, `Agent`, `Mail`, `Reporter`), when service and bounds are used up
(`Deployment`), when every check has ended (`IcmpProbe`), and
when the bounds on clock and history are used up (`FsmMachine`). The alert
engine never stops: it may always be reset.

### Fairness

Only what the code's scheduling gives is assumed.

- `Monitor`: weak fairness of each goroutine's steps. A `select` that finds
  both `ctx.Done()` and a tick ready picks at random, so a loop that is
  cancelled cannot tick for ever, and the exit, enabled from then on at each
  return to the `select`, is taken. Weak fairness of `FetchConfig` means that
  the Control Plane answers some request and the ticker keeps ticking. `Edit`
  and `Shutdown` are not fair: convergence is claimed only if the list stops
  changing and the agent is not stopped.
- `Agent`: the same, with one condition for all steps that one goroutine takes
  in turn; a check ends, by its timeout if not by an answer. Targets need not
  go down or come up.
- `MailPipeline`: timers fire, goroutines run, `Stop` goes on. `SendEmail` and
  `Signal` are not fair. Nor is `SendAttempt`: `smtp.SendMail`
  (`dispatcher.go:151`) has no deadline, and a server that accepts the
  connection and stays silent holds the worker for ever. `AttemptsEnd(w)` is the
  hypothesis that no attempt of worker w does; `EverySettled` needs it of one
  worker and excepts what the others hold, `ShutdownEnds` needs it of all.
- `Reporter`: the ticker ticks and a POST ends for the agent, since the client
  has a timeout; one that was given up may be on its way for ever (`LateEnd` is
  not fair).
  Heartbeats are strongly fair in their success: of those sent for ever some
  get through. The mutant shows what the code adds to that: that the goroutine
  goes on after one that failed.
- `Deployment`: systemd starts what failed (`Restart=on-failure`,
  `RestartSec=10`), and a process that was started reads its credentials. No
  one need register, install or start anything.
- `IcmpProbe`: a probe starts, its loop goes round, its deadline passes. The
  network is not fair: no reply need ever arrive, and foreign ones may arrive
  all the time.

## 4. Where the code and its documentation disagree

Each of these two has a run in which TLC finds the behaviour.

1. `AgentReactivate`. `manager_impl.go:70` resets a target "so reactivated
   targets start fresh (no stale isAlarmed)". A job of the old configuration in
   the queue or under check is processed after the reset and brings an entry
   back, alarm and all; since a target that is not listed is not reset again,
   it is reactivated in alarm. The composition bounds the damage: once the list
   stays, alarm and announcement come to agree with the target
   (`OutageIsAnnounced`, `RecoveryIsSeen`), provided that both rules have
   contacts; if the old one had none, the alarm was raised in silence and the
   outage is never announced.
2. `MailPanic`. `Enqueue` "securely pushes an alert" (`dispatcher.go:64`), but
   `Stop` closes the queue while the flush timer and the engine are alive; a
   flush before the end of the process sends on a closed channel and panics.

More are stated as properties in the modules but belong to no run; put the
name in the configuration given to see the behaviour.

| Property | Configuration | What happens | What is said |
|---|---|---|---|
| `AlertHistory!AnyPingEvaluatesWindow` | `AlertHistory` (PROPERTY) | a green result after T does not evaluate the window | `engine_impl_test.go:166`: green or red, "el motor DEBE evaluar el pasado" |
| `AlertEngine!ChildSpeaksAfterParentRecovers` | `AlertTopology` (PROPERTY) | a child that was suppressed under its parent says nothing when the parent has recovered and it goes on failing, unless reminders are on: CRITICAL is sent only by the step that raises the alarm | `engine_impl_test.go:213`: "a subsequent child failure sends its own alert"; the test resets the child, which a sync does not do for an unchanged target |
| `Monitor!ReactivatedStartsFresh` | `Monitor` (PROPERTY) | as `AgentReactivate`, for the evidence of the entry | `manager_impl.go:70` |
| `Monitor!SyncOkMeansScheduled` | `Monitor` (PROPERTY) | the boot sync may precede `StartTicks`; nothing is scheduled until the next sync and "sync OK" is logged | `main.go:316`; `install-agent.sh:366` concludes that the agent is monitoring |
| `Reporter!FinalFlushDrains` | `Reporter` (PROPERTY) | the process does not wait for `Run`: the final flush may not happen | `reporter.go:73` |
| `IcmpProbe!NeverMixedUp` | `IcmpProbe` (INVARIANT) | two checks with one identifier take each other's replies | `executor.go:124`: "never mix up each other's echo replies" |
| `FsmMachine!FailuresInPeriod` | `FsmMachine` (PROPERTY) | the check after T counts for the period it closes | `fsm.go:11`: "required in the T period" |
| `Deployment!CredentialsWhole` | `Deployment` with `Registrar = {"r1", "r2"}` | two registers share the name of the temporary file: one renames what the other has just truncated | `main.go:95`: "atomically via temp file + rename to avoid partial writes" |
| `Deployment!ReinstallKeepsSmtp` | `Deployment` (PROPERTY) | the environment file is written anew from the answers of this run | `install-agent.sh:190`: "mantiene config SMTP" |
| `Deployment!VerifiedAgentHasSynced` | `Deployment` (PROPERTY) | "sync OK" is found in the journal of the agent that ran before | `install-agent.sh:332`, `366`: "El agente ya está monitoreando" |
| `Deployment!InstalledIdentityRuns` | `Deployment` (PROPERTY) | a service that waits for its restart is not active, so the script does not stop it; it may load the old identity before the new one is saved, and `service start` then does nothing | `install-agent.sh:287`, `300` |

And `Stop` "gracefully waits for all pending emails" (`dispatcher.go:58`) only
while ctx is not cancelled, which is what `StopDrainsQueue` says. `cmdRun`
cancels first (`main.go:335`), and its workers may leave mails in the queue:
drop `/\ ~done` from the property to see it. `Stop` may also wait for ever:
`wg.Wait` (`dispatcher.go:61`) waits for a worker whose `smtp.SendMail` need not
return. Drop the hypothesis of `ShutdownEnds` to see it; then only a SIGKILL,
which systemd sends after its stop timeout, ends the agent.

## 5. The proofs

TLAPS checks them for every value of the constants that satisfies the named
assumption of the module (`ConstantsAssumption`, `HistoryAssumption`,
`MonitorAssumption`, `AgentAssumption`, `MailAssumption`, `ReporterAssumption`,
`FsmAssumption`, `DeploymentAssumption`; `IcmpProbe` needs none): any number
of targets, versions, workers, messages, checks and files, any rules (negative
numbers included), any topology, any bounds. Two theorems need in addition that
there are finitely many targets (`TargetsFinite`), as there are in any program.
TLC checked each of the invariants on the instances of section 3 first.

The theorems about liveness have a hypothesis `[]GuardsSuffice`: where the
guard of a step under fairness holds, the step is enabled. The prover derives
consequences of WF and SF by temporal logic but cannot expand ENABLED, so this
one fact about each of those steps is handed to it; TLC evaluates it, and finds
it true, when `GuardsSuffice` is added as an INVARIANT to the configurations
`Monitor`, `IcmpProbe`, `Deployment` and `Reporter`. It is not part of a run: it
says something of the model, not of the agent. In `Monitor` it also says that
`MaxLoops`, a bound the program does not have, is never in the way of a sync.

`AlertEngineProofs`:

- `EngineTyped`, `EngineConsistent`, `EngineMissesNoAlarm`,
  `EngineOperatorView`: `Spec => []` of `TypeOK`, `WindowConsistent`,
  `NoMissedAlarm`, `OperatorView`.
- The invariants of one target are the predicate `Good(s, c)`. Lemmas say what
  each piece of a handler does to a good state: `CountFailureGood` (a counted
  failure keeps the counters consistent but may satisfy the rule),
  `JudgeGood` (after the judgement the rule is not satisfied without an alarm
  in immediate mode), `RemindedGood`, `StreakEndedGood`, `RecoveredGood`.
  `StoreState` lifts one target's new state to the map.
- The inductive invariant adds two facts: the clock is positive, so that a
  window that is open has a start other than the zero time, and a target nobody
  is to be told about was never spoken of (`Silent`). Without the latter
  `OperatorView` is not inductive: such a target could recover in silence after
  a CRITICAL.
- Configurations change only with a reset in this module, which is what makes
  the bound of the recovery count by the current R provable.
- `WalkFindsAncestors`: the walk of `isAncestorAlarmed`, which goes from parent
  to parent and stops at one it has met, answers whether some ancestor is in
  alarm, in every topology, cycles and missing entries included. The walk is a
  recursive function on sets of targets; that there is one (`WalkExists`) is the
  least fixed point of a monotone round. Of the answer, "the walk finds it, so
  there is one" holds since the ancestors contain what the walk meets. The
  converse is an induction, put in first-order form: of the sets of targets that
  a walk may have met when it goes wrong there is a largest (`LargestExists`,
  from the well-foundedness of strict inclusion on finite sets), and one more
  step of the walk would give a larger.
- `EngineImplementsBoard`: the engine implements `AlarmBoard`, where ancestors
  are a least fixed point. Initial states map to initial states; each handler
  is a step of the board or a stutter, action by action, and the theorem above
  is what makes the suppression of a child's CRITICAL and RECOVERY agree.

`AlertHistoryProofs`:

- `AlarmsMatchHistory`, `NoRecoveryOverdue`, `RecoveriesAreEarned`, and
  `HistoryWatches`: the module with histories behaves as the engine, so that
  every theorem about the engine holds in it.
- What a state has to do with the history is `Fits`. `Describes`: a window that
  is open began with some failure of the history (`WindowFrom`), counts the
  failures since, has a run of failures as long as its longest streak, and its
  current streak is the run the history ends with; in immediate mode no failure
  precedes it and no run since is longer. `EndsWith`: the successes counted in
  an alarm are the greens the history ends with, and something else precedes
  them. `Evidence` never goes away until the history is cleared.
- `CriticalFits` and `SuccessFits` say what a result makes of a state that
  fits; the window lemmas below them count the failures of a longer history.
  That the failure before the greens exists (an alarm is never raised by a
  green) is what makes `NoRecoveryOverdue` inductive.
- `SustainedOutagesAlarm`: `SustainedOutageAlarms`, for every N, T, lag and gap.
  Beside the histories, `Paced` bounds how far stamps run back and how far apart
  the failures of an outage are, and `Watches` says of the open window of a
  target not in alarm that it began with a failure f (`DelayedWindow`) such that
  the failures the history ends with are in the streak and, in an outage, T has
  not passed since f and f came at most a period, a gap and the lag after the
  start of the outage. A window that expires in an outage cannot have begun
  inside it: there was room for N failures in a row (`EnoughInOutage`, from
  `NoRoom`), so it would have alarmed; hence its successor begins in time
  (`NextBeginsInTime`), and that one alarms.

`MonitorProofs`:

- `MonitorTyped`, `MonitorOneLoop`, `MonitorTopology`: `Spec => []` of `TypeOK`
  (with the limit of the job queue), `OneLoopPerTarget`, `TopologyAgrees`.
- `OneLoopPerTarget` is not inductive alone: that a sync cancels its target's
  loop and no other, and starts one under an unused name, rests on the
  numbering of the loops (`Numbered`); `TopologyAgrees` needs that between the
  two calls of `doSync` the engine already has the list (`EngineHasList`).
  `SyncConfigurationStep` carries the argument.
- `AgentIsMonitor`: `ASpec => Spec`. The composition takes nothing away from
  the scheduler's behaviours and adds none, so the theorems above hold in it.
- `AgentRaisesNoFalseAlarm`: `NoFalseAlarm`, with the hypothesis `QuickAnswers`:
  no latency exceeds the `maxLatency` of any rule, for a target that answers too
  slowly is in alarm, and rightly. The inductive `Untroubled` adds the results
  on their way: no worker holds a "down" of a target that always answered.
- `AgentKeepsEngineRules`: `EngineRulesHold`. Inductive is `EntriesSound`, which
  says it for every version, not only the listed one: a result of version v
  leaves an entry of one version only if that version is v, and then the entry
  was of version v before.
- `MonitorStaysConverged`, `AgentStaysAnnounced`, `AgentStaysWell`: the runs
  check that the good states of `ConvergesToControlPlane`, `OutageIsAnnounced`
  and `RecoveryIsSeen` are reached and not left for ever; these action
  properties say that no single step leaves them. Each names what has to be
  true of the work under way: no list but the Control Plane's in the hands of
  the sync loop (`HoldsNoOther`), no answer of an earlier state of the target
  in those of a worker. A failed fetch, a dropped job or the
  signal disturbs none of it.
- `MonitorScheduleConverges`, `MonitorLoopsEnd`, `MonitorSyncLoopReturns`, with
  `GuardsSuffice`: of `ConvergesToControlPlane` and `ShutdownStops` what is a
  chain of fixed length. The sync loop goes round (`SyncWay`); once it has come
  to rest under a list that stays, it holds no other, and the next sync
  schedules it (`SyncSchedules`, from `TopologyAgrees`) for good. A loop that is
  not of the list is cancelled (`NotCurrentEnds`, from `OneLoopPerTarget`), and a
  cancelled one goes from its jitter over its first job to a tick, at which it
  ends (`LoopWay`); that no sync starts another under its name is `Numbered`
  again. `LoopsHaveNames`: what is said of `LoopIds` is said of every loop.
- `AgentOperatorView`: the engine's `OperatorView` in the composition, where
  resets and stale jobs come between. It has the hypothesis `EveryoneHears`,
  that every configuration has a recipient. Without it, it is false, which is the
  other side of item 1 of section 4: an entry that a stale job brings back under
  a silent configuration can recover without a word.

`MailPipelineProofs`:

- `MailTyped`, `MailNoStrandedBatch`, `MailConserved`, and `MailKeepsPromise`:
  the refinement of `Outbox`.
- `Conservation` counts places; the invariant says instead where a message may
  be (`Batched`, `Flushed`, `Queued`, `Sending`) and that each place holds it
  once (`Once`), two places never (`Apart`), and that to be held and to be open
  is the same (`Open`, `Kept`, the latter until a panic). The lemmas about
  `Head`, `Tail`, `Append` and `SubSeq` say what a handover moves.
- `Tried` is what the refinement needs beside: fewer mails have gone out for a
  message than its worker has made attempts, and none before a worker has it.
  Otherwise a message dropped or omitted could have been mailed.
- `MailStopDrainsQueue`: `StopDrainsQueue`, if there is a worker at all. What is
  inductive is `Leaving`: a worker that has left did so when the queue was
  closed and empty, and nothing is added to a closed queue.

`ReporterProofs`:

- `ReporterTyped`, `ReporterKeepsOrder`, `ReporterAccountsForAll`.
- `Ordered` says of what arrived that it is in order but for batches that were
  given up (`InOrderBut`), of every batch that was given up and of what arrived
  that it is below the batch in hand and the buffer, and of these that they
  increase; `Placed` is the partition of `1 .. added` over the five places:
  received, lost, on its way, batch, buffer. A flush only moves a piece, an
  `Add` is above all of them, and a batch that arrives late is one of `givenUp`,
  which never shrinks.
- `ReporterStaysSeen`, `ReporterResultsLeave`: both properties of liveness, with
  `GuardsSuffice`. What leads from the buffer to the network and from there on
  (`Buffered`, `Behind`, `Posted`) is a chain of fixed length: the POST under
  way ends, then the next tick takes the whole buffer, then that POST ends. The
  former rests on strong fairness of a heartbeat that gets through, which is the
  assumption that the network is not down for ever (section 3).

`IcmpProbeProofs`:

- `ProbeTyped`, `ProbeUpIsDeserved`.
- `Signed`: a request on the network carries identifier and host of its sender;
  `Took`: what a probe took carries the identifier of the probe. If that is its
  own (`Distinct`), sender and host follow. `Route` keeps ICMP and TCP apart.
- `ProbesEnd`: `EveryProbeEnds`, with `GuardsSuffice`. `EveryState`: a probe is
  at its start, open to its deadline, or ended; `Way`: no step of this probe, of
  another or of the network takes it back.

`FsmMachineProofs`:

- `FsmTyped`, `FsmCountersOfPhase`, `FsmNoOverdueAlarm`. `NewMachine` replaces
  a wrong N or R, and the proofs use that (`Rules`); it does not look at T, so
  `FsmNoOverdueAlarm` has the hypothesis `NoNegativeWait`: with T < 0 a
  window is over the moment it opens.
- `FsmAlarmJustified`: `AlarmJustified`, a negative T included. Inductive is that
  the history `Tells` of the window: it began with some failed check
  (`WindowOf`), counts the failures since, holds a run as long as its longest
  streak and ends in the current one. The step that fires is judged by
  `Count(m, failure)` over the history with this check in it, before
  `FireCritical` clears the fields; `CountTells` says that these still agree.

`DeploymentProofs`:

- `DeploymentTyped`; `ExclusiveRegisterIsAtomic` and
  `ExclusiveRegisterKeepsItsWord`: `CredentialsWhole` and `AnnouncedIsOnDisk`
  if there is at most one registrar (`Exclusive`). The hypothesis is needed:
  with two the properties are violated, see section 4. What the file may be
  instead of the announced identity has a larger number: registers that are
  alone come one after the other, and what each has in hand is larger than what
  was announced before it (`Saving`).
- `FilesTyped`, `ServiceTyped`, `Numbered` hold for any number of registrars;
  `Numbered` says that a register is given an inode nobody uses. `Saving` is
  what a register that is alone knows of its temporary file between any two of
  its steps: it has it open, and what it has written is in it.
- `SavedCredentialsNeverPanic`: for any number of registrars, what makes the
  ticker of the agent panic is never an interval that `cmdRegister` saved.
  `SavesPositive`, of every file and every register between its steps, is the
  invariant, also of what is half written or renamed by another.
- `ExclusiveComesUp`: `ComesUp` for `Exclusive`, with `GuardsSuffice`. A service
  that is wanted and registered waits, loads, panics or is up (`ReadyState`),
  and each goes on to the next (`ReadyStep`); what was loaded before may panic
  once, what is loaded now is whole and positive. The hypothesis
  `<>[][Survives]_vars` says that agent and machine die no more: in the run
  `MaxCrashes` sees to that, and without it a service may die whenever it is up.

Only model-checked:

- `ConvergesToControlPlane`, `ShutdownStops`, `OutageIsAnnounced`,
  `RecoveryIsSeen`, `EverySettled`, `ShutdownEnds`. Each needs an argument over
  a measure that has no bound fixed in the formula (the jobs before this one in
  the queue, the loops that have not ended, the failures still missing), that is,
  induction under a temporal operator, which the prover has no rule for. What it
  can do of them is proved: the list is scheduled, each single loop and the sync
  loop end, the good states are not left (`MonitorStaysConverged`,
  `AgentStaysAnnounced`, `AgentStaysWell`), and the queue is empty when `Stop`
  has returned (`MailStopDrainsQueue`). Open are the emptying of the job queue,
  the counting of failures and successes, and the drain of the mail queue.
- ENABLED, that is `GuardsSuffice`.

`StaysConverged`, `ScheduleConverges`, `CancelledLoopsEnd` and
`SyncLoopReturns` (of `Monitor`), `StaysAnnounced` and `StaysWell` (of `Agent`)
and `SavedNeverPanics` (an INVARIANT of `Deployment`) are proved and part of no
run, since each is a part of a property that is; TLC agrees when they are added
to the configurations of those names.

## 6. Plan

Done: every component in the table of section 1 except the last row, their
compositions `Agent` and `Outbox`, and proofs about each of them.

What is left, in the order of its worth:

1. Proofs of `ScheduleConverges` and `CancelledLoopsEnd` for `Agent`, whose
   fairness is stated for a whole goroutine and not for each of its steps.
2. The fates of the mails of one batch as seen by its reader: order of CRITICAL
   and RECOVERY over two workers, which the code does not keep.

## 7. Not modelled, and why

- Signing of requests, JSON, the parsing of configurations, mail and Telegram
  texts, HTTP details: data without influence on control.
- The wording of `parseNetworkError`: it goes into a message.
- Engine registry: one entry, written once at start.
- InfluxDB client: not constructed by the agent, which passes nil for the
  writer; its batching is a library's.
- `fsync`: the code calls none, so what a power failure leaves is up to the
  file system; `Deployment` takes what was written to stay.
- Prompts, detection of the architecture and output of the installer.
