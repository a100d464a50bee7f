----------------------------- MODULE AlertEngine -----------------------------
(***************************************************************************)
(* alerts.fsmEngine (internal/alerts/engine_impl.go): the state machine    *)
(* that turns check results into CRITICAL, REMINDER and RECOVERY messages. *)
(*                                                                         *)
(* Every method holds e.mu from its first to its last line, so each is one *)
(* action.  Results are stamped by the probe (ICMPEngine.Check) before the *)
(* worker waits for the lock; the stamp of a result is therefore any time  *)
(* in the last MaxLag units and results of one target may be processed in  *)
(* an order other than that of their stamps.                               *)
(*                                                                         *)
(* The environment of the engine is the scheduler: SyncConfiguration calls *)
(* ResetTarget for a target that was removed or whose configuration        *)
(* changed, and the jobs it starts afterwards carry the new configuration. *)
(* Here every job of a target carries the configuration cfg[t] installed   *)
(* by its last reset; module Monitor drops that assumption.                *)
(***************************************************************************)
EXTENDS Integers, FiniteSets

CONSTANTS
  Target,     \* target ids
  Root,       \* the ParentID "" of a root target
  Config,     \* the configurations a target may be given
  Topology,   \* the parent maps the Control Plane may send
  Latency,    \* the latencies an answered probe may measure
  Minute,     \* clock units in a minute (60 in the code)
  MaxTime,    \* bound: the clock stops here
  MaxLag,     \* bound: age of a result when it is processed
  MaxErrors   \* bound: failures counted for a target

(* A parsed AlertConfig (AlertConfigParsed) with the thresholds, the       *)
(* channel and the contacts of the TargetConfig it came in.                *)
ConfigType == [T : Int, N : Int, C : BOOLEAN, R : Int, RI : Int,
               maxLatency : Int, warningLatency : Int,
               channel : {"", "email", "telegram", "both"},
               contacts : SUBSET {"email", "telegram"}]

ParentMaps == UNION {[S -> Target \cup {Root}] : S \in SUBSET Target}

ASSUME ConstantsAssumption ==
  /\ Root \notin Target
  /\ Config # {} /\ Config \subseteq ConfigType
  /\ Topology \subseteq ParentMaps
  /\ Latency \subseteq Nat
  /\ Minute \in Nat \ {0}
  /\ MaxTime \in Nat /\ MaxLag \in Nat /\ MaxErrors \in Nat

(* The targets are those of the lists an agent has received. *)
ASSUME TargetsFinite == IsFiniteSet(Target)

VARIABLES
  states,     \* e.states: a map with an entry for each target seen
  parentMap,  \* e.parentMap
  cfg,        \* the configuration carried by the jobs of each target
  now,        \* the clock
  told        \* the last word on each target since its last reset

vars == <<states, parentMap, cfg, now, told>>

-----------------------------------------------------------------------------
(* The zero time.Time; the clock starts at 1. *)
ZeroTime == 0

TargetState == [isAlarmed : BOOLEAN, firstErrorTime : Nat, windowErrors : Nat,
                consecutiveSuccess : Nat, currentStreak : Nat,
                maxStreakInWin : Nat, lastReminderTime : Nat]

(* &targetState{}; its field consecutiveErrors is never read or written. *)
Fresh == [isAlarmed |-> FALSE, firstErrorTime |-> ZeroTime, windowErrors |-> 0,
          consecutiveSuccess |-> 0, currentStreak |-> 0,
          maxStreakInWin |-> 0, lastReminderTime |-> ZeroTime]

StateOf(t) == IF t \in DOMAIN states THEN states[t] ELSE Fresh

WithState(t, s) ==
  [x \in DOMAIN states \cup {t} |-> IF x = t THEN s ELSE states[x]]

(* The answers of a probe: a failed one reports no latency. *)
Probe == [isDown : {TRUE}, latency : {0}] \cup [isDown : {FALSE}, latency : Latency]

IsCritical(c, p) == p.isDown \/ p.latency > c.maxLatency
IsWarning(c, p)  == ~IsCritical(c, p) /\ p.latency > c.warningLatency

(* The media through which a message about a target of configuration c     *)
(* reaches somebody; an empty channel means email.                         *)
Recipients(c) ==
  {m \in c.contacts : c.channel \in {m, "both"} \/ (c.channel = "" /\ m = "email")}

Words == {"nothing", "critical", "reminder", "recovery"}

Notify(t, word) ==
  told' = IF Recipients(cfg[t]) = {} THEN told ELSE [told EXCEPT ![t] = word]

-----------------------------------------------------------------------------
(* isAncestorAlarmed: the walk up the parent chain, stopped by the root or *)
(* by the first target met twice.                                          *)
ParentOf(t) == IF t \in DOMAIN parentMap THEN parentMap[t] ELSE Root

Alarmed(sts, t) == t \in DOMAIN sts /\ sts[t].isAlarmed

(* Mutant: the walk stops at the parent. *)
IsParentAlarmed(sts, t) == Alarmed(sts, ParentOf(t))

(* finds[visited]: the targets at which a walk that has met those of       *)
(* visited goes on to find an alarm; Root is none of them.                 *)
IsAncestorAlarmed(sts, t) ==
  LET finds[visited \in SUBSET Target] ==
        {current \in Target \ visited :
           Alarmed(sts, current) \/ ParentOf(current) \in finds[visited \cup {current}]}
  IN  ParentOf(t) \in finds[{}]

-----------------------------------------------------------------------------
(* The window of failures. *)

(* Mutants: a failure takes one success back, or none, where it should     *)
(* break the recovery.                                                     *)
CountFailureTakesOneBack(s, ts) ==
  [s EXCEPT !.consecutiveSuccess = @ - 1,
            !.firstErrorTime = IF s.windowErrors = 0 THEN ts ELSE @,
            !.windowErrors = @ + 1, !.currentStreak = @ + 1,
            !.maxStreakInWin = IF s.currentStreak + 1 > @ THEN s.currentStreak + 1 ELSE @]

CountFailureKeepsRecovery(s, ts) ==
  [CountFailureTakesOneBack(s, ts) EXCEPT !.consecutiveSuccess = s.consecutiveSuccess]

CountFailure(s, ts) ==
  [s EXCEPT !.consecutiveSuccess = 0,
            !.firstErrorTime = IF s.windowErrors = 0 THEN ts ELSE @,
            !.windowErrors = @ + 1,
            !.currentStreak = @ + 1,
            !.maxStreakInWin = IF s.currentStreak + 1 > @ THEN s.currentStreak + 1 ELSE @]

(* Mutant: the window that has expired keeps its start. *)
RestartWindowKeepsStart(s, ts) ==
  [s EXCEPT !.windowErrors = 1, !.currentStreak = 1, !.maxStreakInWin = 1]

RestartWindow(s, ts) ==
  [s EXCEPT !.firstErrorTime = ts, !.windowErrors = 1,
            !.currentStreak = 1, !.maxStreakInWin = 1]

(* Mutant: more than N failures wanted. *)
ConditionMetStrict(s, c) == IF c.C THEN s.maxStreakInWin > c.N ELSE s.windowErrors > c.N

ConditionMet(s, c) == IF c.C THEN s.maxStreakInWin >= c.N ELSE s.windowErrors >= c.N

PeriodOver(s, c, ts) == ts - s.firstErrorTime >= c.T

(* Mutant: immediate mode is a period of length 0. *)
ShouldAlarmAfterPeriod(s, c, ts) == ConditionMet(s, c) /\ PeriodOver(s, c, ts)

ShouldAlarm(s, c, ts) == ConditionMet(s, c) /\ (c.T = 0 \/ PeriodOver(s, c, ts))

WindowExpired(s, c, ts) == c.T # 0 /\ PeriodOver(s, c, ts) /\ ~ConditionMet(s, c)

Raises(s, c, ts) == ShouldAlarm(s, c, ts) /\ ~s.isAlarmed

(* Mutant: the reminder clock is set but the alarm is not. *)
JudgeForgetsAlarm(s, c, ts) ==
  CASE WindowExpired(s, c, ts) -> RestartWindow(s, ts)
    [] Raises(s, c, ts)        -> [s EXCEPT !.lastReminderTime = ts]
    [] OTHER                   -> s

(* The state of a target after its failure was counted: the window is      *)
(* restarted by this failure, or the alarm raised, or neither.             *)
Judge(s, c, ts) ==
  CASE WindowExpired(s, c, ts) -> RestartWindow(s, ts)
    [] Raises(s, c, ts)        -> [s EXCEPT !.isAlarmed = TRUE, !.lastReminderTime = ts]
    [] OTHER                   -> s

ReminderDue(s, c, ts) ==
  s.isAlarmed /\ c.RI > 0 /\ ts - s.lastReminderTime >= c.RI * Minute

HandleCritical(t, ts) ==
  LET c        == cfg[t]
      counted  == CountFailure(StateOf(t), ts)
      raised   == Raises(counted, c, ts)
      judged   == Judge(counted, c, ts)
      shadowed == IsAncestorAlarmed(WithState(t, judged), t)
      reminded == ReminderDue(judged, c, ts) /\ ~shadowed
  IN  /\ StateOf(t).windowErrors < MaxErrors
      /\ states' = WithState(t, IF reminded THEN [judged EXCEPT !.lastReminderTime = ts]
                                            ELSE judged)
      /\ \/ raised /\ ~shadowed /\ Notify(t, "critical")
         \/ reminded /\ Notify(t, "reminder")
         \/ ~(raised /\ ~shadowed) /\ ~reminded /\ UNCHANGED told

-----------------------------------------------------------------------------
(* A green or warning result. *)

(* Mutants: recovery leaves the longest streak of the old window, or the   *)
(* alarm.                                                                  *)
RecoveredStaysAlarmed(s) ==
  [s EXCEPT !.windowErrors = 0, !.currentStreak = 0, !.maxStreakInWin = 0,
            !.consecutiveSuccess = 0, !.firstErrorTime = ZeroTime]

RecoveredKeepsStreak(s) ==
  [s EXCEPT !.isAlarmed = FALSE, !.windowErrors = 0, !.currentStreak = 0,
            !.consecutiveSuccess = 0, !.firstErrorTime = ZeroTime]

Recovered(s) ==
  [s EXCEPT !.isAlarmed = FALSE, !.windowErrors = 0, !.currentStreak = 0,
            !.maxStreakInWin = 0, !.consecutiveSuccess = 0, !.firstErrorTime = ZeroTime]

(* Mutant: compared before the success is counted. *)
RecoveryCompleteLate(s, c) == s.consecutiveSuccess >= c.R

RecoveryComplete(s, c) == s.consecutiveSuccess + 1 >= c.R

HandleSuccessOrWarning(t, isWarning) ==
  LET s == [StateOf(t) EXCEPT !.currentStreak = 0]
      recovers == RecoveryComplete(s, cfg[t])
  IN  \/ /\ isWarning
         /\ states' = WithState(t, [s EXCEPT !.consecutiveSuccess = 0])
         /\ UNCHANGED told
      \/ /\ ~isWarning /\ ~s.isAlarmed
         /\ states' = WithState(t, s)
         /\ UNCHANGED told
      \/ /\ ~isWarning /\ s.isAlarmed /\ ~recovers
         /\ states' = WithState(t, [s EXCEPT !.consecutiveSuccess = @ + 1])
         /\ UNCHANGED told
      \/ /\ ~isWarning /\ s.isAlarmed /\ recovers
         /\ states' = WithState(t, Recovered(s))
         /\ Notify(t, "recovery")

-----------------------------------------------------------------------------
(* The operations of the engine and the clock. *)
ProcessResult(t, p, ts) ==
  /\ IF IsCritical(cfg[t], p) THEN HandleCritical(t, ts)
                              ELSE HandleSuccessOrWarning(t, IsWarning(cfg[t], p))
  /\ UNCHANGED <<parentMap, cfg, now>>

(* ResetTarget, called by SyncConfiguration, which then starts the jobs    *)
(* of the target, if it has any, with configuration c.                     *)
ResetTarget(t, c) ==
  /\ states' = [x \in DOMAIN states \ {t} |-> states[x]]
  /\ cfg' = [cfg EXCEPT ![t] = c]
  /\ told' = [told EXCEPT ![t] = "nothing"]
  /\ UNCHANGED <<parentMap, now>>

UpdateTargets(pm) ==
  /\ parentMap' = pm
  /\ UNCHANGED <<states, cfg, now, told>>

Tick == /\ now < MaxTime
        /\ now' = now + 1
        /\ UNCHANGED <<states, parentMap, cfg, told>>

Stamps == {ts \in 1 .. now : now - ts <= MaxLag}

Init == /\ states = [t \in {} |-> Fresh]
        /\ parentMap = [t \in {} |-> Root]
        /\ cfg \in [Target -> Config]
        /\ now = 1
        /\ told = [t \in Target |-> "nothing"]

Next == \/ \E t \in Target, p \in Probe, ts \in Stamps : ProcessResult(t, p, ts)
        \/ \E t \in Target, c \in Config : ResetTarget(t, c)
        \/ \E pm \in Topology : UpdateTargets(pm)
        \/ Tick

Spec == Init /\ [][Next]_vars

-----------------------------------------------------------------------------
(* Properties *)

(* Every variable has its type, and states is a map keyed by target ids. *)
TypeOK ==
  /\ DOMAIN states \subseteq Target /\ states \in [DOMAIN states -> TargetState]
  /\ parentMap \in ParentMaps
  /\ cfg \in [Target -> Config]
  /\ now \in Nat
  /\ told \in [Target -> Words]

ConsistentState(s, c) ==
  /\ s.currentStreak <= s.maxStreakInWin
  /\ s.maxStreakInWin <= s.windowErrors
  /\ s.windowErrors > 0 <=> s.maxStreakInWin > 0
  /\ s.windowErrors > 0 <=> s.firstErrorTime # ZeroTime
  /\ s.isAlarmed => s.windowErrors > 0 /\ s.lastReminderTime # ZeroTime
  /\ s.consecutiveSuccess > 0 =>
       s.isAlarmed /\ s.currentStreak = 0 /\ s.consecutiveSuccess < c.R

(* The counters of a target describe one window and one recovery: a window *)
(* is open exactly when it has failures and a start, it never holds a      *)
(* streak longer than its failures, an alarm always has the window that    *)
(* justified it or a later one, recovery is counted only in alarm and      *)
(* never reaches the R that would have ended it (handleCritical and        *)
(* handleSuccessOrWarning together).                                       *)
WindowConsistent == \A t \in DOMAIN states : ConsistentState(states[t], cfg[t])

(* T = 0, no alarm, a window that is open: the rule is not satisfied yet.  *)
NothingMissed(s, c) ==
  c.T = 0 /\ ~s.isAlarmed /\ s.windowErrors > 0 => ~ConditionMet(s, c)

(* Immediate mode (T = 0) never sits on an alarm: a target that is not in  *)
(* alarm has an open window only while its rule is not satisfied, whatever *)
(* mixture of failures, warnings, greens and resets led there.             *)
NoMissedAlarm == \A t \in DOMAIN states : NothingMissed(states[t], cfg[t])

(* The operator is never left with the wrong picture of a target while the *)
(* engine remembers it: the last word is CRITICAL or REMINDER only for a   *)
(* target in alarm, and nothing was said, since its reset, of a target     *)
(* the engine has no entry for.                                            *)
OperatorView ==
  \A t \in Target :
    /\ told[t] \in {"critical", "reminder"} => Alarmed(states, t)
    /\ told[t] # "nothing" => t \in DOMAIN states

(* The engine keeps the promise of AlarmBoard: suppression below an        *)
(* alarmed ancestor, reminders, recovery.                                  *)
Board == INSTANCE AlarmBoard
           WITH alarmed  <- {t \in Target : Alarmed(states, t)},
                parent   <- parentMap,
                audience <- {t \in Target : Recipients(cfg[t]) # {}}
ImplementsBoard == Board!Spec

(* What engine_impl_test.go:213 says of suppression: "When parent          *)
(* recovers, a subsequent child failure sends its own alert."  A child     *)
(* that went into alarm in silence is still in alarm, no ancestor is any   *)
(* more, and another of its checks fails: the operator must now be told.   *)
ChildSpeaksAfterParentRecovers ==
  [][\A t \in Target :
       /\ Alarmed(states, t) /\ told[t] = "nothing" /\ Recipients(cfg[t]) # {}
       /\ ~IsAncestorAlarmed(states, t)
       /\ t \in DOMAIN states' /\ states'[t].windowErrors > states[t].windowErrors
       => told'[t] # "nothing"]_vars
=============================================================================
