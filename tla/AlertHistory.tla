---------------------------- MODULE AlertHistory ----------------------------
(***************************************************************************)
(* AlertEngine with the results each target's state was built from, so     *)
(* that the counters of the engine can be compared with what they count.   *)
(*                                                                         *)
(* hist[t] lists the results of t processed since its last reset or, if    *)
(* later, its last recovery, in the order in which they were processed,    *)
(* each with the stamp its probe gave it.  The rules below are written on  *)
(* hist alone.                                                             *)
(***************************************************************************)
EXTENDS AlertEngine, Sequences

CONSTANTS MaxHist,  \* bound: length of hist
          MinGap,   \* bound: the least by which a stamp follows the one before;
                    \* -MaxLag is none
          MaxGap    \* the longest time between two checks of a watched target

ASSUME HistoryAssumption == MaxHist \in Nat /\ MinGap \in Int /\ MaxGap \in Nat

VARIABLE hist

hvars == <<vars, hist>>

Severities == {"critical", "warning", "green"}

SeverityOf(t, p) == IF IsCritical(cfg[t], p) THEN "critical"
                    ELSE IF IsWarning(cfg[t], p) THEN "warning" ELSE "green"

HInit == Init /\ hist = [t \in Target |-> <<>>]

Recovers(t) == Alarmed(states, t) /\ t \in DOMAIN states' /\ ~states'[t].isAlarmed

HProcessResult(t, p, ts) ==
  /\ Len(hist[t]) < MaxHist
  /\ hist[t] # <<>> => ts - hist[t][Len(hist[t])].ts >= MinGap
  /\ ProcessResult(t, p, ts)
  /\ hist' = [hist EXCEPT ![t] =
                IF Recovers(t) THEN <<>> ELSE Append(@, [sev |-> SeverityOf(t, p), ts |-> ts])]

HResetTarget(t, c) == ResetTarget(t, c) /\ hist' = [hist EXCEPT ![t] = <<>>]

HTick == Tick /\ UNCHANGED hist

HNext == \/ \E t \in Target, p \in Probe, ts \in Stamps : HProcessResult(t, p, ts)
         \/ \E t \in Target, c \in Config : HResetTarget(t, c)
         \/ HTick

HSpec == HInit /\ [][HNext]_hvars

-----------------------------------------------------------------------------
(* The rules, read off the history. *)
Failed(h, j) == h[j].sev = "critical"

(* Enough failures among results f to i: N in a row, or N in all. *)
EnoughFailures(h, f, i, c) ==
  IF c.C THEN \E k \in f .. i : /\ i - f + 1 >= c.N
                                /\ k + c.N - 1 <= i
                                /\ \A j \in k .. (k + c.N - 1) : Failed(h, j)
         ELSE Cardinality({j \in f .. i : Failed(h, j)}) >= c.N

(* Failures f and i delimit a window that lasted T and held enough. *)
AlarmingWindow(h, f, i, c) ==
  /\ Failed(h, f) /\ Failed(h, i)
  /\ c.T = 0 \/ h[i].ts - h[f].ts >= c.T
  /\ EnoughFailures(h, f, i, c)

TrailingGreens(h, n) ==
  n <= Len(h) /\ \A j \in (Len(h) - n + 1) .. Len(h) : h[j].sev = "green"

(* A failing probe at least every MaxGap since result i, in stamp order. *)
OutageSince(h, i) ==
  \A j \in i .. Len(h) :
    /\ Failed(h, j)
    /\ j > i => h[j].ts - h[j - 1].ts \in 0 .. MaxGap

-----------------------------------------------------------------------------
(* Properties *)

(* An alarm is never spurious: some two failures of the target, T apart,   *)
(* enclose N failures (N in a row if C); and in immediate mode it is never *)
(* missing either, once such failures were processed (engine_impl.go:134). *)
AlarmMatchesHistory ==
  \A t \in Target :
    LET h == hist[t]
        evidence == \E i \in 1 .. Len(h) : \E f \in 1 .. i : AlarmingWindow(h, f, i, cfg[t])
    IN  /\ Alarmed(states, t) => evidence
        /\ cfg[t].T = 0 /\ evidence => Alarmed(states, t)

(* A target in alarm whose last R results are all green has recovered: no  *)
(* recovery is overdue (engine_impl.go:271).                               *)
NoOverdueRecovery ==
  \A t \in Target :
    Alarmed(states, t) => ~TrailingGreens(hist[t], IF cfg[t].R < 1 THEN 1 ELSE cfg[t].R)

(* Recovery is earned: when a result ends an alarm, the R - 1 results      *)
(* before it were green, without a warning or a failure between them.      *)
RecoveryEarned ==
  [][\A t \in Target : Recovers(t) =>
       TrailingGreens(hist[t], IF cfg[t].R < 1 THEN 0 ELSE cfg[t].R - 1)]_hvars

(* A sustained outage always alarms, wherever in a window it began: a      *)
(* target that failed every check for two periods and two gaps (and the    *)
(* lag by which an earlier window may start late) is in alarm, provided    *)
(* its checks are frequent enough for N of them to fit in a period.        *)
SustainedOutageAlarms ==
  \A t \in Target :
    LET h == hist[t]  c == cfg[t]
    IN  (/\ c.T > 0 /\ (c.N - 1) * MaxGap <= c.T
         /\ \E i \in 1 .. Len(h) :
              /\ OutageSince(h, i)
              /\ h[Len(h)].ts - h[i].ts >= 2 * (c.T + MaxGap) + MaxLag)
        => Alarmed(states, t)

(* What engine_impl_test.go:166 says of a ping that arrives after T: "ya   *)
(* sea verde o rojo, el motor DEBE evaluar el pasado" (green or red, the   *)
(* engine MUST evaluate the past).  A result processed when the window has *)
(* lasted T and holds enough failures must leave the target in alarm.      *)
AnyPingEvaluatesWindow ==
  [][\A t \in Target :
       LET h == hist'[t]
       IN  /\ Len(h) > Len(hist[t]) /\ cfg[t].T > 0
           /\ t \in DOMAIN states
           /\ states[t].windowErrors > 0
           /\ ConditionMet(states[t], cfg[t])
           /\ PeriodOver(states[t], cfg[t], h[Len(h)].ts)
           => Alarmed(states', t)]_hvars
=============================================================================
