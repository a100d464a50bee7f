------------------------------ MODULE FsmMachine ------------------------------
(***************************************************************************)
(* fsm.Machine (internal/fsm/fsm.go), the earlier alarm machine that the   *)
(* repository keeps and tests beside alerts.fsmEngine.  Unlike the engine  *)
(* it evaluates its window on every check, good or bad, and clears it when *)
(* it goes CRITICAL.                                                       *)
(*                                                                         *)
(* Its methods hold m.mut throughout, so each is one action.  The caller   *)
(* passes the time of a check; here time never runs backwards, as in the   *)
(* tests.  hist lists the checks since the last change of State.           *)
(***************************************************************************)
EXTENDS Integers, Sequences, FiniteSets

CONSTANTS
  Config,      \* the AlertConfigs
  MaxLatency,  \* maxLatency, 0 for none
  Latency,     \* the latencies of an answered check
  MaxTime,     \* bound: the clock stops here
  MaxHist      \* bound: length of hist

ASSUME FsmAssumption ==
  /\ Config # {} /\ Config \subseteq [T : Int, N : Int, C : BOOLEAN, R : Int]
  /\ MaxLatency \in Nat /\ Latency \subseteq Nat
  /\ MaxTime \in Nat /\ MaxHist \in Nat

VARIABLES
  config,  \* m.config
  m,       \* the tracking fields of the machine
  muted,   \* m.isMuted
  now,     \* the clock
  hist,    \* the checks since State changed: [bad, ts]
  fired    \* the last TransitionResult: "alert", "recover" or "none"

vars == <<config, m, muted, now, hist, fired>>

-----------------------------------------------------------------------------
ZeroTime == 0

MachineState == [State : {"GREEN", "CRITICAL"}, windowStartTime : Nat, failuresCount : Nat,
                 currentStreak : Nat, maxStreakInWin : Nat, recoveryStreak : Nat]

(* NewMachine replaces an N or R that is not positive by 1. *)
NewConfig(c) == [c EXCEPT !.N = IF @ <= 0 THEN 1 ELSE @, !.R = IF @ <= 0 THEN 1 ELSE @]

NewMachine == [State |-> "GREEN", windowStartTime |-> ZeroTime, failuresCount |-> 0,
               currentStreak |-> 0, maxStreakInWin |-> 0, recoveryStreak |-> 0]

Check == [isUp : {FALSE}, latency : {0}] \cup [isUp : {TRUE}, latency : Latency]

IsFailure(ch) == ~ch.isUp \/ (MaxLatency > 0 /\ ch.latency > MaxLatency)

(* Mutant: the longest streak survives. *)
ResetAllButStreak(s) ==
  [s EXCEPT !.windowStartTime = ZeroTime, !.failuresCount = 0, !.currentStreak = 0]

ResetFailureTracking(s) ==
  [s EXCEPT !.windowStartTime = ZeroTime, !.failuresCount = 0,
            !.currentStreak = 0, !.maxStreakInWin = 0]

Larger(i, j) == IF i > j THEN i ELSE j

Count(s, failure) ==
  IF failure
  THEN [s EXCEPT !.windowStartTime = IF @ = ZeroTime THEN now ELSE @,
                 !.failuresCount = @ + 1,
                 !.currentStreak = @ + 1,
                 !.maxStreakInWin = Larger(@, s.currentStreak + 1)]
  ELSE [s EXCEPT !.currentStreak = 0]

ConditionMet(s) ==
  IF config.C THEN s.maxStreakInWin >= config.N ELSE s.failuresCount >= config.N

PeriodOver(s) == now - s.windowStartTime >= config.T

FireCritical(s) == ResetFailureTracking([s EXCEPT !.State = "CRITICAL"])

(* Mutant: the streak of good checks survives. *)
FireRecoveryKeepsStreak(s) == ResetFailureTracking([s EXCEPT !.State = "GREEN"])

FireRecovery(s) == ResetFailureTracking([s EXCEPT !.State = "GREEN", !.recoveryStreak = 0])

(* The window is over and held too little: the check seeds the next one if *)
(* it failed.                                                              *)
Reseed(s, failure) == Count(ResetFailureTracking(s), failure)

AlarmDue(s)      == s.windowStartTime # ZeroTime /\ ConditionMet(s) /\ (config.T = 0 \/ PeriodOver(s))

(* Mutant: a window is never given up. *)
WindowNeverExpires(s) == FALSE

WindowExpired(s) == /\ s.windowStartTime # ZeroTime /\ ~ConditionMet(s)
                    /\ config.T # 0 /\ PeriodOver(s)

Becomes(s, result, check) ==
  /\ m' = s
  /\ fired' = IF muted THEN "none" ELSE result
  /\ hist' = IF s.State # m.State THEN <<>> ELSE Append(hist, check)

-----------------------------------------------------------------------------
(* Transition in state GREEN and in state CRITICAL. *)
TransitionGreen(failure) ==
  LET s == Count(m, failure)
      check == [bad |-> failure, ts |-> now]
  IN  /\ m.State = "GREEN"
      /\ \/ AlarmDue(s) /\ Becomes(FireCritical(s), "alert", check)
         \/ WindowExpired(s) /\ Becomes(Reseed(s, failure), "none", check)
         \/ ~AlarmDue(s) /\ ~WindowExpired(s) /\ Becomes(s, "none", check)

RecoveryCount(failure) == IF failure THEN 0 ELSE m.recoveryStreak + 1

TransitionCritical(failure) ==
  LET recovery == RecoveryCount(failure)
      s == [m EXCEPT !.recoveryStreak = recovery]
      check == [bad |-> failure, ts |-> now]
  IN  /\ m.State = "CRITICAL"
      /\ IF ~failure /\ recovery >= config.R
         THEN Becomes(FireRecovery(s), "recover", check)
         ELSE Becomes(s, "none", check)

Transition(ch) ==
  /\ Len(hist) < MaxHist
  /\ TransitionGreen(IsFailure(ch)) \/ TransitionCritical(IsFailure(ch))
  /\ UNCHANGED <<config, muted, now>>

SetMute(on) == muted' = on /\ UNCHANGED <<config, m, now, hist, fired>>

Tick == now < MaxTime /\ now' = now + 1 /\ UNCHANGED <<config, m, muted, hist, fired>>

Init == /\ config \in {NewConfig(c) : c \in Config}
        /\ m = NewMachine
        /\ muted = FALSE
        /\ now = 1
        /\ hist = <<>>
        /\ fired = "none"

Next == \/ \E ch \in Check : Transition(ch)
        \/ \E on \in BOOLEAN : SetMute(on)
        \/ Tick

Spec == Init /\ [][Next]_vars

-----------------------------------------------------------------------------
(* Properties *)

(* Every variable has its type. *)
TypeOK == /\ config \in [T : Int, N : Int, C : BOOLEAN, R : Int]
          /\ m \in MachineState
          /\ muted \in BOOLEAN /\ now \in Nat
          /\ hist \in Seq([bad : BOOLEAN, ts : Nat])
          /\ fired \in {"alert", "recover", "none"}

Transitioned == m'.State # m.State

(* Enough failures among checks f to i: N in a row, or N in all. *)
EnoughFailures(h, f, i) ==
  IF config.C THEN \E k \in f .. i : k + config.N - 1 <= i
                                     /\ \A j \in k .. (k + config.N - 1) : h[j].bad
              ELSE Cardinality({j \in f .. i : h[j].bad}) >= config.N

(* The alarm is justified by the checks since the last recovery: some      *)
(* failure began a period that lasted T and held enough, the check that    *)
(* raised the alarm included.                                              *)
AlarmJustified ==
  [][\A bad \in BOOLEAN :
       LET h == Append(hist, [bad |-> bad, ts |-> now])
           failed == m'.State = "CRITICAL" /\ Transitioned
       IN  failed /\ TransitionGreen(bad) =>
             \E f \in DOMAIN h : /\ h[f].bad
                                 /\ config.T = 0 \/ now - h[f].ts >= config.T
                                 /\ EnoughFailures(h, f, Len(h))]_vars

(* A green machine never sits on a window that is over: after every check  *)
(* either the rule is not satisfied or, in delayed mode, T has not passed  *)
(* since the window began (Transition evaluates on every check).           *)
NoOverdueAlarm ==
  hist # <<>> /\ m.State = "GREEN" /\ m.windowStartTime # ZeroTime =>
    LET last == hist[Len(hist)].ts
    IN  IF config.T = 0 THEN ~ConditionMet(m)
                        ELSE last - m.windowStartTime < config.T

(* The counters are those of the current phase: a window exists only in    *)
(* GREEN and exactly when it has failures, a recovery is counted only in   *)
(* CRITICAL, equals the good checks at the end of hist and has not yet     *)
(* reached R.                                                              *)
CountersOfPhase ==
  /\ m.State = "CRITICAL" => m.windowStartTime = ZeroTime
  /\ m.windowStartTime # ZeroTime <=> m.failuresCount > 0
  /\ m.currentStreak <= m.maxStreakInWin /\ m.maxStreakInWin <= m.failuresCount
  /\ m.State = "GREEN" => m.recoveryStreak = 0
  /\ m.recoveryStreak < config.R
  /\ m.State = "CRITICAL" =>
       /\ m.recoveryStreak <= Len(hist)
       /\ \A i \in DOMAIN hist : i > Len(hist) - m.recoveryStreak => ~hist[i].bad
       /\ Len(hist) > m.recoveryStreak => hist[Len(hist) - m.recoveryStreak].bad

(* What fsm.go:11 says of N: "Minimum alerts (failures) required in the T  *)
(* period".  When a delayed rule fires, N failures lie within T of the     *)
(* start of the window.                                                    *)
FailuresInPeriod ==
  [][\A bad \in BOOLEAN :
       LET h == Append(hist, [bad |-> bad, ts |-> now])
       IN  TransitionGreen(bad) /\ Transitioned /\ config.T > 0 /\ m.windowStartTime # ZeroTime =>
             Cardinality({i \in DOMAIN h : /\ h[i].bad
                                           /\ h[i].ts >= m.windowStartTime
                                           /\ h[i].ts <= m.windowStartTime + config.T})
               >= config.N]_vars
=============================================================================
