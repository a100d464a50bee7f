------------------------- MODULE AlertEngineProofs -------------------------
(***************************************************************************)
(* Proofs about AlertEngine, for every set of targets, configurations,     *)
(* topologies and latencies, and with no bound on time or lag beyond the   *)
(* constants'.                                                             *)
(*                                                                         *)
(* The lemmas say what one failure or one success does to the state of one *)
(* target; the theorems lift them to the engine.                           *)
(***************************************************************************)
EXTENDS AlertEngine, FiniteSetTheorems, WellFoundedInduction, TLAPS

(* A recorded state is typed and satisfies the invariants of one target. *)
Good(s, c) == s \in TargetState /\ ConsistentState(s, c) /\ NothingMissed(s, c)

-----------------------------------------------------------------------------
(* A target without an entry starts in a good state. *)
LEMMA FreshGood ==
  ASSUME NEW c \in ConfigType
  PROVE  Good(Fresh, c)
  BY DEF Good, Fresh, TargetState, ConsistentState, NothingMissed, ZeroTime

(* An update of the five fields that counting writes keeps the type. *)
LEMMA UpdateTyped ==
  ASSUME NEW s \in TargetState,
         NEW f \in Nat, NEW w \in Nat, NEW k \in Nat, NEW m \in Nat
  PROVE  [s EXCEPT !.consecutiveSuccess = 0, !.firstErrorTime = f, !.windowErrors = w,
                   !.currentStreak = k, !.maxStreakInWin = m] \in TargetState
  BY DEF TargetState

(* Counting a failure keeps the type, opens the window and leaves the      *)
(* alarm alone.                                                            *)
LEMMA CountFailureGood ==
  ASSUME NEW s \in TargetState, NEW c \in ConfigType, NEW ts \in Nat \ {0},
         ConsistentState(s, c)
  PROVE  /\ CountFailure(s, ts) \in TargetState
         /\ ConsistentState(CountFailure(s, ts), c)
         /\ CountFailure(s, ts).windowErrors > 0
         /\ CountFailure(s, ts).consecutiveSuccess = 0
         /\ CountFailure(s, ts).isAlarmed = s.isAlarmed
<1> DEFINE n == CountFailure(s, ts)
           f == IF s.windowErrors = 0 THEN ts ELSE s.firstErrorTime
           m == IF s.currentStreak + 1 > s.maxStreakInWin THEN s.currentStreak + 1
                                                         ELSE s.maxStreakInWin
<1> /\ s.isAlarmed \in BOOLEAN /\ s.lastReminderTime \in Nat /\ s.firstErrorTime \in Nat
    /\ s.windowErrors \in Nat /\ s.currentStreak \in Nat /\ s.maxStreakInWin \in Nat
  BY DEF TargetState
<1>1. /\ f \in Nat /\ m \in Nat /\ m >= s.currentStreak + 1
      /\ m >= s.maxStreakInWin /\ (m = s.currentStreak + 1 \/ m = s.maxStreakInWin)
      /\ (s.windowErrors = 0 => f = ts) /\ (s.windowErrors # 0 => f = s.firstErrorTime)
  OBVIOUS
<1> HIDE DEF f, m
<1>2. n = [s EXCEPT !.consecutiveSuccess = 0, !.firstErrorTime = f,
                    !.windowErrors = s.windowErrors + 1,
                    !.currentStreak = s.currentStreak + 1, !.maxStreakInWin = m]
  BY DEF CountFailure, f, m
<1> HIDE DEF n
<1>3. n \in TargetState
  <2>1. s.windowErrors + 1 \in Nat /\ s.currentStreak + 1 \in Nat
    OBVIOUS
  <2>2. QED
    BY <1>1, <1>2, <2>1, UpdateTyped
<1>4. /\ n.isAlarmed = s.isAlarmed /\ n.lastReminderTime = s.lastReminderTime
      /\ n.consecutiveSuccess = 0 /\ n.windowErrors = s.windowErrors + 1
      /\ n.firstErrorTime = f /\ n.currentStreak = s.currentStreak + 1
      /\ n.maxStreakInWin = m
  BY <1>2 DEF TargetState
<1>5. ConsistentState(n, c)
  BY <1>1, <1>4 DEF ConsistentState, ZeroTime
<1>6. QED
  BY <1>3, <1>4, <1>5 DEF n

(* Judging a counted failure yields a good state: in particular, with      *)
(* T = 0 a satisfied rule has raised the alarm.                            *)
LEMMA JudgeGood ==
  ASSUME NEW s \in TargetState, NEW c \in ConfigType, NEW ts \in Nat \ {0},
         ConsistentState(s, c), s.windowErrors > 0, s.consecutiveSuccess = 0
  PROVE  /\ Good(Judge(s, c, ts), c)
         /\ Raises(s, c, ts) => Judge(s, c, ts).isAlarmed
         /\ s.isAlarmed => Judge(s, c, ts).isAlarmed
<1> c.T \in Int /\ c.C \in BOOLEAN /\ c.N \in Int
  BY DEF ConfigType
<1>1. CASE WindowExpired(s, c, ts)
  <2> DEFINE n == RestartWindow(s, ts)
  <2>1. Judge(s, c, ts) = n /\ ~Raises(s, c, ts) /\ c.T # 0
    BY <1>1 DEF Judge, WindowExpired, Raises, ShouldAlarm
  <2>2. n \in TargetState
    BY DEF RestartWindow, TargetState
  <2>3. /\ n.isAlarmed = s.isAlarmed /\ n.lastReminderTime = s.lastReminderTime
        /\ n.consecutiveSuccess = s.consecutiveSuccess
        /\ n.windowErrors = 1 /\ n.currentStreak = 1 /\ n.maxStreakInWin = 1
        /\ n.firstErrorTime = ts
    BY DEF RestartWindow, TargetState
  <2> HIDE DEF n
  <2>4. QED
    BY <2>1, <2>2, <2>3 DEF Good, ConsistentState, NothingMissed, ZeroTime
<1>2. CASE ~WindowExpired(s, c, ts) /\ Raises(s, c, ts)
  BY <1>2 DEF Good, Judge, TargetState, ConsistentState, NothingMissed, ZeroTime
<1>3. CASE ~WindowExpired(s, c, ts) /\ ~Raises(s, c, ts)
  BY <1>3 DEF Good, Judge, Raises, ShouldAlarm, NothingMissed
<1>4. QED
  BY <1>1, <1>2, <1>3

(* A reminder only moves lastReminderTime. *)
LEMMA RemindedGood ==
  ASSUME NEW c \in ConfigType, NEW s, Good(s, c), NEW ts \in Nat \ {0}
  PROVE  /\ Good([s EXCEPT !.lastReminderTime = ts], c)
         /\ [s EXCEPT !.lastReminderTime = ts].isAlarmed = s.isAlarmed
<1> DEFINE n == [s EXCEPT !.lastReminderTime = ts]
<1>1. s \in TargetState /\ n \in TargetState
  BY DEF Good, TargetState
<1>2. /\ n.isAlarmed = s.isAlarmed /\ n.firstErrorTime = s.firstErrorTime
      /\ n.windowErrors = s.windowErrors /\ n.consecutiveSuccess = s.consecutiveSuccess
      /\ n.currentStreak = s.currentStreak /\ n.maxStreakInWin = s.maxStreakInWin
      /\ n.lastReminderTime = ts
  BY <1>1 DEF TargetState
<1> HIDE DEF n
<1>3. Good(n, c)
  BY <1>1, <1>2 DEF Good, ConsistentState, NothingMissed, ConditionMet, ZeroTime
<1>4. QED
  BY <1>2, <1>3 DEF n

(* What HandleSuccessOrWarning may store keeps a state good. *)
LEMMA StreakEndedGood ==
  ASSUME NEW c \in ConfigType, NEW s, Good(s, c),
         NEW k \in Nat, k > 0 => s.isAlarmed /\ k < c.R
  PROVE  LET n == [[s EXCEPT !.currentStreak = 0] EXCEPT !.consecutiveSuccess = k]
         IN  Good(n, c) /\ n.isAlarmed = s.isAlarmed
<1> DEFINE m == [s EXCEPT !.currentStreak = 0]
           n == [m EXCEPT !.consecutiveSuccess = k]
<1>1. s \in TargetState /\ m \in TargetState /\ n \in TargetState
  BY DEF Good, TargetState
<1>2. /\ n.isAlarmed = s.isAlarmed /\ n.firstErrorTime = s.firstErrorTime
      /\ n.windowErrors = s.windowErrors /\ n.consecutiveSuccess = k
      /\ n.currentStreak = 0 /\ n.maxStreakInWin = s.maxStreakInWin
      /\ n.lastReminderTime = s.lastReminderTime
  BY <1>1 DEF TargetState
<1>3. s.maxStreakInWin \in Nat /\ s.windowErrors \in Nat
  BY <1>1 DEF TargetState
<1> HIDE DEF m, n
<1>4. Good(n, c)
  BY <1>1, <1>2, <1>3 DEF Good, ConsistentState, NothingMissed, ConditionMet, ZeroTime
<1>5. QED
  BY <1>2, <1>4 DEF m, n

LEMMA RecoveredGood ==
  ASSUME NEW c \in ConfigType, NEW s \in TargetState
  PROVE  Good(Recovered(s), c) /\ ~Recovered(s).isAlarmed
<1> DEFINE n == Recovered(s)
<1>1. n \in TargetState
  BY DEF Recovered, TargetState, ZeroTime
<1>2. /\ n.isAlarmed = FALSE /\ n.firstErrorTime = 0 /\ n.windowErrors = 0
      /\ n.consecutiveSuccess = 0 /\ n.currentStreak = 0 /\ n.maxStreakInWin = 0
  BY DEF Recovered, TargetState, ZeroTime
<1> HIDE DEF n
<1>3. Good(n, c)
  BY <1>1, <1>2 DEF Good, ConsistentState, NothingMissed, ZeroTime
<1>4. QED
  BY <1>2, <1>3 DEF n

-----------------------------------------------------------------------------
(* The inductive invariant.  OperatorView alone is not inductive: a target *)
(* nobody is to be told about could recover in silence after a CRITICAL,   *)
(* so the invariant also says that of such a target nothing was ever said. *)
Silent(t) == Recipients(cfg[t]) = {} => told[t] = "nothing"

IInv == /\ TypeOK
        /\ now > 0
        /\ \A t \in DOMAIN states : Good(states[t], cfg[t])
        /\ \A t \in Target : Silent(t)
        /\ OperatorView

LEMMA InitIInv == Init => IInv
<1> SUFFICES ASSUME Init PROVE IInv
  OBVIOUS
<1>1. DOMAIN states = {} /\ states \in [DOMAIN states -> TargetState]
  BY DEF Init
<1>2. parentMap \in ParentMaps
  <2>1. parentMap \in [{} -> Target \cup {Root}]
    BY DEF Init
  <2>2. QED
    BY <2>1 DEF ParentMaps
<1>3. TypeOK
  BY <1>1, <1>2, ConstantsAssumption DEF Init, TypeOK, Words
<1>4. QED
  BY <1>1, <1>3 DEF Init, IInv, Silent, OperatorView

(* An entry of the map, or the fresh state, is good. *)
LEMMA StateOfGood ==
  ASSUME IInv, NEW t \in Target
  PROVE  /\ Good(StateOf(t), cfg[t])
         /\ cfg[t] \in ConfigType
         /\ StateOf(t) \in TargetState
         /\ StateOf(t).isAlarmed = Alarmed(states, t)
<1>1. cfg[t] \in ConfigType
  BY ConstantsAssumption DEF IInv, TypeOK
<1>2. Good(StateOf(t), cfg[t])
  BY <1>1, FreshGood DEF IInv, StateOf
<1>3. ~Fresh.isAlarmed
  BY DEF Fresh
<1>4. StateOf(t) \in TargetState
  BY <1>2 DEF Good
<1>5. StateOf(t).isAlarmed = Alarmed(states, t)
  <2>1. CASE t \in DOMAIN states
    BY <2>1, <1>4 DEF StateOf, Alarmed, TargetState
  <2>2. CASE t \notin DOMAIN states
    BY <2>2, <1>3, Zenon DEF StateOf, Alarmed, Fresh
  <2>3. QED
    BY <2>1, <2>2
<1>6. QED
  BY <1>1, <1>2, <1>4, <1>5

(* Storing a good state of t, and saying of t at most what its state and   *)
(* its recipients allow, keeps the invariant.                              *)
LEMMA StoreState ==
  ASSUME IInv, NEW t \in Target, NEW n, Good(n, cfg[t]),
         states' = WithState(t, n),
         UNCHANGED <<parentMap, cfg, now>>,
         NEW word \in Words,
         \/ UNCHANGED told /\ (Alarmed(states, t) => n.isAlarmed)
         \/ Notify(t, word) /\ (word \in {"critical", "reminder"} => n.isAlarmed)
  PROVE  IInv'
<1>1. n \in TargetState
  BY DEF Good
<1>2. DOMAIN states' = DOMAIN states \cup {t} /\ DOMAIN states' \subseteq Target
  BY DEF WithState, IInv, TypeOK
<1>3. \A x \in DOMAIN states' : states'[x] = IF x = t THEN n ELSE states[x]
  BY <1>2 DEF WithState
<1>4. states' \in [DOMAIN states' -> TargetState]
  BY <1>1, <1>2, <1>3 DEF WithState, IInv, TypeOK
<1>5. \A x \in DOMAIN states' : Good(states'[x], cfg'[x])
  BY <1>2, <1>3 DEF IInv
<1>6. /\ told' \in [Target -> Words]
      /\ \A x \in Target \ {t} : told'[x] = told[x]
  BY DEF IInv, TypeOK, Notify
<1>7. /\ told'[t] \in {"critical", "reminder"} => n.isAlarmed
      /\ Recipients(cfg[t]) = {} => told'[t] = "nothing"
  <2>1. CASE UNCHANGED told /\ (Alarmed(states, t) => n.isAlarmed)
    BY <2>1 DEF IInv, OperatorView, Silent
  <2>2. CASE Notify(t, word) /\ (word \in {"critical", "reminder"} => n.isAlarmed)
    <3>1. CASE Recipients(cfg[t]) = {}
      BY <2>2, <3>1 DEF Notify, IInv, Silent
    <3>2. CASE Recipients(cfg[t]) # {}
      BY <2>2, <3>2 DEF Notify, IInv, TypeOK
    <3>3. QED
      BY <3>1, <3>2
  <2>3. QED
    BY <2>1, <2>2
<1>8. \A x \in Target : (Alarmed(states, x) /\ x # t) => Alarmed(states', x)
  BY <1>2, <1>3 DEF Alarmed
<1>9. n.isAlarmed => Alarmed(states', t)
  BY <1>2, <1>3 DEF Alarmed
<1>10. OperatorView'
  BY <1>2, <1>6, <1>7, <1>8, <1>9 DEF OperatorView, IInv
<1>11. \A x \in Target : Silent(x)'
  BY <1>6, <1>7 DEF Silent, IInv
<1>12. TypeOK'
  BY <1>2, <1>4, <1>6 DEF TypeOK, IInv
<1>13. QED
  BY <1>5, <1>10, <1>11, <1>12 DEF IInv

(* A critical result: count, judge, then raise or remind. *)
LEMMA HandleCriticalIInv ==
  ASSUME IInv, NEW t \in Target, NEW ts \in Nat \ {0},
         HandleCritical(t, ts), UNCHANGED <<parentMap, cfg, now>>
  PROVE  IInv'
<1> DEFINE c        == cfg[t]
           s        == StateOf(t)
           counted  == CountFailure(s, ts)
           raised   == Raises(counted, c, ts)
           judged   == Judge(counted, c, ts)
           shadowed == IsAncestorAlarmed(WithState(t, judged), t)
           reminded == ReminderDue(judged, c, ts) /\ ~shadowed
           stored   == IF reminded THEN [judged EXCEPT !.lastReminderTime = ts] ELSE judged
<1>1. /\ Good(s, c) /\ c \in ConfigType /\ s \in TargetState
      /\ s.isAlarmed = Alarmed(states, t)
  BY StateOfGood
<1>2. /\ counted \in TargetState /\ ConsistentState(counted, c)
      /\ counted.windowErrors > 0 /\ counted.consecutiveSuccess = 0
      /\ counted.isAlarmed = s.isAlarmed
  BY <1>1, CountFailureGood DEF Good
<1>3. /\ Good(judged, c)
      /\ raised => judged.isAlarmed
      /\ counted.isAlarmed => judged.isAlarmed
  BY <1>1, <1>2, JudgeGood
<1>4. Good(stored, c) /\ stored.isAlarmed = judged.isAlarmed
  BY <1>1, <1>3, RemindedGood
<1>5. reminded => judged.isAlarmed
  BY DEF ReminderDue
<1>6. /\ states' = WithState(t, stored)
      /\ \/ raised /\ Notify(t, "critical")
         \/ reminded /\ Notify(t, "reminder")
         \/ UNCHANGED told
  BY Zenon DEF HandleCritical
<1> HIDE DEF stored, judged, counted, raised, reminded, shadowed
<1>7. CASE raised /\ Notify(t, "critical")
  BY <1>3, <1>4, <1>6, <1>7, StoreState DEF Words
<1>8. CASE reminded /\ Notify(t, "reminder")
  BY <1>4, <1>5, <1>6, <1>8, StoreState DEF Words
<1>9. CASE UNCHANGED told
  <2>1. Alarmed(states, t) => stored.isAlarmed
    BY <1>1, <1>2, <1>3, <1>4
  <2>2. "nothing" \in Words
    BY DEF Words
  <2>3. QED
    BY <1>4, <1>6, <1>9, <2>1, <2>2, StoreState
<1>10. QED
  BY <1>6, <1>7, <1>8, <1>9

(* A green or warning result: the streak ends; green counts, and may end   *)
(* the alarm.                                                              *)
LEMMA HandleSuccessOrWarningIInv ==
  ASSUME IInv, NEW t \in Target, NEW isWarning \in BOOLEAN,
         HandleSuccessOrWarning(t, isWarning), UNCHANGED <<parentMap, cfg, now>>
  PROVE  IInv'
<1> DEFINE c == cfg[t]
           o == StateOf(t)
           s == [o EXCEPT !.currentStreak = 0]
           ended(k) == [s EXCEPT !.consecutiveSuccess = k]
<1>1. /\ Good(o, c) /\ c \in ConfigType /\ o \in TargetState
      /\ o.isAlarmed = Alarmed(states, t)
  BY StateOfGood
<1>2. /\ s \in TargetState /\ s.isAlarmed = o.isAlarmed
      /\ s.consecutiveSuccess = o.consecutiveSuccess
  BY <1>1 DEF TargetState
<1>3. /\ o.consecutiveSuccess \in Nat /\ c.R \in Int
      /\ o.consecutiveSuccess > 0 => o.isAlarmed /\ o.consecutiveSuccess < c.R
  BY <1>1 DEF TargetState, ConfigType, Good, ConsistentState
<1>4. ASSUME NEW k \in Nat, k > 0 => o.isAlarmed /\ k < c.R,
             states' = WithState(t, ended(k)), UNCHANGED told
      PROVE  IInv'
  <2>1. Good(ended(k), c) /\ ended(k).isAlarmed = o.isAlarmed
    BY <1>1, <1>4, StreakEndedGood
  <2>2. "nothing" \in Words
    BY DEF Words
  <2> HIDE DEF ended
  <2>3. QED
    BY <1>1, <1>4, <2>1, <2>2, StoreState
<1>5. CASE states' = WithState(t, ended(0)) /\ UNCHANGED told
  <2> HIDE DEF ended
  <2>1. QED
    BY <1>4, <1>5
<1>6. CASE /\ ~s.isAlarmed /\ states' = WithState(t, s) /\ UNCHANGED told
  <2>1. s = ended(o.consecutiveSuccess)
    BY <1>2 DEF TargetState
  <2> HIDE DEF ended
  <2>2. QED
    BY <1>3, <1>4, <1>6, <2>1
<1>7. CASE /\ s.isAlarmed /\ ~(s.consecutiveSuccess + 1 >= c.R) /\ UNCHANGED told
           /\ states' = WithState(t, [s EXCEPT !.consecutiveSuccess = @ + 1])
  <2>1. states' = WithState(t, ended(o.consecutiveSuccess + 1))
    BY <1>2, <1>7, Zenon
  <2> HIDE DEF ended
  <2>2. QED
    BY <1>2, <1>3, <1>4, <1>7, <2>1
<1>8. CASE states' = WithState(t, Recovered(s)) /\ Notify(t, "recovery")
  <2>1. Good(Recovered(s), c)
    BY <1>1, <1>2, RecoveredGood
  <2>2. "recovery" \in Words
    BY DEF Words
  <2> HIDE DEF s
  <2>3. QED
    BY <1>8, <2>1, <2>2, StoreState
<1>9. QED
  <2>1. \/ isWarning /\ states' = WithState(t, ended(0)) /\ UNCHANGED told
        \/ ~s.isAlarmed /\ states' = WithState(t, s) /\ UNCHANGED told
        \/ /\ s.isAlarmed /\ ~(s.consecutiveSuccess + 1 >= c.R) /\ UNCHANGED told
           /\ states' = WithState(t, [s EXCEPT !.consecutiveSuccess = @ + 1])
        \/ states' = WithState(t, Recovered(s)) /\ Notify(t, "recovery")
    BY Zenon DEF HandleSuccessOrWarning, RecoveryComplete
  <2> HIDE DEF s, ended
  <2>2. QED
    BY <1>5, <1>6, <1>7, <1>8, <2>1

LEMMA ResetTargetIInv ==
  ASSUME IInv, NEW t \in Target, NEW c \in Config, ResetTarget(t, c)
  PROVE  IInv'
<1>1. /\ DOMAIN states' = DOMAIN states \ {t}
      /\ \A x \in DOMAIN states' : states'[x] = states[x]
      /\ \A x \in Target \ {t} : Alarmed(states', x) = Alarmed(states, x)
  BY DEF ResetTarget, Alarmed
<1>2. /\ cfg' \in [Target -> Config] /\ told' \in [Target -> Words]
      /\ told'[t] = "nothing"
      /\ \A x \in Target \ {t} : cfg'[x] = cfg[x] /\ told'[x] = told[x]
  BY DEF ResetTarget, IInv, TypeOK, Words
<1>3. states' \in [DOMAIN states' -> TargetState]
  BY <1>1 DEF ResetTarget, IInv, TypeOK
<1>4. TypeOK'
  BY <1>1, <1>2, <1>3 DEF ResetTarget, IInv, TypeOK
<1>5. \A x \in DOMAIN states' : Good(states'[x], cfg'[x])
  BY <1>1, <1>2 DEF IInv, TypeOK
<1>6. \A x \in Target : Silent(x)'
  BY <1>2 DEF IInv, Silent
<1>7. OperatorView'
  BY <1>1, <1>2 DEF IInv, OperatorView
<1>8. QED
  BY <1>4, <1>5, <1>6, <1>7 DEF ResetTarget, IInv

(* The invariant is inductive. *)
LEMMA NextIInv == IInv /\ [Next]_vars => IInv'
<1> SUFFICES ASSUME IInv, [Next]_vars PROVE IInv'
  OBVIOUS
<1>1. ASSUME NEW t \in Target, NEW p \in Probe, NEW ts \in Stamps, ProcessResult(t, p, ts)
      PROVE  IInv'
  <2>1. ts \in Nat \ {0} /\ UNCHANGED <<parentMap, cfg, now>>
    BY <1>1 DEF Stamps, ProcessResult, IInv, TypeOK
  <2>2. CASE IsCritical(cfg[t], p)
    BY <1>1, <2>1, <2>2, HandleCriticalIInv DEF ProcessResult
  <2>3. CASE ~IsCritical(cfg[t], p)
    <3>1. IsWarning(cfg[t], p) \in BOOLEAN
      BY DEF IsWarning
    <3>2. QED
      BY <1>1, <2>1, <2>3, <3>1, HandleSuccessOrWarningIInv DEF ProcessResult
  <2>4. QED
    BY <2>2, <2>3
<1>2. ASSUME NEW t \in Target, NEW c \in Config, ResetTarget(t, c)
      PROVE  IInv'
  BY <1>2, ResetTargetIInv
<1>3. ASSUME NEW pm \in Topology, UpdateTargets(pm)
      PROVE  IInv'
  <2>1. TypeOK'
    BY <1>3, ConstantsAssumption DEF UpdateTargets, IInv, TypeOK
  <2>2. QED
    BY <1>3, <2>1 DEF UpdateTargets, IInv, Silent, OperatorView, Alarmed
<1>4. CASE Tick
  <2>1. TypeOK' /\ now' > 0
    BY <1>4 DEF Tick, IInv, TypeOK
  <2>2. QED
    BY <1>4, <2>1 DEF Tick, IInv, Silent, OperatorView, Alarmed
<1>5. CASE UNCHANGED vars
  BY <1>5 DEF vars, IInv, TypeOK, Silent, OperatorView, Alarmed
<1>6. QED
  BY <1>1, <1>2, <1>3, <1>4, <1>5 DEF Next

-----------------------------------------------------------------------------
(* Every state the engine reaches satisfies the inductive invariant. *)
THEOREM EngineInvariant == Spec => []IInv
  BY InitIInv, NextIInv, PTL DEF Spec

(* The engine's maps keep their types. *)
THEOREM EngineTyped == Spec => []TypeOK
<1>1. IInv => TypeOK
  BY DEF IInv
<1>2. QED
  BY <1>1, EngineInvariant, PTL

(* handleCritical and handleSuccessOrWarning keep the counters of every    *)
(* target consistent, whatever the order of stamps and results.            *)
THEOREM EngineConsistent == Spec => []WindowConsistent
<1>1. IInv => WindowConsistent
  BY DEF IInv, WindowConsistent, Good
<1>2. QED
  BY <1>1, EngineInvariant, PTL

(* In immediate mode no satisfied rule is left without its alarm. *)
THEOREM EngineMissesNoAlarm == Spec => []NoMissedAlarm
<1>1. IInv => NoMissedAlarm
  BY DEF IInv, NoMissedAlarm, Good
<1>2. QED
  BY <1>1, EngineInvariant, PTL

(* The last word the operator heard fits the state of the target. *)
THEOREM EngineOperatorView == Spec => []OperatorView
<1>1. IInv => OperatorView
  BY DEF IInv
<1>2. QED
  BY <1>1, EngineInvariant, PTL

-----------------------------------------------------------------------------
(* The walk of IsAncestorAlarmed.  Its recursion is on the set of targets  *)
(* it has met; that there is a function which satisfies the equation is    *)
(* shown by taking the least one closed under it, and what that function   *)
(* finds by going to a largest set of targets met.                         *)

(* One round of the walk: what it finds when its recursive calls find f. *)
Round(f, sts) ==
  [visited \in SUBSET Target |->
     {current \in Target \ visited :
        Alarmed(sts, current) \/ ParentOf(current) \in f[visited \cup {current}]}]

IsWalk(f, sts) == f = Round(f, sts)

Walk(sts) == CHOOSE f : IsWalk(f, sts)

(* The operator of the model, in these terms. *)
LEMMA WalkOfAncestor ==
  ASSUME NEW sts, NEW t
  PROVE  IsAncestorAlarmed(sts, t) <=> ParentOf(t) \in Walk(sts)[{}]
  BY DEF IsAncestorAlarmed, Walk, IsWalk, Round

LEMMA RoundFinds ==
  ASSUME NEW f, NEW sts, NEW v \in SUBSET Target, NEW c
  PROVE  c \in Round(f, sts)[v] <=>
           /\ c \in Target \ v
           /\ Alarmed(sts, c) \/ ParentOf(c) \in f[v \cup {c}]
  BY DEF Round

LEMMA RoundTyped ==
  ASSUME NEW f, NEW sts
  PROVE  Round(f, sts) \in [SUBSET Target -> SUBSET Target]
  BY DEF Round

(* The more the recursive calls find, the more a round does. *)
LEMMA RoundMonotone ==
  ASSUME NEW sts, NEW f, NEW g, \A v \in SUBSET Target : f[v] \subseteq g[v],
         NEW v \in SUBSET Target
  PROVE  Round(f, sts)[v] \subseteq Round(g, sts)[v]
<1> SUFFICES ASSUME NEW c \in Round(f, sts)[v] PROVE c \in Round(g, sts)[v]
  OBVIOUS
<1>1. c \in Target \ v /\ (Alarmed(sts, c) \/ ParentOf(c) \in f[v \cup {c}])
  BY RoundFinds
<1>2. v \cup {c} \in SUBSET Target
  BY <1>1
<1>3. ParentOf(c) \in f[v \cup {c}] => ParentOf(c) \in g[v \cup {c}]
  BY <1>2
<1> QED BY <1>1, <1>3, RoundFinds

(* The recursion defines something. *)
LEMMA WalkExists ==
  ASSUME NEW sts
  PROVE  \E f \in [SUBSET Target -> SUBSET Target] : IsWalk(f, sts)
<1> DEFINE F == [SUBSET Target -> SUBSET Target]
           Closed(f) == \A v \in SUBSET Target : Round(f, sts)[v] \subseteq f[v]
           least == [v \in SUBSET Target |->
                       {c \in Target : \A f \in F : Closed(f) => c \in f[v]}]
<1>1. least \in F
  OBVIOUS
<1>2. ASSUME NEW f \in F, Closed(f), NEW v \in SUBSET Target
      PROVE  least[v] \subseteq f[v]
  BY <1>2
<1>3. ASSUME NEW v \in SUBSET Target, NEW c \in Target,
             \A f \in F : Closed(f) => c \in f[v]
      PROVE  c \in least[v]
  BY <1>3
<1> HIDE DEF least, F
<1>4. Closed(least)
  <2> SUFFICES ASSUME NEW v \in SUBSET Target, NEW c \in Round(least, sts)[v]
               PROVE  c \in least[v]
    OBVIOUS
  <2>1. c \in Target
    BY RoundFinds
  <2>2. ASSUME NEW f \in F, Closed(f)
        PROVE  c \in f[v]
    <3>1. Round(least, sts)[v] \subseteq Round(f, sts)[v]
      BY <1>2, <2>2, RoundMonotone
    <3>2. QED
      BY <2>2, <3>1
  <2>3. QED
    BY <1>3, <2>1, <2>2
<1>5. Round(least, sts) \in F
  BY RoundTyped DEF F
<1>6. Closed(Round(least, sts))
  BY <1>4, RoundMonotone
<1>7. \A v \in SUBSET Target : least[v] = Round(least, sts)[v]
  BY <1>2, <1>4, <1>5, <1>6
<1>8. least = Round(least, sts)
  BY <1>1, <1>5, <1>7 DEF F
<1>9. QED
  BY <1>1, <1>8 DEF IsWalk, F

LEMMA WalkIsWalk ==
  ASSUME NEW sts
  PROVE  IsWalk(Walk(sts), sts)
  BY WalkExists DEF Walk

(* The equation of the walk. *)
LEMMA WalkFinds ==
  ASSUME NEW sts, NEW v \in SUBSET Target, NEW c
  PROVE  c \in Walk(sts)[v] <=>
           /\ c \in Target \ v
           /\ Alarmed(sts, c) \/ ParentOf(c) \in Walk(sts)[v \cup {c}]
<1>1. Walk(sts) = Round(Walk(sts), sts)
  BY WalkIsWalk DEF IsWalk
<1> QED BY <1>1, RoundFinds, Zenon

-----------------------------------------------------------------------------
(* Induction on finite sets, in the form the walk needs. *)
LEMMA LargestExists ==
  ASSUME NEW Q \in SUBSET SUBSET Target, Q # {}
  PROVE  \E U \in Q : \A V \in Q : U \subseteq V => V = U
<1> DEFINE Rests == {Target \ U : U \in Q}
<1>1. IsWellFoundedOn(StrictSubsetOrdering(Target), SUBSET Target)
  BY TargetsFinite, FS_StrictSubsetOrderingWellFounded, FS_FiniteSubsetsOfFinite
<1>2. Rests \in SUBSET SUBSET Target /\ Rests # {}
  <2>1. PICK U \in Q : TRUE
    OBVIOUS
  <2>2. Target \ U \in Rests
    OBVIOUS
  <2>3. \A P \in Rests : P \in SUBSET Target
    OBVIOUS
  <2>4. QED
    BY <2>2, <2>3
<1> HIDE DEF Rests
<1>3. PICK R \in Rests : \A P \in Rests : ~(<<P, R>> \in StrictSubsetOrdering(Target))
  BY <1>1, <1>2, WFMin
<1>4. \A P \in Rests : ~(P \subseteq R /\ P # R)
  BY <1>2, <1>3 DEF StrictSubsetOrdering
<1>5. PICK U \in Q : R = Target \ U
  BY DEF Rests
<1>6. ASSUME NEW V \in Q, U \subseteq V
      PROVE  V = U
  <2>1. Target \ V \in Rests /\ Target \ V \subseteq R
    BY <1>5, <1>6 DEF Rests
  <2>2. Target \ V = Target \ U
    BY <1>4, <1>5, <2>1
  <2>3. QED
    BY <2>2
<1>7. QED
  BY <1>6

LEMMA ParentTyped ==
  ASSUME parentMap \in ParentMaps, NEW t
  PROVE  ParentOf(t) \in Target \cup {Root}
  BY DEF ParentMaps, ParentOf

(* Ancestors: closed under taking parents, and the smallest such set. *)
LEMMA AncestorsClosed ==
  ASSUME parentMap \in ParentMaps, NEW t, NEW x \in Board!Ancestors(t) \cup {t}
  PROVE  ParentOf(x) \in Board!Ancestors(t) \cup {Root}
<1> DEFINE p == ParentOf(x)
           closed(S) == \A y \in S \cup {t} : ParentOf(y) \in S \cup {Root}
<1>1. Board!Ancestors(t) = {a \in Target : \A S \in SUBSET Target : closed(S) => a \in S}
  BY DEF Board!Ancestors, Board!ParentOf, ParentOf
<1>2. p \in Target \cup {Root}
  BY ParentTyped
<1>3. ASSUME NEW S \in SUBSET Target, closed(S), p # Root
      PROVE  p \in S
  BY <1>1, <1>3
<1> HIDE DEF closed, p
<1>4. QED
  BY <1>1, <1>2, <1>3 DEF p

LEMMA AncestorsLeast ==
  ASSUME NEW t, NEW S \in SUBSET Target,
         \A y \in S \cup {t} : ParentOf(y) \in S \cup {Root}
  PROVE  Board!Ancestors(t) \subseteq S
  BY DEF Board!Ancestors, Board!ParentOf, ParentOf

(* The walk finds an alarm exactly if some ancestor is in alarm, whatever  *)
(* the parent map, cycles and missing entries included, and although the   *)
(* walk gives up at the first target it meets twice: isAncestorAlarmed.    *)
THEOREM WalkFindsAncestors ==
  ASSUME parentMap \in ParentMaps, NEW sts, NEW t
  PROVE  IsAncestorAlarmed(sts, t) <=>
           \E a \in Board!Ancestors(t) : Alarmed(sts, a)
<1> DEFINE anc == Board!Ancestors(t)
           walk == Walk(sts)
<1>1. anc \subseteq Target
  BY DEF Board!Ancestors
<1>2. \A x \in anc \cup {t} : ParentOf(x) \in anc \cup {Root}
  BY AncestorsClosed
<1>3. \A S \in SUBSET Target :
        (\A y \in S \cup {t} : ParentOf(y) \in S \cup {Root}) => anc \subseteq S
  BY AncestorsLeast
<1>4. \A v \in SUBSET Target : \A c :
        c \in walk[v] <=> /\ c \in Target \ v
                          /\ Alarmed(sts, c) \/ ParentOf(c) \in walk[v \cup {c}]
  BY WalkFinds
<1>5. \A x : ParentOf(x) \in Target \cup {Root}
  BY ParentTyped
<1> HIDE DEF anc, walk
(* A largest set of targets met, at which the walk stands on an ancestor  *)
(* that finds an alarm: the step after it has met one more.               *)
<1>6. ASSUME ParentOf(t) \in walk[{}], \A a \in anc : ~Alarmed(sts, a)
      PROVE  FALSE
  <2> DEFINE Q == {v \in SUBSET Target : \E c \in anc : c \in walk[v]}
  <2>1. {} \in Q
    <3>1. {} \in SUBSET Target
      OBVIOUS
    <3>2. ParentOf(t) \in Target
      BY <1>4, <1>6, <3>1
    <3>3. ParentOf(t) \in anc
      BY <1>2, <3>2, ConstantsAssumption
    <3>4. QED
      BY <1>6, <3>1, <3>3
  <2>2. PICK v \in Q : \A w \in Q : v \subseteq w => w = v
    <3> HIDE DEF Q
    <3>1. Q \in SUBSET SUBSET Target /\ Q # {}
      BY <2>1 DEF Q
    <3>2. QED
      BY <3>1, LargestExists
  <2>3. PICK c \in anc : c \in walk[v]
    OBVIOUS
  <2>4. c \in Target \ v /\ ParentOf(c) \in walk[v \cup {c}]
    BY <1>4, <1>6, <2>3
  <2>5. v \cup {c} \in SUBSET Target
    BY <2>4
  <2>6. ParentOf(c) \in anc
    <3>1. ParentOf(c) \in Target
      BY <1>4, <2>4, <2>5
    <3>2. ParentOf(c) \in anc \cup {Root}
      BY <1>2
    <3>3. QED
      BY <3>1, <3>2, ConstantsAssumption
  <2>7. v \cup {c} \in Q
    BY <2>4, <2>5, <2>6
  <2>8. QED
    BY <2>2, <2>4, <2>7
(* A largest set of targets met without an alarm: the next one is met      *)
(* again or is the root, so the set holds every ancestor.                  *)
<1>7. ASSUME ParentOf(t) \notin walk[{}], NEW a \in anc, Alarmed(sts, a)
      PROVE  FALSE
  <2> DEFINE Cut(v, c) == /\ c \notin walk[v]
                          /\ \A x \in v : ~Alarmed(sts, x)
                          /\ \A x \in v \cup {t} : ParentOf(x) \in v \cup {c, Root}
             Q == {v \in SUBSET Target : \E c \in Target \cup {Root} : Cut(v, c)}
  <2>1. {} \in Q
    BY <1>5, <1>7
  <2>2. PICK v \in Q : \A w \in Q : v \subseteq w => w = v
    <3> HIDE DEF Q
    <3>1. Q \in SUBSET SUBSET Target /\ Q # {}
      BY <2>1 DEF Q
    <3>2. QED
      BY <3>1, LargestExists
  <2>3. PICK c \in Target \cup {Root} : Cut(v, c)
    OBVIOUS
  <2>4. CASE c \in v \cup {Root}
    <3>1. \A x \in v \cup {t} : ParentOf(x) \in v \cup {Root}
      BY <2>3, <2>4
    <3>2. anc \subseteq v
      BY <1>3, <3>1
    <3>3. QED
      BY <1>7, <2>3, <3>2
  <2>5. CASE c \in Target \ v
    <3>1. v \cup {c} \in SUBSET Target
      BY <2>5
    <3>2. ~Alarmed(sts, c) /\ ParentOf(c) \notin walk[v \cup {c}]
      BY <1>4, <2>3, <2>5
    <3>3. Cut(v \cup {c}, ParentOf(c))
      BY <2>3, <3>2
    <3>4. v \cup {c} \in Q
      BY <1>5, <3>1, <3>3
    <3>5. QED
      BY <2>2, <2>5, <3>4
  <2>6. QED
    BY <2>4, <2>5
<1>8. QED
  BY <1>6, <1>7, WalkOfAncestor DEF anc, walk

-----------------------------------------------------------------------------
(* The engine implements AlarmBoard. *)
Alarms(sts) == {x \in Target : Alarmed(sts, x)}

(* Storing a state of t decides about t and nobody else. *)
LEMMA StoredAlarms ==
  ASSUME IInv, NEW t \in Target, NEW n, n.isAlarmed \in BOOLEAN
  PROVE  /\ n.isAlarmed => Alarms(WithState(t, n)) = Alarms(states) \cup {t}
         /\ ~n.isAlarmed => Alarms(WithState(t, n)) = Alarms(states) \ {t}
<1> DEFINE w == WithState(t, n)
<1>1. DOMAIN w = DOMAIN states \cup {t} /\ w[t] = n
      /\ \A x \in DOMAIN states \ {t} : w[x] = states[x]
  BY DEF WithState
<1> HIDE DEF w
<1>2. \A x \in Target \ {t} : Alarmed(w, x) <=> Alarmed(states, x)
  BY <1>1 DEF Alarmed
<1>3. Alarmed(w, t) <=> n.isAlarmed
  BY <1>1 DEF Alarmed
<1>4. QED
  BY <1>2, <1>3 DEF Alarms, w

LEMMA ShadowIsAncestorAlarmed ==
  ASSUME IInv, NEW t \in Target, NEW sts
  PROVE  Board!Shadowed(t, Alarms(sts)) <=> IsAncestorAlarmed(sts, t)
<1>1. IsAncestorAlarmed(sts, t) <=> \E a \in Board!Ancestors(t) : Alarmed(sts, a)
  BY WalkFindsAncestors DEF IInv, TypeOK
<1>2. Board!Ancestors(t) \subseteq Target
  BY DEF Board!Ancestors
<1>3. QED
  BY <1>1, <1>2 DEF Board!Shadowed, Alarms

LEMMA NoReminderAtOnce ==
  ASSUME NEW ri \in Int, ri > 0, NEW m \in Nat \ {0}, NEW ts \in Nat
  PROVE  ~(ts - ts >= ri * m)
<1>1. ri * m > 0
  BY Z3
<1>2. QED
  BY <1>1

(* The step that raises the alarm is not due for a reminder: the reminder *)
(* clock was just set, and RI is positive when reminders are on.           *)
LEMMA JudgeAlarms ==
  ASSUME NEW s \in TargetState, NEW c \in ConfigType, NEW ts \in Nat \ {0}
  PROVE  /\ Raises(s, c, ts) => /\ ~s.isAlarmed /\ Judge(s, c, ts).isAlarmed
                                /\ ~ReminderDue(Judge(s, c, ts), c, ts)
         /\ ~Raises(s, c, ts) => Judge(s, c, ts).isAlarmed = s.isAlarmed
<1>1. ASSUME Raises(s, c, ts)
      PROVE  /\ ~s.isAlarmed /\ Judge(s, c, ts).isAlarmed
             /\ ~ReminderDue(Judge(s, c, ts), c, ts)
  <2>1. ~WindowExpired(s, c, ts) /\ ~s.isAlarmed
    BY <1>1 DEF Raises, ShouldAlarm, WindowExpired
  <2>2. Judge(s, c, ts) = [s EXCEPT !.isAlarmed = TRUE, !.lastReminderTime = ts]
    BY <1>1, <2>1 DEF Judge
  <2>3. Judge(s, c, ts).isAlarmed /\ Judge(s, c, ts).lastReminderTime = ts
    BY <2>2 DEF TargetState
  <2>4. c.RI \in Int
    BY DEF ConfigType
  <2>5. c.RI > 0 => ~(ts - ts >= c.RI * Minute)
    BY <2>4, NoReminderAtOnce, ConstantsAssumption
  <2>6. ~ReminderDue(Judge(s, c, ts), c, ts)
    BY <2>3, <2>5, Zenon DEF ReminderDue
  <2>7. QED
    BY <2>1, <2>3, <2>6
<1>2. ASSUME ~Raises(s, c, ts)
      PROVE  Judge(s, c, ts).isAlarmed = s.isAlarmed
  <2>1. CASE WindowExpired(s, c, ts)
    <3>1. Judge(s, c, ts) = RestartWindow(s, ts)
      BY <1>2, <2>1 DEF Judge
    <3>2. QED
      BY <3>1 DEF RestartWindow, TargetState
  <2>2. CASE ~WindowExpired(s, c, ts)
    BY <1>2, <2>2 DEF Judge
  <2>3. QED
    BY <2>1, <2>2
<1>3. QED
  BY <1>1, <1>2

(* Action by action. *)
LEMMA BoardUnchanged ==
  ASSUME Alarms(states)' = Alarms(states), UNCHANGED <<parentMap, cfg, told>>
  PROVE  UNCHANGED Board!vars
  BY DEF Board!vars, Alarms

LEMMA NotifyTells ==
  ASSUME NEW t \in Target, NEW word, Notify(t, word)
  PROVE  Board!Tell(t, word)
  BY DEF Notify, Board!Tell

(* A critical result raises, reminds, or shows nothing. *)
LEMMA HandleCriticalMaps ==
  ASSUME IInv, NEW t \in Target, NEW ts \in Nat \ {0},
         HandleCritical(t, ts), UNCHANGED <<parentMap, cfg, now>>
  PROVE  Board!Raise(t) \/ Board!Remind(t) \/ UNCHANGED Board!vars
<1> DEFINE c        == cfg[t]
           s        == StateOf(t)
           counted  == CountFailure(s, ts)
           raised   == Raises(counted, c, ts)
           judged   == Judge(counted, c, ts)
           shadowed == IsAncestorAlarmed(WithState(t, judged), t)
           reminded == ReminderDue(judged, c, ts) /\ ~shadowed
           stored   == IF reminded THEN [judged EXCEPT !.lastReminderTime = ts] ELSE judged
<1>1. /\ Good(s, c) /\ c \in ConfigType /\ s \in TargetState
      /\ s.isAlarmed = Alarmed(states, t)
  BY StateOfGood
<1>2. /\ counted \in TargetState /\ ConsistentState(counted, c)
      /\ counted.windowErrors > 0 /\ counted.consecutiveSuccess = 0
      /\ counted.isAlarmed = s.isAlarmed
  BY <1>1, CountFailureGood DEF Good
<1>3. /\ raised => ~counted.isAlarmed /\ judged.isAlarmed /\ ~ReminderDue(judged, c, ts)
      /\ ~raised => judged.isAlarmed = counted.isAlarmed
  BY <1>1, <1>2, JudgeAlarms
<1>4. Good(judged, c)
  BY <1>1, <1>2, JudgeGood
<1>5. Good(stored, c) /\ stored.isAlarmed = judged.isAlarmed
  BY <1>1, <1>4, RemindedGood
<1>6. /\ states' = WithState(t, stored)
      /\ \/ raised /\ ~shadowed /\ Notify(t, "critical")
         \/ reminded /\ Notify(t, "reminder")
         \/ ~(raised /\ ~shadowed) /\ ~reminded /\ UNCHANGED told
  BY Zenon DEF HandleCritical
<1>7. judged.isAlarmed \in BOOLEAN /\ stored.isAlarmed \in BOOLEAN
  BY <1>4, <1>5 DEF Good, TargetState
<1>8. Board!Shadowed(t, Alarms(WithState(t, judged))) <=> shadowed
  BY ShadowIsAncestorAlarmed
<1>9. reminded => judged.isAlarmed /\ ReminderDue(judged, c, ts) /\ ~shadowed
  BY DEF ReminderDue
<1> HIDE DEF stored, judged, counted, raised, reminded, shadowed
<1>10. Alarms(WithState(t, stored)) = Alarms(WithState(t, judged))
  BY <1>5, <1>7, StoredAlarms
<1>11. Alarms(states)' = Alarms(WithState(t, stored))
  BY <1>6 DEF Alarms
<1>12. t \in Alarms(states) <=> Alarmed(states, t)
  BY DEF Alarms
<1>13. CASE raised
  <2>1. Alarms(states)' = Alarms(states) \cup {t} /\ t \notin Alarms(states)
    BY <1>1, <1>2, <1>3, <1>7, <1>10, <1>11, <1>12, <1>13, StoredAlarms
  <2>2. IF Board!Shadowed(t, Alarms(states)') THEN UNCHANGED told ELSE Board!Tell(t, "critical")
    <3>1. Board!Shadowed(t, Alarms(states)') <=> shadowed
      BY <1>8, <1>10, <1>11
    <3>2. ~reminded
      BY <1>3, <1>9, <1>13
    <3>3. QED
      BY <1>6, <1>13, <3>1, <3>2, NotifyTells
  <2>3. Board!Raise(t)
    BY <2>1, <2>2 DEF Board!Raise, Alarms
  <2>4. QED
    BY <2>3
<1>14. CASE ~raised
  <2>1. Alarms(states)' = Alarms(states)
    BY <1>1, <1>2, <1>3, <1>7, <1>10, <1>11, <1>12, <1>14, StoredAlarms
  <2>2. CASE reminded
    <3>1. Board!Tell(t, "reminder")
      BY <1>6, <1>14, <2>2, NotifyTells
    <3>2. t \in Alarms(states) /\ ~Board!Shadowed(t, Alarms(states))
      BY <1>1, <1>2, <1>3, <1>8, <1>9, <1>10, <1>11, <1>12, <1>14, <2>1, <2>2
    <3>3. Board!Remind(t)
      BY <2>1, <3>1, <3>2 DEF Board!Remind, Alarms
    <3>4. QED
      BY <3>3
  <2>3. CASE ~reminded
    BY <1>6, <1>14, <2>1, <2>3, BoardUnchanged
  <2>4. QED
    BY <2>2, <2>3
<1>15. QED
  BY <1>13, <1>14

(* Any other result recovers or shows nothing. *)
LEMMA HandleSuccessOrWarningMaps ==
  ASSUME IInv, NEW t \in Target, NEW isWarning \in BOOLEAN,
         HandleSuccessOrWarning(t, isWarning), UNCHANGED <<parentMap, cfg, now>>
  PROVE  Board!Recover(t) \/ UNCHANGED Board!vars
<1> DEFINE o == StateOf(t)
           s == [o EXCEPT !.currentStreak = 0]
           ended(k) == [s EXCEPT !.consecutiveSuccess = k]
<1>1. o \in TargetState /\ o.isAlarmed = Alarmed(states, t)
  BY StateOfGood
<1>2. s \in TargetState /\ s.isAlarmed = o.isAlarmed
  BY <1>1 DEF TargetState
<1>3. \A k : ended(k).isAlarmed = o.isAlarmed
  BY <1>1 DEF TargetState
<1>4. o.isAlarmed \in BOOLEAN /\ s.isAlarmed \in BOOLEAN
  BY <1>1, <1>2 DEF TargetState
<1>5. Recovered(s).isAlarmed = FALSE
  BY <1>2 DEF Recovered, TargetState
<1>6. t \in Alarms(states) <=> o.isAlarmed
  BY <1>1 DEF Alarms
<1>7. \/ \E k : states' = WithState(t, ended(k)) /\ UNCHANGED told
      \/ states' = WithState(t, s) /\ UNCHANGED told
      \/ s.isAlarmed /\ states' = WithState(t, Recovered(s)) /\ Notify(t, "recovery")
  <2>1. \/ states' = WithState(t, ended(0)) /\ UNCHANGED told
        \/ states' = WithState(t, s) /\ UNCHANGED told
        \/ states' = WithState(t, [s EXCEPT !.consecutiveSuccess = @ + 1]) /\ UNCHANGED told
        \/ s.isAlarmed /\ states' = WithState(t, Recovered(s)) /\ Notify(t, "recovery")
    BY Zenon DEF HandleSuccessOrWarning
  <2>2. states' = WithState(t, [s EXCEPT !.consecutiveSuccess = @ + 1])
          => states' = WithState(t, ended(s.consecutiveSuccess + 1))
    BY Zenon
  <2> HIDE DEF ended, s
  <2>3. QED
    BY <2>1, <2>2
<1> HIDE DEF ended, s
<1>8. ASSUME NEW n, n.isAlarmed = o.isAlarmed, states' = WithState(t, n)
      PROVE  Alarms(states)' = Alarms(states)
  <2>1. Alarms(WithState(t, n)) = Alarms(states)
    BY <1>4, <1>6, <1>8, StoredAlarms
  <2>2. QED
    BY <1>8, <2>1 DEF Alarms
<1>9. ASSUME s.isAlarmed, states' = WithState(t, Recovered(s)), Notify(t, "recovery")
      PROVE  Board!Recover(t)
  <2>1. Alarms(WithState(t, Recovered(s))) = Alarms(states) \ {t}
    <3>1. Recovered(s).isAlarmed \in BOOLEAN /\ ~Recovered(s).isAlarmed
      BY <1>5
    <3>2. QED
      BY <3>1, StoredAlarms
  <2>2. Alarms(states)' = Alarms(states) \ {t}
    BY <1>9, <2>1 DEF Alarms
  <2>3. t \in Alarms(states)
    BY <1>2, <1>6, <1>9
  <2>4. Board!Tell(t, "recovery")
    BY <1>9, NotifyTells
  <2>5. QED
    BY <2>2, <2>3, <2>4 DEF Board!Recover, Alarms
<1>10. QED
  BY <1>2, <1>3, <1>7, <1>8, <1>9, BoardUnchanged

LEMMA ResetTargetMaps ==
  ASSUME IInv, NEW t \in Target, NEW c \in Config, ResetTarget(t, c)
  PROVE  Board!Forget(t)
<1> DEFINE audience == {x \in Target : Recipients(cfg[x]) # {}}
<1>1. \A x \in Target : Alarmed(states', x) <=> Alarmed(states, x) /\ x # t
  BY DEF ResetTarget, Alarmed
<1>2. Alarms(states)' = Alarms(states) \ {t}
  BY <1>1 DEF Alarms
<1>3. \A x \in Target \ {t} : cfg'[x] = cfg[x]
  BY DEF ResetTarget, IInv, TypeOK
<1>4. audience' \in {audience \cup {t}, audience \ {t}}
  BY <1>3
<1>5. QED
  BY <1>2, <1>4 DEF ResetTarget, Board!Forget, Alarms

LEMMA InitMaps == Init => Board!Init
  BY DEF Init, Board!Init, Alarmed

LEMMA NextMaps == IInv /\ [Next]_vars => [Board!Next]_Board!vars
<1> SUFFICES ASSUME IInv, [Next]_vars PROVE [Board!Next]_Board!vars
  OBVIOUS
<1>1. ASSUME NEW t \in Target, NEW p \in Probe, NEW ts \in Stamps, ProcessResult(t, p, ts)
      PROVE  \/ Board!Raise(t) \/ Board!Remind(t) \/ Board!Recover(t)
             \/ UNCHANGED Board!vars
  <2>1. ts \in Nat \ {0} /\ UNCHANGED <<parentMap, cfg, now>>
    BY <1>1 DEF Stamps, ProcessResult, IInv, TypeOK
  <2>2. CASE IsCritical(cfg[t], p)
    BY <1>1, <2>1, <2>2, HandleCriticalMaps DEF ProcessResult
  <2>3. CASE ~IsCritical(cfg[t], p)
    <3>1. IsWarning(cfg[t], p) \in BOOLEAN
      BY DEF IsWarning
    <3>2. QED
      BY <1>1, <2>1, <2>3, <3>1, HandleSuccessOrWarningMaps DEF ProcessResult
  <2>4. QED
    BY <2>2, <2>3
<1>2. ASSUME NEW t \in Target, NEW c \in Config, ResetTarget(t, c)
      PROVE  Board!Forget(t)
  BY <1>2, ResetTargetMaps
<1>3. ASSUME NEW pm \in Topology, UpdateTargets(pm)
      PROVE  Board!Rewire
  BY <1>3, ConstantsAssumption DEF UpdateTargets, Board!Rewire, ParentMaps
<1>4. ASSUME UNCHANGED <<states, parentMap, cfg, told>>
      PROVE  UNCHANGED Board!vars
  BY <1>4, BoardUnchanged DEF Alarms
<1>5. QED
  <2>1. Tick => UNCHANGED <<states, parentMap, cfg, told>>
    BY DEF Tick
  <2>2. UNCHANGED vars => UNCHANGED <<states, parentMap, cfg, told>>
    BY DEF vars

  <2>3. QED
    BY <1>1, <1>2, <1>3, <1>4, <2>1, <2>2 DEF Next, Board!Next

(* The engine keeps the promise of AlarmBoard: a target goes into alarm    *)
(* and the operator hears of it unless an ancestor is in alarm; reminders  *)
(* only for root causes; leaving the alarm always tells the operator.      *)
THEOREM EngineImplementsBoard == Spec => ImplementsBoard
<1>1. Spec => []IInv
  BY EngineInvariant
<1>2. QED
  BY <1>1, InitMaps, NextMaps, PTL DEF Spec, ImplementsBoard, Board!Spec
=============================================================================
