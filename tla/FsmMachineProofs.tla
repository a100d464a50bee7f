-------------------------- MODULE FsmMachineProofs --------------------------
(***************************************************************************)
(* What holds of fsm.Machine for any set of rules, any latencies and any   *)
(* length of the clock.                                                    *)
(***************************************************************************)
EXTENDS FsmMachine, TLAPS, FiniteSetTheorems

(* The inductive invariant: the properties, and what NewMachine sees to. *)
Rules == config.N >= 1 /\ config.R >= 1 /\ \E c \in Config : config.T = c.T

Clocked == now >= 1

Inv == TypeOK /\ Rules /\ Clocked /\ CountersOfPhase

-----------------------------------------------------------------------------
(* About the operators of the model. *)
LEMMA ResetResets ==
  ASSUME NEW s \in MachineState
  PROVE  LET r == ResetFailureTracking(s)
         IN  /\ r \in MachineState
             /\ r.State = s.State /\ r.recoveryStreak = s.recoveryStreak
             /\ r.windowStartTime = 0 /\ r.failuresCount = 0
             /\ r.currentStreak = 0 /\ r.maxStreakInWin = 0
BY DEF MachineState, ResetFailureTracking, ZeroTime

LEMMA CountCounts ==
  ASSUME NEW s \in MachineState, NEW failure \in BOOLEAN, now \in Nat
  PROVE  LET r == Count(s, failure)
         IN  /\ r \in MachineState
             /\ r.State = s.State /\ r.recoveryStreak = s.recoveryStreak
             /\ r.windowStartTime = IF failure /\ s.windowStartTime = 0 THEN now ELSE s.windowStartTime
             /\ r.failuresCount = IF failure THEN s.failuresCount + 1 ELSE s.failuresCount
             /\ r.currentStreak = IF failure THEN s.currentStreak + 1 ELSE 0
             /\ failure => r.maxStreakInWin >= r.currentStreak
             /\ r.maxStreakInWin >= s.maxStreakInWin
             /\ r.maxStreakInWin \in {s.maxStreakInWin, r.currentStreak}
<1>1. CASE failure
  <2>1. PICK most \in Nat : /\ most = Larger(s.maxStreakInWin, s.currentStreak + 1)
                            /\ most >= s.currentStreak + 1 /\ most >= s.maxStreakInWin
                            /\ most \in {s.maxStreakInWin, s.currentStreak + 1}
    BY DEF Larger, MachineState
  <2>2. PICK start \in Nat : start = IF s.windowStartTime = 0 THEN now ELSE s.windowStartTime
    BY DEF MachineState
  <2>3. Count(s, failure) = [s EXCEPT !.windowStartTime = start,
                                      !.failuresCount = s.failuresCount + 1,
                                      !.currentStreak = s.currentStreak + 1,
                                      !.maxStreakInWin = most]
    BY <1>1, <2>1, <2>2 DEF Count, ZeroTime
  <2>4. s.failuresCount + 1 \in Nat /\ s.currentStreak + 1 \in Nat
    BY DEF MachineState
  <2>5. /\ Count(s, failure) \in MachineState
        /\ Count(s, failure).State = s.State
        /\ Count(s, failure).recoveryStreak = s.recoveryStreak
        /\ Count(s, failure).windowStartTime = start
        /\ Count(s, failure).failuresCount = s.failuresCount + 1
        /\ Count(s, failure).currentStreak = s.currentStreak + 1
        /\ Count(s, failure).maxStreakInWin = most
    BY <2>3, <2>4 DEF MachineState
  <2> QED
    BY <1>1, <2>1, <2>2, <2>5
<1>2. CASE ~failure
  BY <1>2 DEF MachineState, Count, ZeroTime
<1> QED
  BY <1>1, <1>2

LEMMA FiresCritical ==
  ASSUME NEW s \in MachineState
  PROVE  LET r == FireCritical(s)
         IN  /\ r \in MachineState
             /\ r.State = "CRITICAL" /\ r.recoveryStreak = s.recoveryStreak
             /\ r.windowStartTime = 0 /\ r.failuresCount = 0
             /\ r.currentStreak = 0 /\ r.maxStreakInWin = 0
<1>1. [s EXCEPT !.State = "CRITICAL"] \in MachineState
  BY DEF MachineState
<1>2. /\ [s EXCEPT !.State = "CRITICAL"].State = "CRITICAL"
      /\ [s EXCEPT !.State = "CRITICAL"].recoveryStreak = s.recoveryStreak
  BY DEF MachineState
<1> QED
  BY <1>1, <1>2, ResetResets DEF FireCritical

LEMMA FiresRecovery ==
  ASSUME NEW s \in MachineState
  PROVE  LET r == FireRecovery(s)
         IN  /\ r \in MachineState
             /\ r.State = "GREEN" /\ r.recoveryStreak = 0
             /\ r.windowStartTime = 0 /\ r.failuresCount = 0
             /\ r.currentStreak = 0 /\ r.maxStreakInWin = 0
<1>1. [s EXCEPT !.State = "GREEN", !.recoveryStreak = 0] \in MachineState
  BY DEF MachineState
<1>2. /\ [s EXCEPT !.State = "GREEN", !.recoveryStreak = 0].State = "GREEN"
      /\ [s EXCEPT !.State = "GREEN", !.recoveryStreak = 0].recoveryStreak = 0
  BY DEF MachineState
<1> QED
  BY <1>1, <1>2, ResetResets DEF FireRecovery

LEMMA AppendTyped ==
  ASSUME NEW S, NEW s \in Seq(S), NEW x \in S
  PROVE  <<>> \in Seq(S) /\ Append(s, x) \in Seq(S)
OBVIOUS

-----------------------------------------------------------------------------
(* Every variable keeps its type, and the rule its positive N and R. *)
LEMMA FsmInit == Init => Inv
<1> USE FsmAssumption DEF FsmAssumption
<1> SUFFICES ASSUME Init PROVE Inv
  OBVIOUS
<1>1. PICK c \in Config : config = NewConfig(c)
  BY DEF Init
<1>2. c \in [T : Int, N : Int, C : BOOLEAN, R : Int]
  OBVIOUS
<1>3. /\ config \in [T : Int, N : Int, C : BOOLEAN, R : Int]
      /\ config.N >= 1 /\ config.R >= 1 /\ config.T = c.T
  <2>1. PICK n \in Int : n = (IF c.N <= 0 THEN 1 ELSE c.N) /\ n >= 1
    BY <1>2
  <2>2. PICK r \in Int : r = (IF c.R <= 0 THEN 1 ELSE c.R) /\ r >= 1
    BY <1>2
  <2>3. config = [c EXCEPT !.N = n, !.R = r]
    BY <1>1, <2>1, <2>2 DEF NewConfig
  <2> QED
    BY <1>2, <2>1, <2>2, <2>3
<1>4. NewMachine \in MachineState
  BY DEF NewMachine, MachineState, ZeroTime
<1>5. TypeOK
  <2>1. hist \in Seq([bad : BOOLEAN, ts : Nat]) /\ now \in Nat
    BY DEF Init
  <2> QED
    BY <1>3, <1>4, <2>1 DEF Init, TypeOK
<1>6. CountersOfPhase
  BY <1>3 DEF Init, CountersOfPhase, NewMachine, ZeroTime
<1> QED
  BY <1>3, <1>5, <1>6 DEF Init, Inv, Rules, Clocked

(* What a check leads to, in the terms of the invariant. *)
LEMMA GreenBecomes ==
  ASSUME Inv, NEW failure \in BOOLEAN, TransitionGreen(failure)
  PROVE  /\ m.State = "GREEN" /\ m' \in MachineState
         /\ fired' \in {"alert", "recover", "none"}
         /\ \/ /\ m'.State = "CRITICAL" /\ m'.windowStartTime = 0 /\ m'.failuresCount = 0
               /\ m'.currentStreak = 0 /\ m'.maxStreakInWin = 0 /\ m'.recoveryStreak = 0
               /\ hist' = <<>>
            \/ /\ m'.State = "GREEN" /\ m'.recoveryStreak = 0
               /\ hist' = Append(hist, [bad |-> failure, ts |-> now])
               /\ m'.windowStartTime # 0 <=> m'.failuresCount > 0
               /\ m'.currentStreak <= m'.maxStreakInWin /\ m'.maxStreakInWin <= m'.failuresCount
               /\ m'.windowStartTime # 0 =>
                    IF config.T = 0 THEN ~ConditionMet(m')
                                    ELSE now - m'.windowStartTime < IF config.T > 0 THEN config.T ELSE 1
<1> DEFINE s == Count(m, failure)
           check == [bad |-> failure, ts |-> now]
<1>1. /\ m \in MachineState /\ now \in Nat /\ now >= 1 /\ config.T \in Int
      /\ m.State = "GREEN" /\ m.recoveryStreak = 0
      /\ m.windowStartTime # 0 <=> m.failuresCount > 0
      /\ m.currentStreak <= m.maxStreakInWin /\ m.maxStreakInWin <= m.failuresCount
      /\ m.currentStreak \in Nat /\ m.maxStreakInWin \in Nat /\ m.failuresCount \in Nat
      /\ m.windowStartTime \in Nat
  BY DEF Inv, TypeOK, Clocked, CountersOfPhase, TransitionGreen, MachineState, ZeroTime
<1>2. /\ s \in MachineState /\ s.State = "GREEN" /\ s.recoveryStreak = 0
      /\ s.windowStartTime = IF failure /\ m.windowStartTime = 0 THEN now ELSE m.windowStartTime
      /\ s.failuresCount = IF failure THEN m.failuresCount + 1 ELSE m.failuresCount
      /\ s.currentStreak = IF failure THEN m.currentStreak + 1 ELSE 0
      /\ failure => s.maxStreakInWin >= s.currentStreak
      /\ s.maxStreakInWin >= m.maxStreakInWin
      /\ s.maxStreakInWin \in {m.maxStreakInWin, s.currentStreak}
  BY <1>1, CountCounts
<1>3. /\ s.windowStartTime # 0 <=> s.failuresCount > 0
      /\ s.currentStreak <= s.maxStreakInWin /\ s.maxStreakInWin <= s.failuresCount
  BY <1>1, <1>2
<1>4. ASSUME NEW r, NEW result \in {"alert", "recover", "none"}, Becomes(r, result, check)
      PROVE  /\ m' = r /\ fired' \in {"alert", "recover", "none"}
             /\ hist' = IF r.State # "GREEN" THEN <<>> ELSE Append(hist, check)
  BY <1>1, <1>4 DEF Becomes
<1>5. CASE AlarmDue(s) /\ Becomes(FireCritical(s), "alert", check)
  <2>1. /\ m' = FireCritical(s) /\ fired' \in {"alert", "recover", "none"}
        /\ hist' = IF FireCritical(s).State # "GREEN" THEN <<>> ELSE Append(hist, check)
    BY <1>4, <1>5
  <2> HIDE DEF s
  <2>2. /\ FireCritical(s) \in MachineState
        /\ FireCritical(s).State = "CRITICAL" /\ FireCritical(s).recoveryStreak = 0
        /\ FireCritical(s).windowStartTime = 0 /\ FireCritical(s).failuresCount = 0
        /\ FireCritical(s).currentStreak = 0 /\ FireCritical(s).maxStreakInWin = 0
    BY <1>2, FiresCritical
  <2> QED
    BY <1>1, <2>1, <2>2
<1>6. CASE WindowExpired(s) /\ Becomes(Reseed(s, failure), "none", check)
  <2>1. /\ m' = Reseed(s, failure) /\ fired' \in {"alert", "recover", "none"}
        /\ hist' = IF Reseed(s, failure).State # "GREEN" THEN <<>> ELSE Append(hist, check)
    BY <1>4, <1>6
  <2>2. config.T # 0
    BY <1>6 DEF WindowExpired
  <2> HIDE DEF s
  <2> DEFINE r == ResetFailureTracking(s)
  <2>3. /\ r \in MachineState /\ r.State = "GREEN" /\ r.recoveryStreak = 0
        /\ r.windowStartTime = 0 /\ r.failuresCount = 0
        /\ r.currentStreak = 0 /\ r.maxStreakInWin = 0
    BY <1>2, ResetResets
  <2>4. Reseed(s, failure) = Count(r, failure)
    BY DEF Reseed
  <2> HIDE DEF r
  <2> DEFINE n == Count(r, failure)
  <2>5. /\ n \in MachineState /\ n.State = "GREEN" /\ n.recoveryStreak = 0
        /\ n.windowStartTime = IF failure THEN now ELSE 0
        /\ n.failuresCount = IF failure THEN 1 ELSE 0
        /\ n.currentStreak = IF failure THEN 1 ELSE 0
        /\ failure => n.maxStreakInWin >= n.currentStreak
        /\ n.maxStreakInWin \in {0, n.currentStreak} /\ n.maxStreakInWin >= 0
    BY <1>1, <2>3, CountCounts
  <2>6. m' = n
    BY <2>1, <2>4
  <2> HIDE DEF n
  <2>7. /\ n.windowStartTime # 0 <=> n.failuresCount > 0
        /\ n.currentStreak <= n.maxStreakInWin /\ n.maxStreakInWin <= n.failuresCount
        /\ n.windowStartTime # 0 => now - n.windowStartTime = 0
    BY <1>1, <2>5
  <2>8. hist' = Append(hist, check)
    BY <2>1, <2>5, <2>6
  <2>9. m'.windowStartTime # 0 =>
          IF config.T = 0 THEN ~ConditionMet(m')
                          ELSE now - m'.windowStartTime < IF config.T > 0 THEN config.T ELSE 1
    BY <1>1, <2>2, <2>6, <2>7
  <2> QED
    BY <1>1, <2>1, <2>5, <2>6, <2>7, <2>8, <2>9
<1>7. CASE ~AlarmDue(s) /\ ~WindowExpired(s) /\ Becomes(s, "none", check)
  <2>1. /\ m' = s /\ fired' \in {"alert", "recover", "none"}
        /\ hist' = IF s.State # "GREEN" THEN <<>> ELSE Append(hist, check)
    BY <1>4, <1>7
  <2> HIDE DEF s
  <2>2. hist' = Append(hist, check)
    BY <1>2, <2>1
  <2>3. s.windowStartTime # 0 =>
          IF config.T = 0 THEN ~ConditionMet(s) ELSE ~PeriodOver(s)
    BY <1>7 DEF AlarmDue, WindowExpired, ZeroTime
  <2>4. ~PeriodOver(s) => now - s.windowStartTime < config.T
    BY <1>1, <1>2 DEF PeriodOver, MachineState
  <2>5. s.windowStartTime # 0 =>
          IF config.T = 0 THEN ~ConditionMet(s)
                          ELSE now - s.windowStartTime < IF config.T > 0 THEN config.T ELSE 1
    BY <1>1, <1>2, <2>3, <2>4 DEF MachineState
  <2> QED
    BY <1>1, <1>2, <1>3, <2>1, <2>2, <2>5
<1> QED
  BY <1>5, <1>6, <1>7 DEF TransitionGreen

LEMMA CriticalBecomes ==
  ASSUME Inv, NEW failure \in BOOLEAN, TransitionCritical(failure)
  PROVE  /\ m.State = "CRITICAL" /\ m' \in MachineState
         /\ fired' \in {"alert", "recover", "none"}
         /\ m'.windowStartTime = 0
         /\ \/ /\ m'.State = "GREEN" /\ m'.failuresCount = 0
               /\ m'.currentStreak = 0 /\ m'.maxStreakInWin = 0 /\ m'.recoveryStreak = 0
               /\ hist' = <<>>
            \/ /\ m' = [m EXCEPT !.recoveryStreak = RecoveryCount(failure)]
               /\ failure \/ RecoveryCount(failure) < config.R
               /\ hist' = Append(hist, [bad |-> failure, ts |-> now])
<1> DEFINE s == [m EXCEPT !.recoveryStreak = RecoveryCount(failure)]
           check == [bad |-> failure, ts |-> now]
<1>1. m \in MachineState /\ m.State = "CRITICAL" /\ m.windowStartTime = 0 /\ config.R \in Int
  BY DEF Inv, TypeOK, CountersOfPhase, TransitionCritical, ZeroTime
<1>2. RecoveryCount(failure) \in Nat
  BY <1>1 DEF RecoveryCount, MachineState
<1>3. s \in MachineState /\ s.State = "CRITICAL" /\ s.windowStartTime = 0
  BY <1>1, <1>2 DEF MachineState
<1>4. ASSUME NEW r, NEW result \in {"alert", "recover", "none"}, Becomes(r, result, check)
      PROVE  /\ m' = r /\ fired' \in {"alert", "recover", "none"}
             /\ hist' = IF r.State # "CRITICAL" THEN <<>> ELSE Append(hist, check)
  BY <1>1, <1>4 DEF Becomes
<1>5. CASE Becomes(FireRecovery(s), "recover", check)
  <2>1. /\ m' = FireRecovery(s) /\ fired' \in {"alert", "recover", "none"}
        /\ hist' = IF FireRecovery(s).State # "CRITICAL" THEN <<>> ELSE Append(hist, check)
    BY <1>4, <1>5
  <2> HIDE DEF s
  <2>2. /\ FireRecovery(s) \in MachineState
        /\ FireRecovery(s).State = "GREEN" /\ FireRecovery(s).recoveryStreak = 0
        /\ FireRecovery(s).windowStartTime = 0 /\ FireRecovery(s).failuresCount = 0
        /\ FireRecovery(s).currentStreak = 0 /\ FireRecovery(s).maxStreakInWin = 0
    BY <1>3, FiresRecovery
  <2> QED
    BY <1>1, <2>1, <2>2
<1>6. CASE Becomes(s, "none", check) /\ ~(~failure /\ RecoveryCount(failure) >= config.R)
  <2>1. /\ m' = s /\ fired' \in {"alert", "recover", "none"}
        /\ hist' = IF s.State # "CRITICAL" THEN <<>> ELSE Append(hist, check)
    BY <1>4, <1>6
  <2>2. failure \/ RecoveryCount(failure) < config.R
    BY <1>1, <1>2, <1>6
  <2> QED
    BY <1>1, <1>3, <2>1, <2>2
<1>7. \/ Becomes(FireRecovery(s), "recover", check)
      \/ Becomes(s, "none", check) /\ ~(~failure /\ RecoveryCount(failure) >= config.R)
  BY DEF TransitionCritical
<1> QED
  BY <1>5, <1>6, <1>7

LEMMA FsmStays ==
  ASSUME Inv, UNCHANGED <<config, m, hist>>, now' \in Nat, now' >= now,
         muted' \in BOOLEAN, fired' \in {"alert", "recover", "none"}
  PROVE  Inv'
<1>1. TypeOK' /\ Rules'
  BY DEF Inv, TypeOK, Rules
<1>2. Clocked'
  BY DEF Inv, TypeOK, Clocked
<1>3. CountersOfPhase'
  BY DEF Inv, CountersOfPhase
<1> QED
  BY <1>1, <1>2, <1>3 DEF Inv

LEMMA GreenKeeps ==
  ASSUME Inv, NEW failure \in BOOLEAN, TransitionGreen(failure), UNCHANGED <<config, muted, now>>
  PROVE  Inv'
<1>1. hist \in Seq([bad : BOOLEAN, ts : Nat]) /\ [bad |-> failure, ts |-> now] \in [bad : BOOLEAN, ts : Nat]
  BY DEF Inv, TypeOK
<1>2. hist' \in Seq([bad : BOOLEAN, ts : Nat])
  <2>1. hist' = <<>> \/ hist' = Append(hist, [bad |-> failure, ts |-> now])
    BY GreenBecomes
  <2> QED
    BY <1>1, <2>1, AppendTyped
<1>3. TypeOK' /\ Rules' /\ Clocked'
  BY <1>2, GreenBecomes DEF Inv, TypeOK, Rules, Clocked
<1>4. config'.R >= 1 /\ config'.R \in Int
  BY <1>3 DEF Rules, TypeOK
<1>5. CASE m'.State = "CRITICAL"
  <2>1. /\ m'.windowStartTime = 0 /\ m'.failuresCount = 0 /\ m'.currentStreak = 0
        /\ m'.maxStreakInWin = 0 /\ m'.recoveryStreak = 0 /\ hist' = <<>>
    BY <1>5, GreenBecomes
  <2>2. CountersOfPhase'
    BY <1>4, <1>5, <2>1 DEF CountersOfPhase, ZeroTime
  <2> QED
    BY <1>3, <2>2 DEF Inv
<1>6. CASE m'.State = "GREEN"
  <2>1. /\ m'.recoveryStreak = 0
        /\ m'.windowStartTime # 0 <=> m'.failuresCount > 0
        /\ m'.currentStreak <= m'.maxStreakInWin /\ m'.maxStreakInWin <= m'.failuresCount
    BY <1>6, GreenBecomes
  <2>2. CountersOfPhase'
    BY <1>4, <1>6, <2>1 DEF CountersOfPhase, ZeroTime
  <2> QED
    BY <1>3, <2>2 DEF Inv
<1> QED
  BY <1>5, <1>6, GreenBecomes

LEMMA CriticalKeeps ==
  ASSUME Inv, NEW failure \in BOOLEAN, TransitionCritical(failure), UNCHANGED <<config, muted, now>>
  PROVE  Inv'
<1>1. hist \in Seq([bad : BOOLEAN, ts : Nat]) /\ [bad |-> failure, ts |-> now] \in [bad : BOOLEAN, ts : Nat]
  BY DEF Inv, TypeOK
<1>2. hist' \in Seq([bad : BOOLEAN, ts : Nat])
  <2>1. hist' = <<>> \/ hist' = Append(hist, [bad |-> failure, ts |-> now])
    BY CriticalBecomes
  <2> QED
    BY <1>1, <2>1, AppendTyped
<1>3. TypeOK' /\ Rules' /\ Clocked'
  BY <1>2, CriticalBecomes DEF Inv, TypeOK, Rules, Clocked
<1>4. config' = config /\ config.R >= 1 /\ config.R \in Int
  BY DEF Inv, Rules, TypeOK
<1>5. CASE m'.State = "GREEN" /\ hist' = <<>>
  <2>1. /\ m'.windowStartTime = 0 /\ m'.failuresCount = 0 /\ m'.currentStreak = 0
        /\ m'.maxStreakInWin = 0 /\ m'.recoveryStreak = 0
    <3>1. \/ /\ m'.failuresCount = 0 /\ m'.currentStreak = 0
             /\ m'.maxStreakInWin = 0 /\ m'.recoveryStreak = 0
          \/ hist' = Append(hist, [bad |-> failure, ts |-> now])
      BY CriticalBecomes
    <3>2. hist' # Append(hist, [bad |-> failure, ts |-> now])
      BY <1>1, <1>5
    <3> QED
      BY <3>1, <3>2, CriticalBecomes
  <2>2. CountersOfPhase'
    BY <1>4, <1>5, <2>1 DEF CountersOfPhase, ZeroTime
  <2> QED
    BY <1>3, <2>2 DEF Inv
<1>6. CASE /\ m' = [m EXCEPT !.recoveryStreak = RecoveryCount(failure)]
           /\ failure \/ RecoveryCount(failure) < config.R
           /\ hist' = Append(hist, [bad |-> failure, ts |-> now])
  <2>1. PICK r \in Nat : r = m.recoveryStreak
    BY DEF Inv, TypeOK, MachineState
  <2>2. PICK l \in Nat : l = Len(hist) /\ DOMAIN hist = 1 .. l
    BY <1>1
  <2>3. /\ Len(hist') = l + 1 /\ DOMAIN hist' = 1 .. l + 1
        /\ hist'[l + 1].bad = failure
        /\ \A i \in 1 .. l : hist'[i] = hist[i]
    BY <1>1, <1>6, <2>2
  <2>4. /\ r <= l
        /\ \A i \in 1 .. l : i > l - r => ~hist[i].bad
        /\ l > r => hist[l - r].bad
        /\ m.State = "CRITICAL" /\ m.windowStartTime = 0
        /\ ~(m.failuresCount > 0)
        /\ m.currentStreak <= m.maxStreakInWin /\ m.maxStreakInWin <= m.failuresCount
    BY <2>1, <2>2, CriticalBecomes DEF Inv, CountersOfPhase, ZeroTime
  <2>5. /\ m'.State = "CRITICAL" /\ m'.windowStartTime = 0 /\ m'.failuresCount = m.failuresCount
        /\ m'.currentStreak = m.currentStreak /\ m'.maxStreakInWin = m.maxStreakInWin
        /\ m'.recoveryStreak = IF failure THEN 0 ELSE r + 1
        /\ failure \/ r + 1 < config.R
    BY <1>6, <2>1, <2>4 DEF Inv, TypeOK, MachineState, RecoveryCount
  <2>6. m'.recoveryStreak < config'.R
    BY <1>4, <2>1, <2>5
  <2>7. /\ m'.recoveryStreak <= Len(hist')
        /\ \A i \in DOMAIN hist' : i > Len(hist') - m'.recoveryStreak => ~hist'[i].bad
        /\ Len(hist') > m'.recoveryStreak => hist'[Len(hist') - m'.recoveryStreak].bad
    <3>1. CASE failure
      <4>1. m'.recoveryStreak = 0
        BY <2>5, <3>1
      <4>2. hist'[l + 1].bad = TRUE
        BY <2>3, <3>1
      <4>3. Len(hist') - m'.recoveryStreak = l + 1 /\ m'.recoveryStreak <= Len(hist')
        BY <2>2, <2>3, <4>1
      <4>4. \A i \in DOMAIN hist' : ~(i > l + 1)
        BY <2>2, <2>3
      <4> QED
        BY <4>2, <4>3, <4>4
    <3>2. CASE ~failure
      <4>1. m'.recoveryStreak = r + 1 /\ Len(hist') - m'.recoveryStreak = l - r
        BY <2>1, <2>2, <2>3, <2>5, <3>2
      <4>2. \A i \in DOMAIN hist' : i > l - r => ~hist'[i].bad
        BY <2>1, <2>2, <2>3, <2>4, <3>2
      <4>3. l > r => l - r \in 1 .. l
        BY <2>1, <2>2
      <4> QED
        BY <2>1, <2>2, <2>3, <2>4, <4>1, <4>2, <4>3
    <3> QED
      BY <3>1, <3>2
  <2>8. CountersOfPhase'
    BY <2>4, <2>5, <2>6, <2>7 DEF CountersOfPhase, ZeroTime
  <2> QED
    BY <1>3, <2>8 DEF Inv
<1> QED
  BY <1>5, <1>6, CriticalBecomes

LEMMA FsmNext == Inv /\ [Next]_vars => Inv'
<1> SUFFICES ASSUME Inv, [Next]_vars PROVE Inv'
  OBVIOUS
<1>1. ASSUME NEW ch \in Check, Transition(ch) PROVE Inv'
  <2>1. IsFailure(ch) \in BOOLEAN
    BY DEF IsFailure, Check
  <2> QED
    BY <1>1, <2>1, GreenKeeps, CriticalKeeps DEF Transition
<1>2. ASSUME NEW on \in BOOLEAN, SetMute(on) PROVE Inv'
  BY <1>2, FsmStays DEF SetMute, Inv, TypeOK
<1>3. CASE Tick
  BY <1>3, FsmStays DEF Tick, Inv, TypeOK
<1>4. CASE UNCHANGED vars
  BY <1>4, FsmStays DEF vars, Inv, TypeOK
<1> QED
  BY <1>1, <1>2, <1>3, <1>4 DEF Next

-----------------------------------------------------------------------------
(* The theorems. *)
LEMMA FsmInvariant == Spec => []Inv
BY FsmInit, FsmNext, PTL DEF Spec

(* Every variable keeps its type. *)
THEOREM FsmTyped == Spec => []TypeOK
<1>1. Inv => TypeOK
  BY DEF Inv
<1> QED
  BY <1>1, FsmInvariant, PTL

(* The counters of the machine are those of its phase: a window exists     *)
(* only in GREEN, a count of good checks only in CRITICAL, and that count  *)
(* is the run of good checks at the end of the history.                    *)
THEOREM FsmCountersOfPhase == Spec => []CountersOfPhase
<1>1. Inv => CountersOfPhase
  BY DEF Inv
<1> QED
  BY <1>1, FsmInvariant, PTL

(* No rule waits for a negative time.  NewMachine does not see to it, and  *)
(* a machine with a negative T is overdue as soon as a window opens.       *)
NoNegativeWait == \A c \in Config : c.T >= 0

LEMMA OverdueStep ==
  ASSUME NoNegativeWait, Inv, NoOverdueAlarm, [Next]_vars PROVE NoOverdueAlarm'
<1>1. ASSUME NEW failure \in BOOLEAN, TransitionGreen(failure), UNCHANGED config
      PROVE  NoOverdueAlarm'
  <2>1. CASE m'.State = "CRITICAL"
    BY <2>1 DEF NoOverdueAlarm
  <2>2. CASE m'.State # "CRITICAL"
    <3>1. /\ hist' = Append(hist, [bad |-> failure, ts |-> now])
          /\ m'.windowStartTime # 0 =>
               IF config.T = 0 THEN ~ConditionMet(m')
                               ELSE now - m'.windowStartTime < IF config.T > 0 THEN config.T ELSE 1
      BY <1>1, <2>2, GreenBecomes
    <3>2. hist \in Seq([bad : BOOLEAN, ts : Nat]) /\ config.T \in Int /\ config.T >= 0
      <4>1. PICK c \in Config : config.T = c.T
        BY DEF Inv, Rules
      <4> QED
        BY <4>1, FsmAssumption DEF Inv, TypeOK, NoNegativeWait, FsmAssumption
    <3>3. hist'[Len(hist')].ts = now
      BY <3>1, <3>2
    <3>4. ConditionMet(m)' <=> ConditionMet(m')
      BY <1>1 DEF ConditionMet
    <3> QED
      BY <1>1, <3>1, <3>2, <3>3, <3>4 DEF NoOverdueAlarm, ZeroTime
  <2> QED
    BY <2>1, <2>2
<1>2. ASSUME NEW failure \in BOOLEAN, TransitionCritical(failure) PROVE NoOverdueAlarm'
  BY <1>2, CriticalBecomes DEF NoOverdueAlarm, ZeroTime
<1>3. CASE UNCHANGED <<config, m, hist>>
  BY <1>3 DEF NoOverdueAlarm, ConditionMet
<1>4. ASSUME NEW ch \in Check, Transition(ch) PROVE NoOverdueAlarm'
  <2>1. IsFailure(ch) \in BOOLEAN
    BY DEF IsFailure, Check
  <2> QED
    BY <1>1, <1>2, <1>4, <2>1 DEF Transition
<1> QED
  BY <1>3, <1>4 DEF Next, SetMute, Tick, vars

(* A green machine never sits on a window that is over: after every check  *)
(* its rule is not met or, if it is delayed, T has not passed.             *)
THEOREM FsmNoOverdueAlarm == NoNegativeWait => (Spec => []NoOverdueAlarm)
<1> SUFFICES ASSUME NoNegativeWait PROVE Spec => []NoOverdueAlarm
  OBVIOUS
<1>1. Init => NoOverdueAlarm
  BY DEF Init, NoOverdueAlarm
<1>2. Inv /\ NoOverdueAlarm /\ [Next]_vars => NoOverdueAlarm'
  BY OverdueStep
<1> QED
  BY <1>1, <1>2, FsmInvariant, PTL DEF Spec

-----------------------------------------------------------------------------
(* The window of a machine, read off its history: it began with a failed   *)
(* check f, counts the failures since, has a run as long as its longest    *)
(* streak, and its current streak is a run that the history ends with.     *)
CheckRecord == [bad : BOOLEAN, ts : Nat]

BadRun(h, a, b) == \A j \in a .. b : h[j].bad

BadSince(h, f) == {j \in f .. Len(h) : h[j].bad}

HoldsRun(h, f, x) == \E q \in f .. Len(h) : q + x - 1 <= Len(h) /\ BadRun(h, q, q + x - 1)

EndsInRun(h, f, k) == k <= Len(h) - f + 1 /\ BadRun(h, Len(h) - k + 1, Len(h))

WindowOf(h, f, s) ==
  /\ h[f].bad /\ h[f].ts = s.windowStartTime
  /\ Cardinality(BadSince(h, f)) = s.failuresCount
  /\ HoldsRun(h, f, s.maxStreakInWin)
  /\ EndsInRun(h, f, s.currentStreak)

Tells(h, s) == s.failuresCount > 0 => \E f \in DOMAIN h : WindowOf(h, f, s)

Longer(h, g, n) ==
  /\ Len(h) = n /\ DOMAIN h = 1 .. n
  /\ Len(g) = n + 1 /\ DOMAIN g = 1 .. n + 1
  /\ \A j \in 1 .. n : g[j] = h[j]

LEMMA OneMoreCheck ==
  ASSUME NEW h \in Seq(CheckRecord), NEW e \in CheckRecord
  PROVE  /\ Append(h, e) \in Seq(CheckRecord)
         /\ \E n \in Nat : Longer(h, Append(h, e), n) /\ Append(h, e)[n + 1] = e
BY DEF Longer

LEMMA RunStays ==
  ASSUME NEW h, NEW g, NEW n \in Nat, Longer(h, g, n),
         NEW a \in Nat \ {0}, NEW b \in Int, b <= n, BadRun(h, a, b)
  PROVE  BadRun(g, a, b)
<1>1. \A j \in a .. b : j \in 1 .. n
  OBVIOUS
<1> QED
  BY <1>1 DEF Longer, BadRun

LEMMA LongRunStays ==
  ASSUME NEW h, NEW g, NEW n \in Nat, Longer(h, g, n),
         NEW x \in Nat, NEW f \in 1 .. n, HoldsRun(h, f, x)
  PROVE  HoldsRun(g, f, x)
<1>1. Len(h) = n /\ Len(g) = n + 1
  BY DEF Longer
<1>2. PICK q \in f .. n : q + x - 1 <= n /\ BadRun(h, q, q + x - 1)
  BY <1>1, Zenon DEF HoldsRun
<1>3. PICK b \in Int : b = q + x - 1
  OBVIOUS
<1>4. BadRun(g, q, b)
  <2>1. q \in Nat \ {0} /\ b <= n /\ BadRun(h, q, b)
    BY <1>2, <1>3
  <2> QED
    BY <1>3, <2>1, RunStays
<1>5. q \in f .. n + 1 /\ q + x - 1 <= n + 1
  BY <1>2
<1> QED
  BY <1>1, <1>3, <1>4, <1>5, Zenon DEF HoldsRun

LEMMA LastRunGrows ==
  ASSUME NEW h, NEW g, NEW n \in Nat, Longer(h, g, n), g[n + 1].bad,
         NEW k \in Nat, NEW f \in 1 .. n, EndsInRun(h, f, k)
  PROVE  EndsInRun(g, f, k + 1) /\ HoldsRun(g, f, k + 1)
<1>1. Len(h) = n /\ Len(g) = n + 1
  BY DEF Longer
<1>2. k <= n - f + 1 /\ BadRun(h, n - k + 1, n)
  BY <1>1, Zenon DEF EndsInRun
<1>3. PICK a \in Nat \ {0} :
        /\ a = n - k + 1 /\ a = (n + 1) - (k + 1) + 1
        /\ a \in f .. n + 1 /\ a + (k + 1) - 1 = n + 1
        /\ k + 1 <= (n + 1) - f + 1
  BY <1>2
<1>4. BadRun(g, a, n)
  <2>1. BadRun(h, a, n) /\ n <= n /\ n \in Int
    BY <1>2, <1>3
  <2> QED
    BY <2>1, RunStays
<1>5. \A j \in a .. n + 1 : j = n + 1 \/ j \in a .. n
  OBVIOUS
<1>6. BadRun(g, a, n + 1)
  BY <1>4, <1>5, Zenon DEF BadRun
<1>7. a + (k + 1) - 1 <= n + 1
  BY <1>3
<1>8. EndsInRun(g, f, k + 1)
  BY <1>1, <1>3, <1>6, Zenon DEF EndsInRun
<1>9. HoldsRun(g, f, k + 1)
  BY <1>1, <1>3, <1>6, <1>7, Zenon DEF HoldsRun
<1> QED
  BY <1>8, <1>9

LEMMA BadSinceFinite ==
  ASSUME NEW h \in Seq(CheckRecord), NEW f \in Nat
  PROVE  IsFiniteSet(BadSince(h, f))
<1>1. IsFiniteSet(f .. Len(h))
  <2>1. Len(h) \in Nat
    OBVIOUS
  <2> QED
    BY <2>1, FS_Interval
<1>2. BadSince(h, f) \subseteq f .. Len(h)
  BY DEF BadSince
<1> QED
  BY <1>1, <1>2, FS_Subset

(* A good check leaves the window and ends the run. *)
LEMMA TellsAfterGood ==
  ASSUME NEW h \in Seq(CheckRecord), NEW g \in Seq(CheckRecord), NEW n \in Nat,
         Longer(h, g, n), ~g[n + 1].bad,
         NEW s \in MachineState, NEW r \in MachineState, Tells(h, s),
         r.windowStartTime = s.windowStartTime, r.failuresCount = s.failuresCount,
         r.maxStreakInWin = s.maxStreakInWin, r.currentStreak = 0
  PROVE  Tells(g, r)
<1>1. /\ Len(h) = n /\ Len(g) = n + 1 /\ DOMAIN h = 1 .. n /\ DOMAIN g = 1 .. n + 1
      /\ \A j \in 1 .. n : g[j] = h[j]
  BY DEF Longer
<1>2. ASSUME NEW f \in 1 .. n, WindowOf(h, f, s)
      PROVE  WindowOf(g, f, r)
  <2>1. g[f].bad /\ g[f].ts = r.windowStartTime
    BY <1>1, <1>2 DEF WindowOf
  <2>2. BadSince(g, f) = BadSince(h, f)
    BY <1>1 DEF BadSince
  <2>3. HoldsRun(g, f, r.maxStreakInWin)
    <3>1. s.maxStreakInWin \in Nat /\ HoldsRun(h, f, s.maxStreakInWin)
      BY <1>2 DEF WindowOf, MachineState
    <3> QED
      BY <3>1, LongRunStays
  <2>4. EndsInRun(g, f, r.currentStreak)
    <3>1. Len(g) - f + 1 >= 0 /\ Len(g) - 0 + 1 > Len(g) /\ Len(g) \in Nat
      BY <1>1
    <3>2. BadRun(g, Len(g) - 0 + 1, Len(g))
      BY <3>1 DEF BadRun
    <3> QED
      BY <3>1, <3>2 DEF EndsInRun
  <2>5. Cardinality(BadSince(g, f)) = r.failuresCount
    BY <1>2, <2>2 DEF WindowOf
  <2> QED
    BY <2>1, <2>3, <2>4, <2>5 DEF WindowOf
<1>3. \A f \in 1 .. n : f \in DOMAIN g
  BY <1>1
<1> QED
  BY <1>1, <1>2, <1>3, Zenon DEF Tells

(* The first failure of a window. *)
LEMMA TellsOpened ==
  ASSUME NEW h \in Seq(CheckRecord), NEW g \in Seq(CheckRecord), NEW n \in Nat,
         Longer(h, g, n), g[n + 1].bad,
         NEW r \in MachineState,
         r.windowStartTime = g[n + 1].ts, r.failuresCount = 1,
         r.maxStreakInWin = 1, r.currentStreak = 1
  PROVE  Tells(g, r)
<1>1. Len(g) = n + 1 /\ n + 1 \in DOMAIN g
  BY DEF Longer
<1>2. /\ n + 1 \in n + 1 .. n + 1 /\ n + 1 + 1 - 1 = n + 1 /\ n + 1 <= n + 1
      /\ 1 <= n + 1 - (n + 1) + 1
      /\ \A j \in n + 1 .. n + 1 : j = n + 1
  OBVIOUS
<1>3. Cardinality(BadSince(g, n + 1)) = 1
  <2>1. BadSince(g, n + 1) = {n + 1}
    BY <1>1 DEF BadSince
  <2> QED
    BY <2>1, FS_Singleton
<1>4. BadRun(g, n + 1, n + 1)
  BY <1>2 DEF BadRun
<1>5. HoldsRun(g, n + 1, 1)
  BY <1>1, <1>2, <1>4 DEF HoldsRun
<1>6. EndsInRun(g, n + 1, 1)
  BY <1>1, <1>2, <1>4 DEF EndsInRun
<1> QED
  BY <1>1, <1>3, <1>5, <1>6, Zenon DEF Tells, WindowOf

(* A further failure of an open window. *)
LEMMA TellsGrown ==
  ASSUME NEW h \in Seq(CheckRecord), NEW g \in Seq(CheckRecord), NEW n \in Nat,
         Longer(h, g, n), g[n + 1].bad,
         NEW s \in MachineState, NEW r \in MachineState, Tells(h, s), s.failuresCount > 0,
         r.windowStartTime = s.windowStartTime, r.failuresCount = s.failuresCount + 1,
         r.currentStreak = s.currentStreak + 1,
         r.maxStreakInWin \in {s.maxStreakInWin, r.currentStreak}
  PROVE  Tells(g, r)
<1>1. /\ Len(h) = n /\ Len(g) = n + 1 /\ DOMAIN h = 1 .. n /\ DOMAIN g = 1 .. n + 1
      /\ \A j \in 1 .. n : g[j] = h[j]
  BY DEF Longer
<1>2. PICK f \in 1 .. n : WindowOf(h, f, s)
  BY <1>1 DEF Tells
<1>3. PICK k \in Nat, x \in Nat : k = s.currentStreak /\ x = s.maxStreakInWin
  BY DEF MachineState
<1>4. g[f].bad /\ g[f].ts = r.windowStartTime
  BY <1>1, <1>2 DEF WindowOf
<1>5. HoldsRun(h, f, x) /\ EndsInRun(h, f, k) /\ Cardinality(BadSince(h, f)) = s.failuresCount
  BY <1>2, <1>3, Zenon DEF WindowOf
<1>6. EndsInRun(g, f, k + 1) /\ HoldsRun(g, f, k + 1) /\ HoldsRun(g, f, x)
  BY <1>5, LastRunGrows, LongRunStays, Zenon
<1>7. Cardinality(BadSince(g, f)) = r.failuresCount
  <2>1. BadSince(g, f) = BadSince(h, f) \cup {n + 1} /\ n + 1 \notin BadSince(h, f)
    BY <1>1 DEF BadSince
  <2>2. IsFiniteSet(BadSince(h, f))
    BY BadSinceFinite
  <2>3. Cardinality(BadSince(h, f) \cup {n + 1}) = Cardinality(BadSince(h, f)) + 1
    BY <2>1, <2>2, FS_AddElement, Zenon
  <2> QED
    BY <1>5, <2>1, <2>3, Zenon
<1>8. r.currentStreak = k + 1 /\ r.maxStreakInWin \in {x, k + 1}
  BY <1>3, Zenon
<1>9. f \in DOMAIN g
  BY <1>1
<1> QED
  BY <1>4, <1>6, <1>7, <1>8, <1>9, Zenon DEF Tells, WindowOf

(* Count keeps the window that the history tells of. *)
LEMMA CountTells ==
  ASSUME NEW h \in Seq(CheckRecord), NEW s \in MachineState, NEW failure \in BOOLEAN,
         now \in Nat, Tells(h, s),
         s.windowStartTime # 0 <=> s.failuresCount > 0,
         s.currentStreak <= s.maxStreakInWin, s.maxStreakInWin <= s.failuresCount
  PROVE  Tells(Append(h, [bad |-> failure, ts |-> now]), Count(s, failure))
<1> DEFINE e == [bad |-> failure, ts |-> now]
           g == Append(h, e)
           r == Count(s, failure)
<1>1. /\ r \in MachineState
      /\ r.windowStartTime = IF failure /\ s.windowStartTime = 0 THEN now ELSE s.windowStartTime
      /\ r.failuresCount = IF failure THEN s.failuresCount + 1 ELSE s.failuresCount
      /\ r.currentStreak = IF failure THEN s.currentStreak + 1 ELSE 0
      /\ failure => r.maxStreakInWin >= r.currentStreak
      /\ r.maxStreakInWin >= s.maxStreakInWin
      /\ r.maxStreakInWin \in {s.maxStreakInWin, r.currentStreak}
  BY CountCounts
<1>2. e \in CheckRecord /\ e.bad = failure /\ e.ts = now
  BY DEF CheckRecord
<1> HIDE DEF e
<1>3. g \in Seq(CheckRecord)
  BY <1>2, OneMoreCheck
<1>4. PICK n \in Nat : Longer(h, g, n) /\ g[n + 1] = e
  BY <1>2, OneMoreCheck
<1>5. /\ s.failuresCount \in Nat /\ s.maxStreakInWin \in Nat /\ s.currentStreak \in Nat
  BY DEF MachineState
<1> HIDE DEF g, r
<1>6. CASE ~failure
  <2>1. r.maxStreakInWin = s.maxStreakInWin
    BY <1>1, <1>5, <1>6
  <2> QED
    BY <1>1, <1>2, <1>3, <1>4, <1>6, <2>1, TellsAfterGood DEF g, r, e
<1>7. CASE failure /\ s.failuresCount = 0
  <2>1. s.windowStartTime = 0 /\ s.maxStreakInWin = 0 /\ s.currentStreak = 0
    BY <1>5, <1>7
  <2>2. r.windowStartTime = now /\ r.failuresCount = 1 /\ r.currentStreak = 1 /\ r.maxStreakInWin = 1
    BY <1>1, <1>7, <2>1
  <2>3. g[n + 1].bad /\ r.windowStartTime = g[n + 1].ts
    BY <1>2, <1>4, <1>7, <2>2
  <2>4. Tells(g, r)
    BY <1>1, <1>3, <1>4, <2>2, <2>3, TellsOpened, Zenon
  <2> QED
    BY <2>4 DEF g, r, e
<1>8. CASE failure /\ s.failuresCount > 0
  <2>1. /\ r.windowStartTime = s.windowStartTime /\ r.failuresCount = s.failuresCount + 1
        /\ r.currentStreak = s.currentStreak + 1
    BY <1>1, <1>8
  <2>2. g[n + 1].bad
    BY <1>2, <1>4, <1>8
  <2>3. Tells(g, r)
    BY <1>1, <1>3, <1>4, <1>8, <2>1, <2>2, TellsGrown, Zenon
  <2> QED
    BY <2>3 DEF g, r, e
<1> QED
  BY <1>5, <1>6, <1>7, <1>8

-----------------------------------------------------------------------------
(* What the history tells is invariant. *)
JInv == Inv /\ Tells(hist, m)

LEMMA NothingToTell ==
  ASSUME NEW h, NEW s, s.failuresCount = 0
  PROVE  Tells(h, s)
BY DEF Tells

(* The window that a check in GREEN is judged by. *)
LEMMA GreenTells ==
  ASSUME JInv, NEW failure \in BOOLEAN, TransitionGreen(failure)
  PROVE  /\ Count(m, failure) \in MachineState
         /\ Tells(Append(hist, [bad |-> failure, ts |-> now]), Count(m, failure))
         /\ Count(m, failure).State = "GREEN"
         /\ Count(m, failure).windowStartTime # 0 => Count(m, failure).failuresCount > 0
<1>1. /\ m \in MachineState /\ now \in Nat /\ now >= 1 /\ hist \in Seq(CheckRecord)
      /\ m.State = "GREEN" /\ Tells(hist, m)
      /\ m.windowStartTime # 0 <=> m.failuresCount > 0
      /\ m.currentStreak <= m.maxStreakInWin /\ m.maxStreakInWin <= m.failuresCount
  BY DEF JInv, Inv, TypeOK, Clocked, CountersOfPhase, TransitionGreen, ZeroTime, CheckRecord
<1>2. m.failuresCount \in Nat /\ m.windowStartTime \in Nat
  BY <1>1 DEF MachineState
<1>3. /\ Count(m, failure) \in MachineState /\ Count(m, failure).State = "GREEN"
      /\ Count(m, failure).windowStartTime # 0 => Count(m, failure).failuresCount > 0
  BY <1>1, <1>2, CountCounts
<1> QED
  BY <1>1, <1>3, CountTells

LEMMA GreenKeepsTelling ==
  ASSUME JInv, NEW failure \in BOOLEAN, TransitionGreen(failure)
  PROVE  Tells(hist', m')
<1> DEFINE s == Count(m, failure)
           check == [bad |-> failure, ts |-> now]
<1>1. s \in MachineState /\ Tells(Append(hist, check), s) /\ s.State = "GREEN"
  BY GreenTells
<1>2. m.State = "GREEN" /\ now \in Nat /\ hist \in Seq(CheckRecord)
  BY DEF TransitionGreen, JInv, Inv, TypeOK, CheckRecord
<1>3. CASE Becomes(FireCritical(s), "alert", check)
  <2> HIDE DEF s
  <2>1. m'.failuresCount = 0
    BY <1>1, <1>3, FiresCritical DEF Becomes
  <2> QED
    BY <2>1, NothingToTell
<1>4. CASE Becomes(Reseed(s, failure), "none", check)
  <2> DEFINE z == ResetFailureTracking(s)
  <2> HIDE DEF s
  <2>1. /\ z \in MachineState /\ z.State = "GREEN"
        /\ z.windowStartTime = 0 /\ z.failuresCount = 0
        /\ z.currentStreak = 0 /\ z.maxStreakInWin = 0
    BY <1>1, ResetResets
  <2>2. m' = Count(z, failure)
    BY <1>4, Zenon DEF Becomes, Reseed
  <2> HIDE DEF z
  <2>3. Count(z, failure).State = "GREEN"
    BY <1>2, <2>1, CountCounts
  <2>4. hist' = Append(hist, check)
    BY <1>2, <1>4, <2>2, <2>3 DEF Becomes
  <2>5. Tells(Append(hist, check), Count(z, failure))
    BY <1>2, <2>1, NothingToTell, CountTells
  <2> QED
    BY <2>2, <2>4, <2>5
<1>5. CASE Becomes(s, "none", check)
  BY <1>1, <1>2, <1>5, Zenon DEF Becomes
<1> QED
  BY <1>3, <1>4, <1>5 DEF TransitionGreen

LEMMA CriticalTells ==
  ASSUME JInv, NEW failure \in BOOLEAN, TransitionCritical(failure)
  PROVE  Tells(hist', m')
<1>1. m \in MachineState /\ m.State = "CRITICAL" /\ m.failuresCount = 0
  <2>1. /\ m \in MachineState /\ m.windowStartTime = 0 /\ m.State = "CRITICAL"
        /\ m.windowStartTime # 0 <=> m.failuresCount > 0
    BY DEF JInv, Inv, TypeOK, CountersOfPhase, TransitionCritical, ZeroTime
  <2>2. m.failuresCount \in Nat
    BY <2>1 DEF MachineState
  <2> QED
    BY <2>1, <2>2
<1>2. Inv
  BY DEF JInv
<1>3. m'.failuresCount = 0
  BY <1>1, <1>2, CriticalBecomes DEF MachineState
<1> QED
  BY <1>3, NothingToTell

LEMMA JNext == JInv /\ [Next]_vars => JInv'
<1> SUFFICES ASSUME JInv, [Next]_vars PROVE JInv'
  OBVIOUS
<1>1. Inv'
  BY FsmNext DEF JInv
<1>2. ASSUME NEW ch \in Check, Transition(ch) PROVE Tells(hist', m')
  <2>1. IsFailure(ch) \in BOOLEAN
    BY DEF IsFailure, Check
  <2> QED
    BY <1>2, <2>1, GreenKeepsTelling, CriticalTells DEF Transition
<1>3. ASSUME UNCHANGED <<m, hist>> PROVE Tells(hist', m')
  BY <1>3 DEF JInv
<1>4. Tells(hist', m')
  BY <1>2, <1>3 DEF Next, SetMute, Tick, vars
<1> QED
  BY <1>1, <1>4 DEF JInv

LEMMA JInit == Init => JInv
<1> SUFFICES ASSUME Init PROVE JInv
  OBVIOUS
<1>1. m.failuresCount = 0
  BY DEF Init, NewMachine
<1> QED
  BY <1>1, FsmInit, NothingToTell DEF JInv

(* A window with enough failures has them in the history. *)
LEMMA EnoughAreThere ==
  ASSUME NEW h \in Seq(CheckRecord), NEW s \in MachineState, NEW f \in DOMAIN h,
         WindowOf(h, f, s), ConditionMet(s),
         config.N \in Int, config.N >= 1
  PROVE  EnoughFailures(h, f, Len(h))
<1>1. PICK x \in Nat : x = s.maxStreakInWin
  BY DEF MachineState
<1>2. Len(h) \in Nat /\ f \in 1 .. Len(h)
  OBVIOUS
<1>3. CASE config.C
  <2>1. x >= config.N
    BY <1>1, <1>3 DEF ConditionMet
  <2>2. PICK q \in f .. Len(h) : q + x - 1 <= Len(h) /\ BadRun(h, q, q + x - 1)
    BY <1>1 DEF WindowOf, HoldsRun
  <2>3. q + config.N - 1 <= Len(h)
    BY <1>2, <2>1, <2>2
  <2>4. \A j \in q .. (q + config.N - 1) : j \in q .. q + x - 1
    BY <1>2, <2>1
  <2>5. \A j \in q .. (q + config.N - 1) : h[j].bad
    BY <2>2, <2>4 DEF BadRun
  <2> QED
    BY <1>3, <2>2, <2>3, <2>5, Zenon DEF EnoughFailures
<1>4. CASE ~config.C
  BY <1>4 DEF EnoughFailures, ConditionMet, WindowOf, BadSince
<1> QED
  BY <1>3, <1>4

(* The alarm of the machine is justified: whenever it goes CRITICAL, some  *)
(* failed check since the last recovery began a period that lasted T and   *)
(* held N failures, in a row if C.                                         *)
THEOREM FsmAlarmJustified == Spec => AlarmJustified
<1>1. JInv /\ [Next]_vars =>
        [\A bad \in BOOLEAN :
           LET h == Append(hist, [bad |-> bad, ts |-> now])
               failed == m'.State = "CRITICAL" /\ Transitioned
           IN  failed /\ TransitionGreen(bad) =>
                 \E f \in DOMAIN h : /\ h[f].bad
                                     /\ config.T = 0 \/ now - h[f].ts >= config.T
                                     /\ EnoughFailures(h, f, Len(h))]_vars
  <2> SUFFICES ASSUME JInv, NEW bad \in BOOLEAN, m'.State = "CRITICAL", TransitionGreen(bad)
               PROVE  LET h == Append(hist, [bad |-> bad, ts |-> now])
                      IN  \E f \in DOMAIN h : /\ h[f].bad
                                              /\ config.T = 0 \/ now - h[f].ts >= config.T
                                              /\ EnoughFailures(h, f, Len(h))
    BY Zenon
  <2> DEFINE s == Count(m, bad)
             e == [bad |-> bad, ts |-> now]
             h == Append(hist, e)
  <2>1. /\ s \in MachineState /\ Tells(h, s) /\ s.State = "GREEN"
        /\ s.windowStartTime # 0 => s.failuresCount > 0
    BY GreenTells
  <2>2. h \in Seq(CheckRecord) /\ now \in Nat /\ config.N \in Int /\ config.N >= 1
    <3>1. /\ hist \in Seq(CheckRecord) /\ now \in Nat
          /\ config.N \in Int /\ config.N >= 1
      BY DEF JInv, Inv, TypeOK, Rules, CheckRecord
    <3>2. e \in CheckRecord
      BY <3>1 DEF CheckRecord
    <3> HIDE DEF e
    <3> QED
      BY <3>1, <3>2, OneMoreCheck
  <2>3. AlarmDue(s)
    <3> SUFFICES ASSUME ~AlarmDue(s) PROVE FALSE
      OBVIOUS
    <3>1. m' = Reseed(s, bad) \/ m' = s
      BY Zenon DEF TransitionGreen, Becomes
    <3> HIDE DEF s
    <3>2. Reseed(s, bad).State = "GREEN"
      BY <2>1, <2>2, ResetResets, CountCounts DEF Reseed
    <3> QED
      BY <2>1, <3>1, <3>2
  <2> HIDE DEF h, s
  <2>4. PICK f \in DOMAIN h : WindowOf(h, f, s)
    BY <2>1, <2>3 DEF AlarmDue, ZeroTime, Tells
  <2>5. h[f].bad /\ (config.T = 0 \/ now - h[f].ts >= config.T)
    BY <2>3, <2>4 DEF AlarmDue, PeriodOver, WindowOf
  <2>6. EnoughFailures(h, f, Len(h))
    <3>1. ConditionMet(s)
      BY <2>3 DEF AlarmDue
    <3> QED
      BY <2>1, <2>2, <2>4, <3>1, EnoughAreThere
  <2> QED
    BY <2>4, <2>5, <2>6, Zenon DEF h
<1> QED
  BY <1>1, JInit, JNext, PTL DEF Spec, AlarmJustified
=============================================================================
