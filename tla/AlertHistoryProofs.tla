------------------------- MODULE AlertHistoryProofs -------------------------
(***************************************************************************)
(* The counters of the alert engine say what the history says, for every   *)
(* set of targets and configurations and any order of stamps.              *)
(*                                                                         *)
(* The first part is about sequences of results and the state of one       *)
(* target; the second about what a step of the engine does to that state.  *)
(***************************************************************************)
EXTENDS AlertHistory, AlertEngineProofs, FiniteSetTheorems

Entry == [sev : Severities, ts : Nat]

Failures(h, f) == {j \in f .. Len(h) : Failed(h, j)}

AllFailed(h, a, b) == \A j \in a .. b : Failed(h, j)

(* The window of state s began with failure f of history h: it holds the   *)
(* failures since f, a run as long as maxStreakInWin, and the run that h   *)
(* ends with.  With T = 0 no failure precedes it and no run is longer.     *)
WindowFrom(h, f, s, c) ==
  /\ Failed(h, f) /\ h[f].ts = s.firstErrorTime
  /\ Cardinality(Failures(h, f)) = s.windowErrors
  /\ \E q \in f .. Len(h) : /\ q + s.maxStreakInWin - 1 <= Len(h)
                            /\ AllFailed(h, q, q + s.maxStreakInWin - 1)
  /\ s.currentStreak <= Len(h) - f + 1
  /\ AllFailed(h, Len(h) - s.currentStreak + 1, Len(h))
  /\ c.T = 0 =>
       /\ \A j \in 1 .. f - 1 : ~Failed(h, j)
       /\ Len(h) - s.currentStreak >= 1 => ~Failed(h, Len(h) - s.currentStreak)
       /\ \A a, b \in DOMAIN h : AllFailed(h, a, b) => b - a + 1 <= s.maxStreakInWin

Describes(h, s, c) ==
  /\ s.windowErrors = 0 => \A j \in DOMAIN h : ~Failed(h, j)
  /\ s.windowErrors > 0 => \E f \in DOMAIN h : WindowFrom(h, f, s, c)

(* The successes counted are the green results the history ends with.      *)
EndsWith(h, k) ==
  /\ k < Len(h) /\ h[Len(h) - k].sev # "green"
  /\ \A j \in (Len(h) - k + 1) .. Len(h) : h[j].sev = "green"

Evidence(h, c) == \E i \in 1 .. Len(h) : \E f \in 1 .. i : AlarmingWindow(h, f, i, c)

-----------------------------------------------------------------------------
(* Sequence g is h, of length n, with one more result.                     *)
Longer(h, g, n) ==
  /\ Len(h) = n /\ DOMAIN h = 1 .. n
  /\ Len(g) = n + 1 /\ DOMAIN g = 1 .. n + 1
  /\ \A j \in 1 .. n : g[j] = h[j]

LEMMA Appended ==
  ASSUME NEW h \in Seq(Entry), NEW e \in Entry
  PROVE  /\ Append(h, e) \in Seq(Entry)
         /\ \E n \in Nat : Longer(h, Append(h, e), n) /\ Append(h, e)[n + 1] = e
BY DEF Longer

(* A run within h is a run of g. *)
LEMMA SameRun ==
  ASSUME NEW h, NEW g, NEW n \in Nat, Longer(h, g, n),
         NEW a \in Nat \ {0}, NEW b \in Int, b <= n
  PROVE  AllFailed(h, a, b) <=> AllFailed(g, a, b)
<1>1. \A j \in a .. b : j \in 1 .. n
  OBVIOUS
<1>2. \A j \in a .. b : Failed(h, j) <=> Failed(g, j)
  BY <1>1 DEF Longer, Failed
<1> QED
  BY <1>2 DEF AllFailed

LEMMA FailuresFinite ==
  ASSUME NEW h \in Seq(Entry), NEW f \in Nat
  PROVE  IsFiniteSet(Failures(h, f)) /\ Cardinality(Failures(h, f)) \in Nat
<1>1. Len(h) \in Nat
  OBVIOUS
<1>2. IsFiniteSet(f .. Len(h))
  BY <1>1, FS_Interval
<1>3. Failures(h, f) \subseteq f .. Len(h)
  BY DEF Failures
<1> QED
  BY <1>2, <1>3, FS_Subset, FS_CardinalityType

(* A result that is no failure: the window stays, the run ends.            *)
LEMMA WindowAfterSuccess ==
  ASSUME NEW h \in Seq(Entry), NEW g \in Seq(Entry), NEW n \in Nat,
         Longer(h, g, n), g[n + 1].sev # "critical",
         NEW s \in TargetState, NEW r \in TargetState, NEW c \in ConfigType,
         Describes(h, s, c),
         r.firstErrorTime = s.firstErrorTime, r.windowErrors = s.windowErrors,
         r.maxStreakInWin = s.maxStreakInWin, r.currentStreak = 0
  PROVE  Describes(g, r, c)
<1>1. /\ Len(h) = n /\ Len(g) = n + 1 /\ DOMAIN h = 1 .. n /\ DOMAIN g = 1 .. n + 1
      /\ \A j \in 1 .. n : g[j] = h[j]
  BY DEF Longer
<1>2. /\ \A j \in 1 .. n : Failed(g, j) <=> Failed(h, j)
      /\ ~Failed(g, n + 1)
  BY <1>1 DEF Failed
<1>3. s.windowErrors = 0 => \A j \in DOMAIN g : ~Failed(g, j)
  BY <1>1, <1>2 DEF Describes
<1>4. ASSUME NEW f \in DOMAIN h, WindowFrom(h, f, s, c)
      PROVE  WindowFrom(g, f, r, c)
  <2>1. f \in 1 .. n /\ Len(h) = n /\ s.maxStreakInWin \in Nat
    BY <1>1 DEF TargetState
  <2>2. Failed(g, f) /\ g[f].ts = r.firstErrorTime
    BY <1>1, <1>2, <1>4, <2>1 DEF WindowFrom
  <2>3. Failures(g, f) = Failures(h, f)
    BY <1>1, <1>2, <2>1 DEF Failures
  <2>4. \E q \in f .. n + 1 : q + r.maxStreakInWin - 1 <= n + 1 /\ AllFailed(g, q, q + r.maxStreakInWin - 1)
    <3>1. PICK q \in f .. n : q + s.maxStreakInWin - 1 <= n /\ AllFailed(h, q, q + s.maxStreakInWin - 1)
      BY <1>4, <2>1 DEF WindowFrom
    <3>2. AllFailed(g, q, q + s.maxStreakInWin - 1)
      <4>1. q \in Nat \ {0} /\ q + s.maxStreakInWin - 1 \in Int /\ q + s.maxStreakInWin - 1 <= n
        BY <1>1, <2>1, <3>1
      <4> QED
        BY <3>1, <4>1, SameRun
    <3> QED
      BY <1>1, <2>1, <3>1, <3>2
  <2>5. c.T = 0 => \A a, b \in DOMAIN g : AllFailed(g, a, b) => b - a + 1 <= r.maxStreakInWin
    <3> SUFFICES ASSUME c.T = 0, NEW a \in DOMAIN g, NEW b \in DOMAIN g, AllFailed(g, a, b)
                 PROVE  b - a + 1 <= r.maxStreakInWin
      OBVIOUS
    <3>1. CASE a > b
      BY <1>1, <2>1, <3>1
    <3>2. CASE a <= b
      <4>1. b \in 1 .. n /\ a \in 1 .. n
        BY <1>1, <1>2, <3>2 DEF AllFailed
      <4>2. AllFailed(h, a, b)
        BY <4>1, SameRun
      <4> QED
        BY <1>1, <1>4, <4>1, <4>2 DEF WindowFrom
    <3> QED
      BY <1>1, <3>1, <3>2
  <2>6. c.T = 0 => \A j \in 1 .. f - 1 : ~Failed(g, j)
    BY <1>1, <1>2, <1>4, <2>1 DEF WindowFrom
  <2>7. /\ r.currentStreak <= n + 1 - f + 1
        /\ AllFailed(g, n + 1 - r.currentStreak + 1, n + 1)
        /\ ~Failed(g, n + 1 - r.currentStreak)
    BY <1>1, <1>2, <2>1 DEF AllFailed
  <2> QED
    BY <1>1, <1>4, <2>2, <2>3, <2>4, <2>5, <2>6, <2>7, SMTT(30) DEF WindowFrom
<1>5. \A f \in DOMAIN h : f \in DOMAIN g
  BY <1>1
<1> QED
  BY <1>3, <1>4, <1>5 DEF Describes

(* The first failure of a window, whether it opens or restarts it.         *)
LEMMA WindowOpens ==
  ASSUME NEW h \in Seq(Entry), NEW g \in Seq(Entry), NEW n \in Nat,
         Longer(h, g, n), g[n + 1].sev = "critical",
         NEW r \in TargetState, NEW c \in ConfigType,
         c.T = 0 => \A j \in DOMAIN h : ~Failed(h, j),
         r.firstErrorTime = g[n + 1].ts, r.windowErrors = 1,
         r.maxStreakInWin = 1, r.currentStreak = 1
  PROVE  Describes(g, r, c)
<1>1. /\ Len(h) = n /\ Len(g) = n + 1 /\ DOMAIN h = 1 .. n /\ DOMAIN g = 1 .. n + 1
      /\ \A j \in 1 .. n : g[j] = h[j]
  BY DEF Longer
<1>2. /\ \A j \in 1 .. n : Failed(g, j) <=> Failed(h, j)
      /\ Failed(g, n + 1)
  BY <1>1 DEF Failed
<1>3. Cardinality(Failures(g, n + 1)) = 1
  <2>1. Failures(g, n + 1) = {n + 1}
    BY <1>1, <1>2 DEF Failures
  <2> QED
    BY <2>1, FS_Singleton
<1>4. AllFailed(g, n + 1, n + 1)
  BY <1>1, <1>2 DEF AllFailed
<1>5. c.T = 0 => \A a, b \in DOMAIN g : AllFailed(g, a, b) => b - a + 1 <= 1
  <2> SUFFICES ASSUME c.T = 0, NEW a \in DOMAIN g, NEW b \in DOMAIN g, AllFailed(g, a, b)
               PROVE  b - a + 1 <= 1
    OBVIOUS
  <2>1. CASE a <= n /\ a <= b
    BY <1>1, <1>2, <2>1 DEF AllFailed
  <2>2. CASE a = n + 1 \/ a > b
    BY <1>1, <2>2
  <2> QED
    BY <1>1, <2>1, <2>2
<1>6. c.T = 0 => \A j \in 1 .. n : ~Failed(g, j)
  BY <1>1, <1>2
<1>7. WindowFrom(g, n + 1, r, c)
  <2>1. \E q \in n + 1 .. Len(g) : /\ q + r.maxStreakInWin - 1 <= Len(g)
                                   /\ AllFailed(g, q, q + r.maxStreakInWin - 1)
    <3>1. n + 1 \in n + 1 .. Len(g) /\ n + 1 + r.maxStreakInWin - 1 = n + 1
      BY <1>1
    <3> QED
      BY <1>1, <1>4, <3>1
  <2>2. Len(g) - r.currentStreak = n /\ Len(g) - r.currentStreak + 1 = n + 1 /\ n + 1 - 1 = n
    BY <1>1
  <2>3. n >= 1 => n \in 1 .. n
    BY <1>1
  <2> QED
    BY <1>1, <1>2, <1>3, <1>4, <1>5, <1>6, <2>1, <2>2, <2>3 DEF WindowFrom
<1> QED
  BY <1>1, <1>7 DEF Describes

(* What WindowFrom says of the runs of failures in h, of length n: a run   *)
(* of k at the end, a run of x since f, no run longer than x, and no       *)
(* failure before the run at the end.                                      *)
EndsInRun(h, n, f, k) == k <= n - f + 1 /\ AllFailed(h, n - k + 1, n)

HasRun(h, n, f, x) == \E q \in f .. n : q + x - 1 <= n /\ AllFailed(h, q, q + x - 1)

Longest(h, D, x) == \A a, b \in D : AllFailed(h, a, b) => b - a + 1 <= x

Before(h, n, k) == n - k >= 1 => ~Failed(h, n - k)

LEMMA RunGrows ==
  ASSUME NEW h, NEW g, NEW n \in Nat, Longer(h, g, n), Failed(g, n + 1),
         NEW k \in Nat, NEW f \in 1 .. n, EndsInRun(h, n, f, k)
  PROVE  EndsInRun(g, n + 1, f, k + 1) /\ HasRun(g, n + 1, f, k + 1)
<1>1. /\ n - k + 1 \in Nat \ {0} /\ (n + 1) - (k + 1) + 1 = n - k + 1
      /\ n - k + 1 \in f .. n + 1 /\ (n - k + 1) + (k + 1) - 1 = n + 1
      /\ k + 1 <= (n + 1) - f + 1
  BY DEF EndsInRun
<1>2. AllFailed(g, n - k + 1, n)
  BY <1>1, SameRun DEF EndsInRun
<1>3. \A j \in n - k + 1 .. n + 1 : j = n + 1 \/ j \in n - k + 1 .. n
  BY <1>1
<1>4. AllFailed(g, n - k + 1, n + 1)
  BY <1>1, <1>2, <1>3 DEF AllFailed
<1>5. HasRun(g, n + 1, f, k + 1)
  <2>1. PICK q \in f .. n + 1 : q + (k + 1) - 1 = n + 1 /\ AllFailed(g, q, n + 1)
    BY <1>1, <1>4
  <2>2. q + (k + 1) - 1 <= n + 1
    BY <2>1
  <2> QED
    BY <2>1, <2>2 DEF HasRun
<1> QED
  BY <1>1, <1>4, <1>5 DEF EndsInRun

LEMMA RunRemains ==
  ASSUME NEW h, NEW g, NEW n \in Nat, Longer(h, g, n),
         NEW x \in Nat, NEW f \in 1 .. n, HasRun(h, n, f, x)
  PROVE  HasRun(g, n + 1, f, x)
<1>1. PICK q \in f .. n : q + x - 1 <= n /\ AllFailed(h, q, q + x - 1)
  BY DEF HasRun
<1>2. PICK b \in Int : b = q + x - 1
  OBVIOUS
<1>3. AllFailed(g, q, b)
  BY <1>1, <1>2, SameRun
<1>4. q \in f .. n + 1 /\ q + x - 1 <= n + 1
  BY <1>1
<1> QED
  BY <1>2, <1>3, <1>4 DEF HasRun

(* A run that ends at n + 1 is at most the run of k at the end and one     *)
(* more; any other is one of h.                                            *)
LEMMA LongestGrows ==
  ASSUME NEW h, NEW g, NEW n \in Nat, Longer(h, g, n),
         NEW k \in Nat, NEW x \in Nat, NEW y \in Nat, y >= x, y >= k + 1,
         Longest(h, 1 .. n, x), Before(h, n, k)
  PROVE  Longest(g, 1 .. n + 1, y) /\ Before(g, n + 1, k + 1)
<1>1. \A j \in 1 .. n : Failed(g, j) <=> Failed(h, j)
  BY DEF Longer, Failed
<1>2. Before(g, n + 1, k + 1)
  <2>1. (n + 1) - (k + 1) = n - k /\ (n - k >= 1 => n - k \in 1 .. n)
    OBVIOUS
  <2> QED
    BY <1>1, <2>1 DEF Before
<1>3. ASSUME NEW a \in 1 .. n + 1, NEW b \in 1 .. n + 1, AllFailed(g, a, b)
      PROVE  b - a + 1 <= y
  <2>1. CASE b = n + 1
    <3>1. ASSUME a <= n - k PROVE FALSE
      <4>1. n - k \in a .. b /\ n - k \in 1 .. n /\ n - k >= 1
        BY <2>1, <3>1
      <4> QED
        BY <1>1, <1>3, <4>1 DEF AllFailed, Before
    <3> QED
      BY <2>1, <3>1
  <2>2. CASE b # n + 1 /\ a <= b
    <3>1. a \in 1 .. n /\ b \in 1 .. n
      BY <2>2
    <3>2. AllFailed(h, a, b)
      BY <1>3, <3>1, SameRun
    <3>3. b - a + 1 <= x
      BY <3>1, <3>2 DEF Longest
    <3> QED
      BY <3>3
  <2>3. CASE a > b
    BY <2>3
  <2> QED
    BY <2>1, <2>2, <2>3
<1> QED
  BY <1>2, <1>3 DEF Longest

(* A further failure of an open window. *)
LEMMA WindowGrows ==
  ASSUME NEW h \in Seq(Entry), NEW g \in Seq(Entry), NEW n \in Nat,
         Longer(h, g, n), g[n + 1].sev = "critical",
         NEW s \in TargetState, NEW r \in TargetState, NEW c \in ConfigType,
         Describes(h, s, c), s.windowErrors > 0,
         r.firstErrorTime = s.firstErrorTime, r.windowErrors = s.windowErrors + 1,
         r.currentStreak = s.currentStreak + 1,
         r.maxStreakInWin = IF r.currentStreak > s.maxStreakInWin THEN r.currentStreak
                                                                  ELSE s.maxStreakInWin
  PROVE  Describes(g, r, c)
<1>1. /\ Len(h) = n /\ DOMAIN h = 1 .. n /\ Len(g) = n + 1 /\ DOMAIN g = 1 .. n + 1
      /\ \A j \in 1 .. n : g[j] = h[j]
  BY DEF Longer
<1> PICK k \in Nat, x \in Nat, y \in Nat :
      k = s.currentStreak /\ x = s.maxStreakInWin /\ y = r.maxStreakInWin
  BY DEF TargetState
<1>2. r.currentStreak = k + 1 /\ (y = k + 1 \/ y = x) /\ y >= k + 1 /\ y >= x
  OBVIOUS
<1>3. PICK f \in 1 .. n : WindowFrom(h, f, s, c)
  BY <1>1 DEF Describes
<1>4. /\ \A j \in 1 .. n : Failed(g, j) <=> Failed(h, j)
      /\ Failed(g, n + 1)
  BY <1>1 DEF Failed
<1>5. Failed(g, f) /\ g[f].ts = r.firstErrorTime
  BY <1>1, <1>3, <1>4 DEF WindowFrom
<1>6. Cardinality(Failures(g, f)) = r.windowErrors
  <2>1. Failures(g, f) = Failures(h, f) \cup {n + 1} /\ n + 1 \notin Failures(h, f)
    BY <1>1, <1>4 DEF Failures
  <2>2. IsFiniteSet(Failures(h, f))
    BY FailuresFinite
  <2>3. Cardinality(Failures(h, f) \cup {n + 1}) = Cardinality(Failures(h, f)) + 1
    BY <2>1, <2>2, FS_AddElement, Zenon
  <2>4. Cardinality(Failures(h, f)) = s.windowErrors
    BY <1>3, Zenon DEF WindowFrom
  <2> QED
    BY <2>1, <2>3, <2>4, Zenon
<1>7. EndsInRun(h, n, f, k) /\ HasRun(h, n, f, x)
  BY <1>1, <1>3, Zenon DEF WindowFrom, EndsInRun, HasRun
<1>8. EndsInRun(g, n + 1, f, k + 1) /\ HasRun(g, n + 1, f, y)
  BY <1>2, <1>4, <1>7, RunGrows, RunRemains
<1>9. ASSUME c.T = 0
      PROVE  /\ \A j \in 1 .. f - 1 : ~Failed(g, j)
             /\ Longest(g, 1 .. n + 1, y) /\ Before(g, n + 1, k + 1)
  <2>1. /\ \A j \in 1 .. f - 1 : ~Failed(h, j)
        /\ Longest(h, 1 .. n, x) /\ Before(h, n, k)
    BY <1>1, <1>3, <1>9, Zenon DEF WindowFrom, Longest, Before
  <2>2. \A j \in 1 .. f - 1 : j \in 1 .. n
    OBVIOUS
  <2>3. \A j \in 1 .. f - 1 : ~Failed(g, j)
    BY <1>4, <2>1, <2>2, Zenon
  <2> QED
    BY <1>2, <2>1, <2>3, LongestGrows
<1>10. WindowFrom(g, f, r, c)
  BY <1>1, <1>2, <1>5, <1>6, <1>8, <1>9, Zenon
  DEF WindowFrom, EndsInRun, HasRun, Longest, Before
<1>11. f \in DOMAIN g /\ ~(r.windowErrors = 0)
  <2>1. f \in DOMAIN g
    BY <1>1
  <2>2. s.windowErrors \in Nat
    BY DEF TargetState
  <2>3. ~(s.windowErrors + 1 = 0)
    BY <2>2
  <2> QED
    BY <2>1, <2>3, Zenon
<1> QED
  BY <1>10, <1>11, Zenon DEF Describes

-----------------------------------------------------------------------------
(* Windows and evidence. *)

(* A window that satisfies the rule when a failure arrives is evidence.    *)
LEMMA WindowIsEvidence ==
  ASSUME NEW h \in Seq(Entry), NEW s \in TargetState, NEW c \in ConfigType,
         Describes(h, s, c), s.windowErrors > 0, ConditionMet(s, c),
         NEW n \in Nat, n = Len(h), n \in DOMAIN h, Failed(h, n),
         c.T = 0 \/ PeriodOver(s, c, h[n].ts)
  PROVE  Evidence(h, c)
<1>1. PICK f \in 1 .. n : WindowFrom(h, f, s, c)
  BY DEF Describes
<1>2. PICK x \in Nat : x = s.maxStreakInWin
  BY DEF TargetState
<1>3. c.N \in Int /\ c.C \in BOOLEAN
  BY DEF ConfigType
<1>4. EnoughFailures(h, f, n, c)
  <2>1. CASE c.C
    <3>1. x >= c.N
      BY <1>2, <2>1 DEF ConditionMet
    <3>2. PICK q \in f .. n : q + x - 1 <= n /\ AllFailed(h, q, q + x - 1)
      BY <1>1, <1>2 DEF WindowFrom
    <3>3. n - f + 1 >= c.N /\ q + c.N - 1 <= n
      BY <1>3, <3>1, <3>2
    <3>4. \A j \in q .. (q + c.N - 1) : j \in q .. q + x - 1
      BY <1>3, <3>1
    <3>5. \A j \in q .. (q + c.N - 1) : Failed(h, j)
      BY <3>2, <3>4 DEF AllFailed
    <3> QED
      BY <2>1, <3>3, <3>5 DEF EnoughFailures
  <2>2. CASE ~c.C
    <3>1. Cardinality({j \in f .. n : Failed(h, j)}) >= c.N
      BY <1>1, <2>2 DEF WindowFrom, Failures, ConditionMet
    <3> QED
      BY <2>2, <3>1 DEF EnoughFailures
  <2> QED
    BY <2>1, <2>2
<1>5. AlarmingWindow(h, f, n, c)
  BY <1>1, <1>4 DEF AlarmingWindow, WindowFrom, PeriodOver
<1> QED
  BY <1>5 DEF Evidence

LEMMA EvidenceStays ==
  ASSUME NEW h \in Seq(Entry), NEW g \in Seq(Entry), NEW n \in Nat, NEW c \in ConfigType,
         Longer(h, g, n), Evidence(h, c)
  PROVE  Evidence(g, c)
<1>1. PICK i \in 1 .. n : \E f \in 1 .. i : AlarmingWindow(h, f, i, c)
  BY DEF Evidence, Longer
<1>2. PICK f \in 1 .. i : AlarmingWindow(h, f, i, c)
  BY <1>1
<1>3. \A j \in f .. i : g[j] = h[j] /\ (Failed(g, j) <=> Failed(h, j))
  BY DEF Longer, Failed
<1>4. {j \in f .. i : Failed(g, j)} = {j \in f .. i : Failed(h, j)}
  BY <1>3
<1>5. c.N \in Int
  BY DEF ConfigType
<1>6. \A k \in f .. i : k + c.N - 1 <= i => \A j \in k .. (k + c.N - 1) : j \in f .. i
  BY <1>5
<1>7. EnoughFailures(g, f, i, c)
  <2>1. CASE c.C
    BY <1>2, <1>3, <1>6, <2>1 DEF AlarmingWindow, EnoughFailures
  <2>2. CASE ~c.C
    BY <1>2, <1>4, <2>2 DEF AlarmingWindow, EnoughFailures
  <2> QED
    BY <2>1, <2>2
<1>8. f \in f .. i /\ i \in f .. i /\ i \in 1 .. n + 1
  OBVIOUS
<1>9. AlarmingWindow(g, f, i, c)
  BY <1>2, <1>3, <1>7, <1>8 DEF AlarmingWindow
<1> QED
  BY <1>8, <1>9 DEF Evidence, Longer

(* In immediate mode evidence means that the window satisfies the rule.    *)
LEMMA EvidenceIsMet ==
  ASSUME NEW h \in Seq(Entry), NEW s \in TargetState, NEW c \in ConfigType,
         Describes(h, s, c), c.T = 0, Evidence(h, c)
  PROVE  s.windowErrors > 0 /\ ConditionMet(s, c)
<1> PICK i \in 1 .. Len(h) : \E f \in 1 .. i : AlarmingWindow(h, f, i, c)
  BY DEF Evidence
<1>1. PICK e \in 1 .. i : AlarmingWindow(h, e, i, c)
  OBVIOUS
<1>2. i \in DOMAIN h /\ e \in DOMAIN h /\ Len(h) \in Nat /\ DOMAIN h = 1 .. Len(h)
  OBVIOUS
<1>3. s.windowErrors \in Nat /\ s.maxStreakInWin \in Nat /\ c.N \in Int /\ c.C \in BOOLEAN
  BY DEF TargetState, ConfigType
<1>4. s.windowErrors > 0
  BY <1>1, <1>2, <1>3 DEF Describes, AlarmingWindow
<1>5. PICK f \in DOMAIN h : WindowFrom(h, f, s, c)
  BY <1>4 DEF Describes
<1>6. CASE c.C
  <2>1. PICK k \in e .. i : /\ k + c.N - 1 <= i
                            /\ \A j \in k .. (k + c.N - 1) : Failed(h, j)
    BY <1>1, <1>6 DEF AlarmingWindow, EnoughFailures
  <2>2. CASE c.N >= 1
    <3> DEFINE b == k + c.N - 1
    <3>1. k \in DOMAIN h /\ b \in DOMAIN h /\ b - k + 1 = c.N
      BY <1>2, <1>3, <2>1, <2>2
    <3>2. AllFailed(h, k, b)
      BY <2>1 DEF AllFailed
    <3> HIDE DEF b
    <3>3. b - k + 1 <= s.maxStreakInWin
      BY <1>5, <3>1, <3>2 DEF WindowFrom
    <3> QED
      BY <1>3, <1>4, <1>6, <3>1, <3>3 DEF ConditionMet
  <2>3. CASE c.N < 1
    BY <1>3, <1>4, <1>6, <2>3 DEF ConditionMet
  <2> QED
    BY <1>3, <2>2, <2>3
<1>7. CASE ~c.C
  <2> DEFINE F == {j \in e .. i : Failed(h, j)}
  <2>1. Cardinality(F) >= c.N
    BY <1>1, <1>7 DEF AlarmingWindow, EnoughFailures
  <2>2. \A j \in 1 .. f - 1 : ~Failed(h, j)
    BY <1>5 DEF WindowFrom
  <2>3. \A j \in F : j \in f .. Len(h)
    BY <1>2, <2>2
  <2>4. F \in SUBSET Failures(h, f)
    BY <2>3 DEF Failures
  <2>5. IsFiniteSet(Failures(h, f)) /\ Cardinality(Failures(h, f)) \in Nat
    BY <1>2, FailuresFinite
  <2>6. Cardinality(F) \in Nat /\ Cardinality(F) <= Cardinality(Failures(h, f))
    BY <2>4, <2>5, FS_Subset, FS_CardinalityType
  <2>7. Cardinality(Failures(h, f)) = s.windowErrors
    BY <1>5 DEF WindowFrom
  <2> HIDE DEF F
  <2>8. s.windowErrors >= c.N
    BY <1>3, <2>1, <2>5, <2>6, <2>7
  <2> QED
    BY <1>4, <1>7, <2>8 DEF ConditionMet
<1> QED
  BY <1>3, <1>6, <1>7

-----------------------------------------------------------------------------
(* The inductive invariant: the state of each target fits its history.     *)
Fits(h, s, c) ==
  /\ Describes(h, s, c)
  /\ s.isAlarmed => EndsWith(h, s.consecutiveSuccess) /\ Evidence(h, c)

HInv == /\ IInv
        /\ hist \in [Target -> Seq(Entry)]
        /\ \A t \in Target : Fits(hist[t], StateOf(t), cfg[t])

LEMMA EmptyFits ==
  ASSUME NEW s, s.windowErrors = 0, ~s.isAlarmed, NEW c
  PROVE  Fits(<<>>, s, c)
BY DEF Fits, Describes

(* Fits looks at no other field. *)
LEMMA DescribesFields ==
  ASSUME NEW h, NEW s, NEW r, NEW c, Describes(h, s, c),
         r.firstErrorTime = s.firstErrorTime, r.windowErrors = s.windowErrors,
         r.maxStreakInWin = s.maxStreakInWin, r.currentStreak = s.currentStreak
  PROVE  Describes(h, r, c)
BY DEF Describes, WindowFrom

LEMMA NowEndsWith ==
  ASSUME NEW h \in Seq(Entry), NEW g \in Seq(Entry), NEW n \in Nat, Longer(h, g, n)
  PROVE  /\ g[n + 1].sev # "green" => EndsWith(g, 0)
         /\ \A k \in Nat : g[n + 1].sev = "green" /\ EndsWith(h, k) => EndsWith(g, k + 1)
<1>1. g[n + 1].sev # "green" => EndsWith(g, 0)
  BY DEF Longer, EndsWith
<1>2. ASSUME NEW k \in Nat, g[n + 1].sev = "green", EndsWith(h, k)
      PROVE  EndsWith(g, k + 1)
  <2>1. /\ k < n /\ h[n - k].sev # "green"
        /\ \A j \in n - k + 1 .. n : h[j].sev = "green"
    BY <1>2 DEF Longer, EndsWith
  <2>2. Len(g) = n + 1 /\ (n + 1) - (k + 1) = n - k
    BY DEF Longer
  <2>3. n - k \in 1 .. n
    BY <2>1
  <2>4. \A j \in n - k + 1 .. n + 1 : j = n + 1 \/ (j \in n - k + 1 .. n /\ j \in 1 .. n)
    BY <2>1
  <2>5. \A j \in n - k + 1 .. n + 1 : g[j].sev = "green"
    BY <1>2, <2>1, <2>4 DEF Longer
  <2> QED
    BY <2>1, <2>2, <2>3, <2>5 DEF EndsWith, Longer
<1> QED
  BY <1>1, <1>2

-----------------------------------------------------------------------------
(* One result and one target. *)
LEMMA CountedFields ==
  ASSUME NEW s \in TargetState, NEW ts
  PROVE  LET n == CountFailure(s, ts)
         IN  /\ n.firstErrorTime = IF s.windowErrors = 0 THEN ts ELSE s.firstErrorTime
             /\ n.windowErrors = s.windowErrors + 1
             /\ n.currentStreak = s.currentStreak + 1
             /\ n.maxStreakInWin = IF n.currentStreak > s.maxStreakInWin THEN n.currentStreak
                                                                         ELSE s.maxStreakInWin
BY DEF CountFailure, TargetState

(* A counted failure belongs to the window. *)
LEMMA CountedDescribes ==
  ASSUME NEW h \in Seq(Entry), NEW g \in Seq(Entry), NEW n \in Nat, Longer(h, g, n),
         g[n + 1].sev = "critical",
         NEW s \in TargetState, NEW c \in ConfigType,
         ConsistentState(s, c), Describes(h, s, c), g[n + 1].ts \in Nat \ {0}
  PROVE  Describes(g, CountFailure(s, g[n + 1].ts), c)
<1> DEFINE r == CountFailure(s, g[n + 1].ts)
<1>1. r \in TargetState
  BY CountFailureGood
<1>2. /\ r.firstErrorTime = IF s.windowErrors = 0 THEN g[n + 1].ts ELSE s.firstErrorTime
      /\ r.windowErrors = s.windowErrors + 1
      /\ r.currentStreak = s.currentStreak + 1
      /\ r.maxStreakInWin = IF r.currentStreak > s.maxStreakInWin THEN r.currentStreak
                                                                  ELSE s.maxStreakInWin
  BY CountedFields
<1>3. /\ s.windowErrors \in Nat /\ s.currentStreak \in Nat /\ s.maxStreakInWin \in Nat
      /\ s.currentStreak <= s.maxStreakInWin /\ s.maxStreakInWin <= s.windowErrors
  BY DEF TargetState, ConsistentState
<1> HIDE DEF r
<1>4. CASE s.windowErrors = 0
  <2>1. s.currentStreak = 0 /\ s.maxStreakInWin = 0
    BY <1>3, <1>4
  <2>2. r.windowErrors = 1 /\ r.currentStreak = 1 /\ r.maxStreakInWin = 1 /\ r.firstErrorTime = g[n + 1].ts
    BY <1>2, <1>4, <2>1
  <2>3. \A j \in DOMAIN h : ~Failed(h, j)
    BY <1>4 DEF Describes
  <2> QED
    BY <1>1, <2>2, <2>3, WindowOpens DEF r
<1>5. CASE s.windowErrors > 0
  <2>1. r.firstErrorTime = s.firstErrorTime
    BY <1>2, <1>3, <1>5
  <2> QED
    BY <1>1, <1>2, <1>5, <2>1, WindowGrows DEF r
<1> QED
  BY <1>3, <1>4, <1>5

(* What a critical result makes of a target. *)
LEMMA CriticalFits ==
  ASSUME NEW h \in Seq(Entry), NEW g \in Seq(Entry), NEW n \in Nat, Longer(h, g, n),
         g[n + 1].sev = "critical",
         NEW s, NEW c \in ConfigType, Good(s, c), Fits(h, s, c),
         NEW ts \in Nat \ {0}, g[n + 1].ts = ts,
         NEW r, LET judged == Judge(CountFailure(s, ts), c, ts)
                IN  r = judged \/ r = [judged EXCEPT !.lastReminderTime = ts]
  PROVE  Fits(g, r, c) /\ (s.isAlarmed => r.isAlarmed)
<1> DEFINE counted == CountFailure(s, ts)
           judged == Judge(counted, c, ts)
<1>1. s \in TargetState /\ ConsistentState(s, c)
  BY DEF Good
<1>2. /\ counted \in TargetState /\ ConsistentState(counted, c)
      /\ counted.windowErrors > 0 /\ counted.consecutiveSuccess = 0
      /\ counted.isAlarmed = s.isAlarmed
  BY <1>1, CountFailureGood
<1>3. Describes(g, counted, c)
  BY <1>1, CountedDescribes DEF Fits
<1>4. Good(judged, c) /\ (counted.isAlarmed => judged.isAlarmed)
  BY <1>2, JudgeGood
<1>5. /\ judged.consecutiveSuccess = 0 /\ Describes(g, judged, c)
      /\ judged.isAlarmed => s.isAlarmed \/ ShouldAlarm(counted, c, ts)
  <2> HIDE DEF counted
  <2>1. CASE WindowExpired(counted, c, ts)
    <3> DEFINE x == RestartWindow(counted, ts)
    <3>1. x = judged /\ c.T # 0
      BY <2>1 DEF Judge, WindowExpired, Raises, ShouldAlarm
    <3>2. /\ x \in TargetState /\ x.firstErrorTime = ts /\ x.windowErrors = 1
          /\ x.maxStreakInWin = 1 /\ x.currentStreak = 1
          /\ x.consecutiveSuccess = 0 /\ x.isAlarmed = s.isAlarmed
      BY <1>2 DEF RestartWindow, TargetState
    <3> HIDE DEF x
    <3>3. Describes(g, x, c)
      BY <3>1, <3>2, WindowOpens
    <3> QED
      BY <3>1, <3>2, <3>3
  <2>2. CASE ~WindowExpired(counted, c, ts) /\ Raises(counted, c, ts)
    <3> DEFINE x == [counted EXCEPT !.isAlarmed = TRUE, !.lastReminderTime = ts]
    <3>1. x = judged
      BY <2>2 DEF Judge
    <3>2. /\ x.firstErrorTime = counted.firstErrorTime /\ x.windowErrors = counted.windowErrors
          /\ x.maxStreakInWin = counted.maxStreakInWin /\ x.currentStreak = counted.currentStreak
          /\ x.consecutiveSuccess = 0
      BY <1>2 DEF TargetState
    <3> HIDE DEF x
    <3>3. Describes(g, x, c)
      BY <1>3, <3>2, DescribesFields
    <3> QED
      BY <2>2, <3>1, <3>2, <3>3 DEF Raises
  <2>3. CASE ~WindowExpired(counted, c, ts) /\ ~Raises(counted, c, ts)
    <3>1. judged = counted
      BY <2>3 DEF Judge
    <3> QED
      BY <1>2, <1>3, <3>1
  <2> QED
    BY <2>1, <2>2, <2>3
<1> HIDE DEF judged
<1>6. judged \in TargetState
  BY <1>4 DEF Good
<1>7. /\ r.isAlarmed = judged.isAlarmed /\ r.consecutiveSuccess = 0
      /\ r.firstErrorTime = judged.firstErrorTime /\ r.windowErrors = judged.windowErrors
      /\ r.maxStreakInWin = judged.maxStreakInWin /\ r.currentStreak = judged.currentStreak
  <2>1. r = judged \/ r = [judged EXCEPT !.lastReminderTime = ts]
    BY DEF judged
  <2> QED
    BY <1>5, <1>6, <2>1 DEF TargetState
<1>8. Describes(g, r, c)
  BY <1>5, <1>7, DescribesFields
<1>9. EndsWith(g, 0)
  BY NowEndsWith
<1>10. r.isAlarmed => Evidence(g, c)
  <2>1. CASE s.isAlarmed
    BY <2>1, EvidenceStays DEF Fits
  <2>2. CASE ShouldAlarm(counted, c, ts)
    <3>1. Failed(g, n + 1) /\ n + 1 = Len(g) /\ n + 1 \in DOMAIN g
      BY DEF Failed, Longer
    <3>2. ConditionMet(counted, c) /\ (c.T = 0 \/ PeriodOver(counted, c, g[n + 1].ts))
      BY <2>2 DEF ShouldAlarm
    <3> HIDE DEF counted
    <3> QED
      BY <1>2, <1>3, <3>1, <3>2, WindowIsEvidence
  <2> QED
    BY <1>5, <1>7, <2>1, <2>2
<1> QED
  BY <1>2, <1>4, <1>7, <1>8, <1>9, <1>10 DEF Fits

(* What a result that is no failure leaves of a state. *)
AfterSuccess(s, k) == [[s EXCEPT !.currentStreak = 0] EXCEPT !.consecutiveSuccess = k]

(* What any other result makes of it, unless it ends an alarm. *)
LEMMA SuccessFits ==
  ASSUME NEW h \in Seq(Entry), NEW g \in Seq(Entry), NEW n \in Nat, Longer(h, g, n),
         g[n + 1].sev # "critical",
         NEW s \in TargetState, NEW c \in ConfigType, Fits(h, s, c),
         NEW k \in Nat,
         s.isAlarmed => \/ k = 0 /\ g[n + 1].sev # "green"
                        \/ k = s.consecutiveSuccess + 1 /\ g[n + 1].sev = "green",
         NEW r, r = AfterSuccess(s, k)
  PROVE  Fits(g, r, c) /\ r.isAlarmed = s.isAlarmed
<1>1. /\ r \in TargetState /\ r.isAlarmed = s.isAlarmed /\ r.consecutiveSuccess = k
      /\ r.firstErrorTime = s.firstErrorTime /\ r.windowErrors = s.windowErrors
      /\ r.maxStreakInWin = s.maxStreakInWin /\ r.currentStreak = 0
  BY DEF TargetState, AfterSuccess
<1>2. Describes(g, r, c)
  BY <1>1, WindowAfterSuccess DEF Fits
<1>3. r.isAlarmed => EndsWith(g, k)
  <2>1. s.consecutiveSuccess \in Nat
    BY DEF TargetState
  <2> QED
    BY <1>1, <2>1, NowEndsWith DEF Fits
<1>4. r.isAlarmed => Evidence(g, c)
  BY <1>1, EvidenceStays DEF Fits
<1> QED
  BY <1>1, <1>2, <1>3, <1>4 DEF Fits

(* The R - 1 results before a recovery were green. *)
LEMMA SuccessesAreGreen ==
  ASSUME NEW h \in Seq(Entry), NEW k \in Nat, EndsWith(h, k), NEW m \in Nat, m <= k
  PROVE  TrailingGreens(h, m)
BY DEF EndsWith, TrailingGreens

LEMMA SeverityKnown ==
  ASSUME NEW t, NEW p
  PROVE  /\ SeverityOf(t, p) \in Severities
         /\ IsCritical(cfg[t], p) => SeverityOf(t, p) = "critical"
         /\ ~IsCritical(cfg[t], p) /\ IsWarning(cfg[t], p) => SeverityOf(t, p) = "warning"
         /\ ~IsCritical(cfg[t], p) /\ ~IsWarning(cfg[t], p) => SeverityOf(t, p) = "green"
BY DEF SeverityOf, Severities

-----------------------------------------------------------------------------
(* The steps of the engine. *)
LEMMA StoredState ==
  ASSUME IInv, NEW t \in Target, NEW n, states' = WithState(t, n)
  PROVE  /\ states'[t] = n /\ t \in DOMAIN states'
         /\ \A x \in Target : StateOf(x)' = IF x = t THEN n ELSE StateOf(x)
         /\ \A x \in Target \ {t} : Alarmed(states', x) <=> Alarmed(states, x)
BY DEF WithState, StateOf, Alarmed

(* A result is stored and entered in the history, unless it ends an alarm. *)
LEMMA ResultEntered ==
  ASSUME HInv, NEW t \in Target, NEW n, states' = WithState(t, n), UNCHANGED cfg,
         NEW h \in Seq(Entry), hist' = [hist EXCEPT ![t] = h],
         Fits(h, n, cfg[t]), IInv'
  PROVE  HInv'
<1>1. \A x \in Target : StateOf(x)' = IF x = t THEN n ELSE StateOf(x)
  BY StoredState DEF HInv
<1>2. hist' \in [Target -> Seq(Entry)] /\ \A x \in Target : hist'[x] = IF x = t THEN h ELSE hist[x]
  BY DEF HInv
<1>3. \A x \in Target : Fits(hist'[x], StateOf(x)', cfg[x])
  BY <1>1, <1>2 DEF HInv
<1> QED
  BY <1>2, <1>3 DEF HInv

LEMMA HResultInv ==
  ASSUME HInv, NEW t \in Target, NEW p \in Probe, NEW ts \in Stamps, HProcessResult(t, p, ts), IInv'
  PROVE  /\ HInv'
         /\ \A x \in Target : Recovers(x) =>
              TrailingGreens(hist[x], IF cfg[x].R < 1 THEN 0 ELSE cfg[x].R - 1)
<1> DEFINE s == StateOf(t)
           c == cfg[t]
           h == hist[t]
           e == [sev |-> SeverityOf(t, p), ts |-> ts]
           g == Append(h, e)
<1>1. /\ Good(s, c) /\ c \in ConfigType /\ s \in TargetState /\ s.isAlarmed = Alarmed(states, t)
      /\ Fits(h, s, c) /\ h \in Seq(Entry) /\ IInv
  BY StateOfGood DEF HInv
<1>2. ts \in Nat \ {0} /\ UNCHANGED <<parentMap, cfg>>
  BY DEF HProcessResult, ProcessResult, Stamps, HInv, IInv, TypeOK
<1>3. e \in Entry /\ e.sev = SeverityOf(t, p) /\ e.ts = ts
  BY <1>2, SeverityKnown DEF Entry
<1> HIDE DEF e
<1>4. g \in Seq(Entry)
  BY <1>1, <1>3, Appended
<1>5. PICK n \in Nat : Longer(h, g, n) /\ g[n + 1] = e
  BY <1>1, <1>3, Appended
<1>6. hist' = [hist EXCEPT ![t] = IF Recovers(t) THEN <<>> ELSE g]
  BY DEF HProcessResult, e
<1> HIDE DEF s, c, h, g
<1>7. ASSUME NEW r, states' = WithState(t, r), s.isAlarmed => r.isAlarmed, Fits(g, r, c)
      PROVE  HInv' /\ \A x \in Target : ~Recovers(x)
  <2>1. /\ states'[t] = r /\ t \in DOMAIN states'
        /\ \A x \in Target \ {t} : Alarmed(states', x) <=> Alarmed(states, x)
    BY <1>1, <1>7, StoredState
  <2>2. \A x \in Target : ~Recovers(x)
    BY <1>1, <1>7, <2>1 DEF Recovers, Alarmed
  <2>3. hist' = [hist EXCEPT ![t] = g]
    BY <1>6, <2>2
  <2> QED
    BY <1>2, <1>4, <1>7, <2>2, <2>3, ResultEntered DEF c
<1>8. CASE IsCritical(cfg[t], p)
  <2> DEFINE judged == Judge(CountFailure(s, ts), c, ts)
  <2>1. HandleCritical(t, ts)
    BY <1>8 DEF HProcessResult, ProcessResult
  <2>2. PICK r : /\ states' = WithState(t, r)
                 /\ r = judged \/ r = [judged EXCEPT !.lastReminderTime = ts]
    BY <2>1, Zenon DEF HandleCritical, s, c
  <2>3. g[n + 1].sev = "critical" /\ g[n + 1].ts = ts
    BY <1>3, <1>5, <1>8, SeverityKnown
  <2>4. Fits(g, r, c) /\ (s.isAlarmed => r.isAlarmed)
    BY <1>1, <1>2, <1>4, <1>5, <2>2, <2>3, CriticalFits
  <2> QED
    BY <1>7, <2>2, <2>4
<1>9. CASE ~IsCritical(cfg[t], p)
  <2> DEFINE z == [s EXCEPT !.currentStreak = 0]
             ended(k) == [z EXCEPT !.consecutiveSuccess = k]
             w == IsWarning(cfg[t], p)
  <2>1. /\ z.isAlarmed = s.isAlarmed /\ z.consecutiveSuccess = s.consecutiveSuccess
        /\ z \in TargetState
        /\ s.consecutiveSuccess \in Nat /\ c.R \in Int
    BY <1>1 DEF TargetState, ConfigType
  <2>2. z = ended(s.consecutiveSuccess)
    BY <2>1 DEF TargetState
  <2>3. HandleSuccessOrWarning(t, w)
    BY <1>9 DEF HProcessResult, ProcessResult
  <2>4. \/ w /\ states' = WithState(t, ended(0))
        \/ ~w /\ ~s.isAlarmed /\ states' = WithState(t, z)
        \/ ~w /\ s.isAlarmed /\ states' = WithState(t, [z EXCEPT !.consecutiveSuccess = z.consecutiveSuccess + 1])
        \/ /\ ~w /\ s.isAlarmed /\ s.consecutiveSuccess + 1 >= c.R
           /\ states' = WithState(t, Recovered(z))
    BY <2>1, <2>3, Zenon DEF HandleSuccessOrWarning, RecoveryComplete, s, c
  <2>5. /\ g[n + 1].sev # "critical"
        /\ w => g[n + 1].sev # "green"
        /\ ~w => g[n + 1].sev = "green"
    BY <1>3, <1>5, <1>9, SeverityKnown
  <2> HIDE DEF w
  <2>6. ASSUME NEW k \in Nat,
               s.isAlarmed => \/ k = 0 /\ g[n + 1].sev # "green"
                              \/ k = s.consecutiveSuccess + 1 /\ g[n + 1].sev = "green",
               states' = WithState(t, ended(k))
        PROVE  HInv' /\ \A x \in Target : ~Recovers(x)
    <3>1. PICK r : r = AfterSuccess(s, k)
      OBVIOUS
    <3>2. r = ended(k)
      BY <3>1, Zenon DEF AfterSuccess
    <3> HIDE DEF ended, z
    <3>3. Longer(h, g, n) /\ g[n + 1].sev # "critical"
      BY <1>5, <2>5
    <3>4. Fits(g, r, c) /\ r.isAlarmed = s.isAlarmed
      BY <1>1, <1>4, <2>6, <3>1, <3>3, SuccessFits
    <3> QED
      BY <1>7, <2>6, <3>2, <3>4
  <2>7. CASE w /\ states' = WithState(t, ended(0))
    <3> HIDE DEF ended
    <3> QED
      BY <2>5, <2>6, <2>7
  <2>8. CASE ~w /\ ~s.isAlarmed /\ states' = WithState(t, z)
    <3> HIDE DEF ended, z
    <3> QED
      BY <2>1, <2>2, <2>6, <2>8
  <2>9. CASE ~w /\ s.isAlarmed /\ states' = WithState(t, [z EXCEPT !.consecutiveSuccess = z.consecutiveSuccess + 1])
    <3>1. states' = WithState(t, ended(s.consecutiveSuccess + 1))
      BY <2>1, <2>9
    <3> HIDE DEF ended, z
    <3> QED
      BY <2>1, <2>5, <2>6, <2>9, <3>1
  <2>10. CASE /\ ~w /\ s.isAlarmed /\ s.consecutiveSuccess + 1 >= c.R
              /\ states' = WithState(t, Recovered(z))
    <3>1. ~Recovered(z).isAlarmed /\ Recovered(z).windowErrors = 0
      BY <2>1, RecoveredGood DEF Recovered, TargetState
    <3>2. Fits(<<>>, Recovered(z), c)
      BY <3>1, EmptyFits
    <3>3. /\ states'[t] = Recovered(z) /\ t \in DOMAIN states'
          /\ \A x \in Target \ {t} : Alarmed(states', x) <=> Alarmed(states, x)
      BY <1>1, <2>10, StoredState
    <3>4. Recovers(t) /\ \A x \in Target : Recovers(x) => x = t
      BY <1>1, <2>10, <3>1, <3>3 DEF Recovers, Alarmed
    <3>5. hist' = [hist EXCEPT ![t] = <<>>]
      BY <1>6, <3>4
    <3>6. HInv'
      <4>1. <<>> \in Seq(Entry)
        OBVIOUS
      <4> HIDE DEF z
      <4> QED
        BY <1>2, <2>10, <3>2, <3>5, <4>1, ResultEntered DEF c
    <3>7. TrailingGreens(h, IF c.R < 1 THEN 0 ELSE c.R - 1)
      <4>1. PICK k \in Nat : k = s.consecutiveSuccess
        BY <2>1
      <4>2. EndsWith(h, k)
        BY <1>1, <2>10, <4>1 DEF Fits
      <4>3. PICK m \in Nat : m = (IF c.R < 1 THEN 0 ELSE c.R - 1) /\ m <= k
        BY <2>1, <2>10, <4>1
      <4> QED
        BY <1>1, <4>2, <4>3, SuccessesAreGreen
    <3> QED
      BY <3>4, <3>6, <3>7 DEF h, c
  <2> QED
    BY <2>4, <2>7, <2>8, <2>9, <2>10
<1> QED
  BY <1>8, <1>9

LEMMA HResetInv ==
  ASSUME HInv, NEW t \in Target, NEW c \in Config, HResetTarget(t, c), IInv'
  PROVE  HInv' /\ \A x \in Target : ~Recovers(x)
<1>1. /\ states' = [x \in DOMAIN states \ {t} |-> states[x]]
      /\ cfg' = [cfg EXCEPT ![t] = c] /\ hist' = [hist EXCEPT ![t] = <<>>]
  BY DEF HResetTarget, ResetTarget
<1>2. \A x \in Target : StateOf(x)' = IF x = t THEN Fresh ELSE StateOf(x)
  BY <1>1 DEF StateOf
<1>3. /\ \A x \in Target : cfg'[x] = IF x = t THEN c ELSE cfg[x]
      /\ \A x \in Target : hist'[x] = IF x = t THEN <<>> ELSE hist[x]
      /\ hist' \in [Target -> Seq(Entry)]
  <2>1. <<>> \in Seq(Entry)
    OBVIOUS
  <2> QED
    BY <1>1, <2>1 DEF HInv, IInv, TypeOK
<1>4. Fits(<<>>, Fresh, c)
  BY EmptyFits DEF Fresh
<1>5. HInv'
  BY <1>2, <1>3, <1>4 DEF HInv
<1>6. \A x \in Target : ~Recovers(x)
  BY <1>1 DEF Recovers, Alarmed
<1> QED
  BY <1>5, <1>6

LEMMA HStays ==
  ASSUME HInv, UNCHANGED <<states, cfg, hist>>, IInv'
  PROVE  HInv' /\ \A x \in Target : ~Recovers(x)
<1>1. \A x \in Target : StateOf(x)' = StateOf(x)
  BY DEF StateOf
<1> QED
  BY <1>1 DEF HInv, Recovers, Alarmed

LEMMA HNextIsNext == [HNext]_hvars => [Next]_vars
BY DEF HNext, hvars, Next, HProcessResult, HResetTarget, HTick

LEMMA HInitInv == HInit => HInv
<1> SUFFICES ASSUME HInit PROVE HInv
  OBVIOUS
<1>1. IInv
  BY InitIInv DEF HInit
<1>2. hist = [t \in Target |-> <<>>] /\ \A t \in Target : StateOf(t) = Fresh
  BY DEF HInit, Init, StateOf
<1>3. \A c : Fits(<<>>, Fresh, c)
  BY EmptyFits DEF Fresh
<1>4. hist \in [Target -> Seq(Entry)]
  BY <1>2
<1> QED
  BY <1>1, <1>2, <1>3, <1>4 DEF HInv

LEMMA HNextInv ==
  ASSUME HInv, [HNext]_hvars
  PROVE  /\ HInv'
         /\ \A x \in Target : Recovers(x) =>
              TrailingGreens(hist[x], IF cfg[x].R < 1 THEN 0 ELSE cfg[x].R - 1)
<1>1. IInv'
  BY HNextIsNext, NextIInv DEF HInv
<1>2. CASE \E t \in Target, p \in Probe, ts \in Stamps : HProcessResult(t, p, ts)
  BY <1>1, <1>2, HResultInv
<1>3. CASE \E t \in Target, c \in Config : HResetTarget(t, c)
  BY <1>1, <1>3, HResetInv
<1>4. CASE HTick \/ UNCHANGED hvars
  BY <1>1, <1>4, HStays DEF HTick, Tick, hvars, vars
<1> QED
  BY <1>2, <1>3, <1>4 DEF HNext

-----------------------------------------------------------------------------
(* The theorems. *)
LEMMA HistoryInvariant == HSpec => []HInv
<1>1. HInv /\ [HNext]_hvars => HInv'
  BY HNextInv
<1> QED
  BY <1>1, HInitInv, PTL DEF HSpec

(* The history only watches: what holds of the engine holds here.          *)
THEOREM HistoryWatches == HSpec => Spec
<1>1. HInit => Init
  BY DEF HInit
<1> QED
  BY <1>1, HNextIsNext, PTL DEF HSpec, Spec

(* A target is in alarm only if its history holds the evidence, and, in    *)
(* immediate mode, always when it does.                                    *)
THEOREM AlarmsMatchHistory == HSpec => []AlarmMatchesHistory
<1>1. HInv => AlarmMatchesHistory
  <2> SUFFICES ASSUME HInv, NEW t \in Target
               PROVE  /\ Alarmed(states, t) => Evidence(hist[t], cfg[t])
                      /\ cfg[t].T = 0 /\ Evidence(hist[t], cfg[t]) => Alarmed(states, t)
    BY DEF AlarmMatchesHistory, Evidence
  <2>1. /\ Good(StateOf(t), cfg[t]) /\ cfg[t] \in ConfigType
        /\ StateOf(t) \in TargetState /\ StateOf(t).isAlarmed = Alarmed(states, t)
        /\ Fits(hist[t], StateOf(t), cfg[t]) /\ hist[t] \in Seq(Entry)
    BY StateOfGood DEF HInv
  <2>2. Alarmed(states, t) => Evidence(hist[t], cfg[t])
    BY <2>1 DEF Fits
  <2>3. cfg[t].T = 0 /\ Evidence(hist[t], cfg[t]) => Alarmed(states, t)
    BY <2>1, EvidenceIsMet DEF Fits, Good, NothingMissed
  <2> QED
    BY <2>2, <2>3
<1> QED
  BY <1>1, HistoryInvariant, PTL

(* An alarm whose last R results are green is over.                        *)
THEOREM NoRecoveryOverdue == HSpec => []NoOverdueRecovery
<1>1. HInv => NoOverdueRecovery
  <2> SUFFICES ASSUME HInv, NEW t \in Target, Alarmed(states, t)
               PROVE  ~TrailingGreens(hist[t], IF cfg[t].R < 1 THEN 1 ELSE cfg[t].R)
    BY DEF NoOverdueRecovery
  <2>1. /\ Good(StateOf(t), cfg[t]) /\ cfg[t] \in ConfigType
        /\ StateOf(t) \in TargetState /\ StateOf(t).isAlarmed
        /\ Fits(hist[t], StateOf(t), cfg[t]) /\ hist[t] \in Seq(Entry)
    BY StateOfGood DEF HInv
  <2>2. PICK k \in Nat : /\ EndsWith(hist[t], k)
                         /\ k > 0 => k < cfg[t].R
    BY <2>1 DEF Fits, Good, ConsistentState, TargetState
  <2>3. PICK m \in Nat : m = (IF cfg[t].R < 1 THEN 1 ELSE cfg[t].R) /\ m > k
    <3>1. PICK q \in Int : q = cfg[t].R
      BY <2>1 DEF ConfigType
    <3>2. k > 0 => k < q
      BY <2>2, <3>1
    <3>3. (IF q < 1 THEN 1 ELSE q) \in Nat /\ (IF q < 1 THEN 1 ELSE q) > k
      BY <3>2
    <3> QED
      BY <3>1, <3>3
  <2>4. PICK n \in Nat : n = Len(hist[t]) /\ DOMAIN hist[t] = 1 .. n
    BY <2>1
  <2>5. n - k \in 1 .. n /\ hist[t][n - k].sev # "green"
    BY <2>2, <2>4 DEF EndsWith
  <2>6. n - k \in n - m + 1 .. n
    BY <2>3, <2>5
  <2> QED
    BY <2>3, <2>4, <2>5, <2>6 DEF TrailingGreens
<1> QED
  BY <1>1, HistoryInvariant, PTL

(* When a result ends an alarm, the R - 1 results before it were green.    *)
THEOREM RecoveriesAreEarned == HSpec => RecoveryEarned
<1>1. HInv /\ [HNext]_hvars =>
        [\A t \in Target : Recovers(t) =>
           TrailingGreens(hist[t], IF cfg[t].R < 1 THEN 0 ELSE cfg[t].R - 1)]_hvars
  BY HNextInv
<1> QED
  BY <1>1, HistoryInvariant, PTL DEF HSpec, RecoveryEarned

-----------------------------------------------------------------------------
(* A sustained outage.  Stamps run back by the lag at most, and in an      *)
(* outage they advance by the gap at most.                                 *)
Gaps(k) == k * MaxGap

Paced(h, clock) ==
  /\ \A a \in DOMAIN h : h[a].ts <= clock
  /\ \A a, b \in DOMAIN h : a <= b => h[a].ts <= h[b].ts + MaxLag
  /\ \A a \in DOMAIN h : OutageSince(h, a) =>
       h[Len(h)].ts - h[a].ts <= Gaps(Len(h) - a)

(* The window of a delayed rule that began with failure f: the failures    *)
(* that h ends with are in its streak; if h ends in an outage, T has not   *)
(* passed since f, and f comes at most one period and one gap after the    *)
(* start of the outage, give or take the lag.                              *)
DelayedWindow(h, f, streak, T) ==
  /\ \A i \in f .. Len(h) : AllFailed(h, i, Len(h)) => Len(h) - i + 1 <= streak
  /\ \A i \in DOMAIN h : OutageSince(h, i) =>
       /\ h[Len(h)].ts - h[f].ts < T
       /\ h[f].ts <= h[i].ts + MaxLag + T + MaxGap

(* The rules for which checks are frequent enough. *)
Fitting(c) == c.T > 0 /\ Gaps(c.N - 1) <= c.T

Watches(h, s, c) ==
  Fitting(c) /\ ~s.isAlarmed /\ s.windowErrors > 0 =>
    \E f \in DOMAIN h : /\ h[f].ts = s.firstErrorTime
                        /\ DelayedWindow(h, f, s.currentStreak, c.T)

SInv == /\ HInv
        /\ \A t \in Target : /\ Paced(hist[t], now)
                             /\ Watches(hist[t], StateOf(t), cfg[t])

-----------------------------------------------------------------------------
LEMMA Squeeze ==
  ASSUME NEW a \in Nat, NEW b \in Nat, NEW x \in Int, NEW y \in Nat, a - b <= x, a - b >= y
  PROVE  y <= x
OBVIOUS

LEMMA TwoSteps ==
  ASSUME NEW a \in Nat, NEW b \in Nat, NEW c \in Nat, NEW x \in Int, NEW y \in Nat,
         a - b <= y, b - c <= x
  PROVE  a - c <= x + y
OBVIOUS

LEMMA Slack ==
  ASSUME NEW a \in Nat, NEW b \in Nat, NEW x \in Nat, NEW y \in Nat, NEW z \in Nat, a <= b + x
  PROVE  a <= b + x + y + z
OBVIOUS

LEMMA ThreeSteps ==
  ASSUME NEW a \in Nat, NEW b \in Nat, NEW c \in Nat, NEW d \in Nat,
         NEW x \in Nat, NEW y \in Nat, NEW z \in Nat,
         a - b <= x, b - c < y, c <= d + z
  PROVE  a <= d + z + y + x
OBVIOUS

LEMMA OneMoreGap ==
  ASSUME NEW k \in Int
  PROVE  Gaps(k) \in Int /\ Gaps(k + 1) = Gaps(k) + MaxGap
BY HistoryAssumption DEF Gaps

LEMMA Below ==
  ASSUME NEW k \in Nat, NEW m \in Nat, NEW w \in Nat, NEW N \in Int,
         k + 1 <= m, m <= w, ~(m >= N) \/ ~(w >= N)
  PROVE  k + 1 < N
OBVIOUS

LEMMA Counts ==
  ASSUME NEW k \in Nat, NEW T \in Nat, T > 0
  PROVE  k + 1 \in Nat \ {0} /\ T \in Nat \ {0}
OBVIOUS

(* A period with room for N checks is longer than fewer of them take. *)
LEMMA NoRoom ==
  ASSUME NEW N \in Int, NEW T \in Int, NEW k \in Nat,
         T > 0, Gaps(N - 1) <= T, k + 1 <= N - 1
  PROVE  Gaps(k) < T
<1> DEFINE m == N - 1 - (k + 1)
           y == MaxGap
<1>1. m \in Nat /\ N - 1 = k + 1 + m
  OBVIOUS
<1>2. y \in Nat
  BY HistoryAssumption
<1> HIDE DEF m, y
<1>3. (k + 1 + m) * y = k * y + y + m * y
  BY <1>1, <1>2
<1>4. k * y \in Nat /\ m * y \in Nat
  BY <1>1, <1>2
<1>5. k * y + y <= T
  BY <1>1, <1>2, <1>3, <1>4 DEF Gaps, y
<1>6. CASE y = 0
  BY <1>6 DEF Gaps, y
<1>7. CASE y > 0
  BY <1>2, <1>4, <1>5, <1>7 DEF Gaps, y
<1> QED
  BY <1>2, <1>6, <1>7

LEMMA Stamped ==
  ASSUME NEW h \in Seq(Entry), NEW j \in DOMAIN h
  PROVE  h[j].ts \in Nat
<1>1. h[j] \in Entry
  OBVIOUS
<1> QED
  BY <1>1 DEF Entry

(* An outage that goes on was one before. *)
LEMMA OutageShrinks ==
  ASSUME NEW h \in Seq(Entry), NEW g \in Seq(Entry), NEW n \in Nat, Longer(h, g, n),
         NEW i \in 1 .. n + 1, OutageSince(g, i)
  PROVE  /\ Failed(g, n + 1)
         /\ i <= n => /\ OutageSince(h, i) /\ AllFailed(h, i, n)
                      /\ g[n + 1].ts - h[n].ts \in 0 .. MaxGap
<1>1. /\ Len(h) = n /\ Len(g) = n + 1 /\ \A j \in 1 .. n : g[j] = h[j]
  BY DEF Longer
<1>2. \A j \in i .. n + 1 : Failed(g, j) /\ (j > i => g[j].ts - g[j - 1].ts \in 0 .. MaxGap)
  BY <1>1 DEF OutageSince
<1>3. Failed(g, n + 1)
  BY <1>2
<1>4. ASSUME i <= n
      PROVE  /\ OutageSince(h, i) /\ AllFailed(h, i, n)
             /\ g[n + 1].ts - h[n].ts \in 0 .. MaxGap
  <2>1. \A j \in i .. n : j \in i .. n + 1 /\ j \in 1 .. n /\ (j > i => j - 1 \in 1 .. n)
    OBVIOUS
  <2>2. \A j \in i .. n : Failed(h, j) /\ (j > i => h[j].ts - h[j - 1].ts \in 0 .. MaxGap)
    BY <1>1, <1>2, <2>1 DEF Failed
  <2>3. n + 1 \in i .. n + 1 /\ n + 1 > i /\ (n + 1) - 1 = n /\ n \in 1 .. n
    BY <1>4
  <2>4. g[n + 1].ts - h[n].ts \in 0 .. MaxGap
    BY <1>1, <1>2, <2>3
  <2> QED
    BY <1>1, <2>2, <2>4 DEF OutageSince, AllFailed
<1> QED
  BY <1>3, <1>4

LEMMA PacedLonger ==
  ASSUME NEW h \in Seq(Entry), NEW g \in Seq(Entry), NEW n \in Nat, Longer(h, g, n),
         now \in Nat, Paced(h, now), g[n + 1].ts \in Stamps
  PROVE  Paced(g, now)
<1> MaxLag \in Nat /\ MaxGap \in Nat
  BY ConstantsAssumption, HistoryAssumption
<1>1. /\ Len(h) = n /\ Len(g) = n + 1 /\ DOMAIN h = 1 .. n /\ DOMAIN g = 1 .. n + 1
      /\ \A j \in 1 .. n : g[j] = h[j]
      /\ \A j \in 1 .. n : h[j].ts \in Nat
  BY Stamped DEF Longer
<1>2. g[n + 1].ts \in Nat /\ g[n + 1].ts <= now /\ now - g[n + 1].ts <= MaxLag
  BY DEF Stamps
<1>3. \A a \in DOMAIN g : a = n + 1 \/ a \in 1 .. n
  BY <1>1
<1>4. \A a \in DOMAIN g : g[a].ts <= now
  BY <1>1, <1>2, <1>3 DEF Paced
<1>5. ASSUME NEW a \in DOMAIN g, NEW b \in DOMAIN g, a <= b
      PROVE  g[a].ts <= g[b].ts + MaxLag
  <2>1. CASE b = n + 1
    <3>1. g[a].ts \in Nat /\ g[a].ts <= now
      BY <1>1, <1>2, <1>3, <1>4
    <3> QED
      BY <1>2, <2>1, <3>1
  <2>2. CASE b # n + 1
    <3>1. a \in 1 .. n /\ b \in 1 .. n
      BY <1>1, <1>3, <1>5, <2>2
    <3> QED
      BY <1>1, <1>5, <3>1 DEF Paced
  <2> QED
    BY <2>1, <2>2
<1>6. ASSUME NEW a \in DOMAIN g, OutageSince(g, a)
      PROVE  g[n + 1].ts - g[a].ts <= Gaps(n + 1 - a)
  <2>1. CASE a = n + 1
    BY <1>2, <2>1 DEF Gaps
  <2>2. CASE a \in 1 .. n
    <3>1. OutageSince(h, a) /\ g[n + 1].ts - h[n].ts \in 0 .. MaxGap
      <4>1. a \in 1 .. n + 1 /\ a <= n
        BY <2>2
      <4> QED
        BY <1>6, <4>1, OutageShrinks, Zenon
    <3>2. h[n].ts - h[a].ts <= Gaps(n - a)
      BY <1>1, <2>2, <3>1 DEF Paced
    <3>3. PICK x \in Int : x = Gaps(n - a) /\ Gaps(n + 1 - a) = x + MaxGap
      <4>1. n - a \in Int /\ n + 1 - a = n - a + 1
        BY <2>2
      <4> HIDE DEF Paced
      <4> QED
        BY <4>1, OneMoreGap
    <3>4. h[n].ts \in Nat /\ h[a].ts \in Nat /\ g[a] = h[a]
      BY <1>1, <2>2
    <3>5. h[n].ts - h[a].ts <= x
      BY <3>2, <3>3
    <3>6. PICK u \in Nat, v \in Nat, z \in Nat : u = g[n + 1].ts /\ v = h[n].ts /\ z = h[a].ts
      BY <1>2, <3>4
    <3>7. u - v <= MaxGap /\ v - z <= x
      BY <3>1, <3>5, <3>6
    <3>8. u - z <= x + MaxGap
      BY <3>3, <3>6, <3>7, TwoSteps, Zenon
    <3> QED
      BY <3>3, <3>4, <3>6, <3>8
  <2> QED
    BY <1>3, <2>1, <2>2
<1> QED
  BY <1>1, <1>4, <1>5, <1>6 DEF Paced

(* A result that is no failure ends the outage. *)
LEMMA WatchesAfterSuccess ==
  ASSUME NEW h \in Seq(Entry), NEW g \in Seq(Entry), NEW n \in Nat, Longer(h, g, n),
         g[n + 1].sev # "critical",
         NEW s, NEW r, NEW c, Watches(h, s, c),
         r.isAlarmed = s.isAlarmed, r.windowErrors = s.windowErrors,
         r.firstErrorTime = s.firstErrorTime
  PROVE  Watches(g, r, c)
<1>1. /\ Len(g) = n + 1 /\ DOMAIN h = 1 .. n /\ DOMAIN g = 1 .. n + 1
      /\ \A j \in 1 .. n : g[j] = h[j]
      /\ ~Failed(g, n + 1)
  BY DEF Longer, Failed
<1>2. \A i \in 1 .. n + 1 : ~AllFailed(g, i, n + 1) /\ ~OutageSince(g, i)
  BY <1>1 DEF AllFailed, OutageSince
<1>3. ASSUME NEW f \in DOMAIN h
      PROVE  f \in DOMAIN g /\ g[f] = h[f] /\ DelayedWindow(g, f, r.currentStreak, c.T)
  <2>1. \A i \in f .. n + 1 : i \in 1 .. n + 1
    BY <1>1
  <2> QED
    BY <1>1, <1>2, <2>1 DEF DelayedWindow
<1> QED
  BY <1>3 DEF Watches

(* A window that begins with the last result. *)
LEMMA WindowBegins ==
  ASSUME NEW h \in Seq(Entry), NEW g \in Seq(Entry), NEW n \in Nat, Longer(h, g, n),
         NEW k \in Nat \ {0}, NEW T \in Nat \ {0},
         \A i \in 1 .. n : OutageSince(g, i) => g[n + 1].ts <= g[i].ts + MaxLag + T + MaxGap
  PROVE  DelayedWindow(g, n + 1, k, T)
<1>1. /\ Len(g) = n + 1 /\ DOMAIN g = 1 .. n + 1
  BY DEF Longer
<1>2. PICK ts \in Nat : ts = g[n + 1].ts
  BY <1>1, Stamped
<1>3. MaxLag \in Nat /\ MaxGap \in Nat
  BY ConstantsAssumption, HistoryAssumption
<1>4. \A i \in DOMAIN g : i = n + 1 \/ i \in 1 .. n
  BY <1>1
<1>5. \A i \in n + 1 .. n + 1 : n + 1 - i + 1 <= k
  OBVIOUS
<1>6. ts - ts < T /\ ts <= ts + MaxLag + T + MaxGap
  BY <1>3
<1>7. \A i \in DOMAIN g : OutageSince(g, i) => ts <= g[i].ts + MaxLag + T + MaxGap
  BY <1>2, <1>4, <1>6
<1> QED
  BY <1>1, <1>2, <1>5, <1>6, <1>7 DEF DelayedWindow

(* A failure that extends the window. *)
LEMMA WindowGoesOn ==
  ASSUME NEW h \in Seq(Entry), NEW g \in Seq(Entry), NEW n \in Nat, Longer(h, g, n),
         Paced(g, now),
         NEW f \in DOMAIN h, NEW k \in Nat, NEW T \in Nat,
         DelayedWindow(h, f, k, T), g[n + 1].ts - h[f].ts < T
  PROVE  DelayedWindow(g, f, k + 1, T)
<1>1. /\ Len(h) = n /\ Len(g) = n + 1 /\ DOMAIN h = 1 .. n /\ DOMAIN g = 1 .. n + 1
      /\ \A j \in 1 .. n : g[j] = h[j]
      /\ f \in 1 .. n
  BY DEF Longer
<1>2. MaxLag \in Nat /\ MaxGap \in Nat
  BY ConstantsAssumption, HistoryAssumption
<1>3. ASSUME NEW i \in f .. n + 1, AllFailed(g, i, n + 1)
      PROVE  n + 1 - i + 1 <= k + 1
  <2>1. CASE i = n + 1
    BY <2>1
  <2>2. CASE i # n + 1
    <3>1. i \in f .. n /\ i \in Nat \ {0}
      BY <1>1, <2>2
    <3>2. AllFailed(g, i, n)
      BY <1>3, <3>1 DEF AllFailed
    <3>3. AllFailed(h, i, n)
      BY <3>1, <3>2, SameRun
    <3>4. n - i + 1 <= k
      BY <1>1, <3>1, <3>3 DEF DelayedWindow
    <3> QED
      BY <3>1, <3>4
  <2> QED
    BY <2>1, <2>2
<1>4. ASSUME NEW i \in DOMAIN g, OutageSince(g, i)
      PROVE  g[f].ts <= g[i].ts + MaxLag + T + MaxGap
  <2>1. PICK x \in Nat, y \in Nat : x = g[f].ts /\ y = g[i].ts
    BY <1>1, Stamped
  <2>2. CASE i = n + 1
    <3>1. f \in DOMAIN g /\ f <= i
      BY <1>1, <2>2
    <3>2. g[f].ts <= g[i].ts + MaxLag
      BY <3>1 DEF Paced
    <3>3. x <= y + MaxLag
      BY <2>1, <3>2
    <3>4. x <= y + MaxLag + T + MaxGap
      BY <1>2, <2>1, <3>3, Slack, Zenon
    <3> QED
      BY <2>1, <3>4
  <2>3. CASE i \in 1 .. n
    <3>1. i \in 1 .. n + 1 /\ i <= n
      BY <2>3
    <3>2. OutageSince(h, i)
      BY <1>4, <3>1, OutageShrinks, Zenon
    <3> QED
      BY <1>1, <2>3, <3>2 DEF DelayedWindow
  <2> QED
    BY <1>1, <2>2, <2>3
<1> QED
  BY <1>1, <1>3, <1>4 DEF DelayedWindow

(* A window that began within the outage and lasted T holds N failures in  *)
(* a row: there was room for them.                                         *)
LEMMA EnoughInOutage ==
  ASSUME NEW h \in Seq(Entry), NEW g \in Seq(Entry), NEW n \in Nat, Longer(h, g, n),
         Paced(g, now),
         NEW f \in DOMAIN h, NEW k \in Nat, NEW T \in Nat, NEW N \in Int,
         T > 0, DelayedWindow(h, f, k, T), Gaps(N - 1) <= T, g[n + 1].ts - h[f].ts >= T,
         NEW i \in 1 .. n, OutageSince(g, i), i < f
  PROVE  k + 1 >= N
<1>1. /\ Len(h) = n /\ Len(g) = n + 1 /\ DOMAIN h = 1 .. n /\ DOMAIN g = 1 .. n + 1
      /\ \A j \in 1 .. n : g[j] = h[j]
      /\ f \in 1 .. n
  BY DEF Longer
<1>2. MaxGap \in Nat
  BY HistoryAssumption
<1>3. n - f + 1 <= k
  <2>1. AllFailed(h, i, n)
    <3>1. i \in 1 .. n + 1 /\ i <= n
      OBVIOUS
    <3> QED
      BY <3>1, OutageShrinks, Zenon
  <2>2. AllFailed(h, f, n)
    BY <1>1, <2>1 DEF AllFailed
  <2> QED
    BY <1>1, <2>2 DEF DelayedWindow
<1>4. PICK x \in Int : x = Gaps(n + 1 - f) /\ T <= x
  <2>1. OutageSince(g, f)
    <3>1. \A j \in f .. Len(g) : j \in i .. Len(g) /\ (j > f => j > i)
      BY <1>1
    <3> QED
      BY <3>1, Zenon DEF OutageSince
  <2>2. g[n + 1].ts - g[f].ts <= Gaps(n + 1 - f)
    BY <1>1, <2>1 DEF Paced
  <2>3. PICK x \in Int : x = Gaps(n + 1 - f)
    <3>1. n + 1 - f \in Int
      BY <1>1
    <3> QED
      BY <3>1, OneMoreGap
  <2>4. PICK a \in Nat, b \in Nat : a = g[n + 1].ts /\ b = g[f].ts
    <3>1. n + 1 \in DOMAIN g /\ f \in DOMAIN g
      BY <1>1
    <3>2. g[n + 1].ts \in Nat /\ g[f].ts \in Nat
      BY <3>1, Stamped
    <3> QED
      BY <3>2
  <2>5. a - b <= x /\ a - b >= T
    BY <1>1, <2>2, <2>3, <2>4
  <2>6. T <= x
    BY <2>3, <2>4, <2>5, Squeeze, Zenon
  <2> QED
    BY <2>3, <2>6
<1> SUFFICES ASSUME k + 1 < N PROVE FALSE
  OBVIOUS
<1>5. n + 1 - f \in Nat /\ n + 1 - f + 1 <= N - 1
  BY <1>1, <1>3
<1>6. Gaps(n + 1 - f) < T
  BY <1>2, <1>5, NoRoom
<1> QED
  BY <1>4, <1>6

(* A window that expires in an outage began before it or with it, so its   *)
(* successor begins in time.                                               *)
LEMMA NextBeginsInTime ==
  ASSUME NEW h \in Seq(Entry), NEW g \in Seq(Entry), NEW n \in Nat, Longer(h, g, n),
         Paced(h, now), Paced(g, now),
         NEW f \in DOMAIN h, NEW k \in Nat, NEW T \in Nat, NEW N \in Int,
         T > 0, DelayedWindow(h, f, k, T), Gaps(N - 1) <= T, g[n + 1].ts - h[f].ts >= T,
         k + 1 < N,
         NEW i \in 1 .. n, OutageSince(g, i)
  PROVE  g[n + 1].ts <= g[i].ts + MaxLag + T + MaxGap
<1>1. /\ Len(h) = n /\ DOMAIN h = 1 .. n /\ DOMAIN g = 1 .. n + 1
      /\ g[i] = h[i] /\ f \in 1 .. n
  BY DEF Longer
<1>2. MaxLag \in Nat /\ MaxGap \in Nat
  BY ConstantsAssumption, HistoryAssumption
<1>3. ~(i < f)
  <2> SUFFICES ASSUME i < f PROVE FALSE
    OBVIOUS
  <2>1. k + 1 >= N
    BY EnoughInOutage, Zenon
  <2> QED
    BY <2>1
<1>4. OutageSince(h, i) /\ g[n + 1].ts - h[n].ts \in 0 .. MaxGap
  <2>1. i \in 1 .. n + 1 /\ i <= n
    OBVIOUS
  <2> QED
    BY <2>1, OutageShrinks, Zenon
<1>5. h[n].ts - h[f].ts < T /\ h[f].ts <= h[i].ts + MaxLag
  <2>1. f <= i /\ f \in DOMAIN h /\ i \in DOMAIN h
    BY <1>1, <1>3
  <2> QED
    BY <1>1, <1>4, <2>1 DEF DelayedWindow, Paced
<1>6. PICK a \in Nat, b \in Nat, d \in Nat, e \in Nat :
        a = g[n + 1].ts /\ b = h[n].ts /\ d = h[f].ts /\ e = h[i].ts
  <2>1. n + 1 \in DOMAIN g /\ n \in DOMAIN h /\ f \in DOMAIN h /\ i \in DOMAIN h
    BY <1>1
  <2>2. g[n + 1].ts \in Nat /\ h[n].ts \in Nat /\ h[f].ts \in Nat /\ h[i].ts \in Nat
    BY <2>1, Stamped
  <2> QED
    BY <2>2
<1>7. a - b <= MaxGap /\ b - d < T /\ d <= e + MaxLag
  BY <1>2, <1>4, <1>5, <1>6
<1>8. a <= e + MaxLag + T + MaxGap
  BY <1>2, <1>6, <1>7, ThreeSteps, Zenon
<1> QED
  BY <1>1, <1>6, <1>8

(* What a failure makes of a state, and what anything else leaves of it.   *)
Judged(s, c, ts, r) ==
  LET judged == Judge(CountFailure(s, ts), c, ts)
  IN  r = judged \/ r = [judged EXCEPT !.lastReminderTime = ts]

SameWindow(s, r) ==
  /\ r.isAlarmed = s.isAlarmed /\ r.windowErrors = s.windowErrors
  /\ r.firstErrorTime = s.firstErrorTime

(* One more failure. *)
LEMMA WatchesAfterFailure ==
  ASSUME NEW h \in Seq(Entry), NEW g \in Seq(Entry), NEW n \in Nat, Longer(h, g, n),
         Paced(h, now), Paced(g, now),
         NEW s \in TargetState, NEW c \in ConfigType,
         ConsistentState(s, c), Describes(h, s, c), Watches(h, s, c),
         NEW ts \in Nat \ {0}, g[n + 1].ts = ts,
         NEW r, Judged(s, c, ts, r)
  PROVE  Watches(g, r, c)
<1> DEFINE counted == CountFailure(s, ts)
           judged == Judge(counted, c, ts)
<1>1. /\ counted \in TargetState /\ ConsistentState(counted, c)
      /\ counted.windowErrors > 0 /\ counted.consecutiveSuccess = 0
      /\ counted.isAlarmed = s.isAlarmed
  BY CountFailureGood
<1>2. /\ counted.firstErrorTime = IF s.windowErrors = 0 THEN ts ELSE s.firstErrorTime
      /\ counted.currentStreak = s.currentStreak + 1
  BY CountedFields
<1>3. judged \in TargetState
  BY <1>1, JudgeGood DEF Good
<1> HIDE DEF counted
<1>4. /\ r.isAlarmed = judged.isAlarmed /\ r.firstErrorTime = judged.firstErrorTime
      /\ r.currentStreak = judged.currentStreak
  <2>1. r = judged \/ r = [judged EXCEPT !.lastReminderTime = ts]
    BY Zenon DEF Judged, counted
  <2> HIDE DEF judged
  <2> QED
    BY <1>3, <2>1 DEF TargetState
<1> SUFFICES ASSUME Fitting(c), ~judged.isAlarmed
             PROVE  \E f \in DOMAIN g : /\ g[f].ts = judged.firstErrorTime
                                        /\ DelayedWindow(g, f, judged.currentStreak, c.T)
  BY <1>4 DEF Watches
<1>5. PICK T \in Nat, N \in Int, k \in Nat :
        T = c.T /\ N = c.N /\ k = s.currentStreak /\ T > 0 /\ Gaps(N - 1) <= T
  <2>1. c.T \in Int /\ c.N \in Int /\ s.currentStreak \in Nat
    BY DEF ConfigType, TargetState
  <2>2. c.T > 0 /\ Gaps(c.N - 1) <= c.T
    BY DEF Fitting
  <2>3. c.T \in Nat
    BY <2>1, <2>2
  <2> QED
    BY <2>1, <2>2, <2>3, Zenon
<1>6. ~s.isAlarmed
  BY <1>1, JudgeGood
<1>7. /\ DOMAIN h = 1 .. n /\ n + 1 \in DOMAIN g
      /\ \A j \in 1 .. n : g[j] = h[j] /\ j \in DOMAIN g
  BY DEF Longer
<1>8. s.windowErrors = 0 => \A i \in 1 .. n : ~OutageSince(g, i)
  <2> SUFFICES ASSUME s.windowErrors = 0, NEW i \in 1 .. n, OutageSince(g, i) PROVE FALSE
    OBVIOUS
  <2>1. i \in i .. Len(g)
    BY DEF Longer
  <2>2. Failed(h, i)
    BY <1>7, <2>1 DEF OutageSince, Failed
  <2> QED
    BY <1>7, <2>2 DEF Describes
<1>9. s.windowErrors > 0 =>
        \E f \in DOMAIN h : h[f].ts = s.firstErrorTime /\ DelayedWindow(h, f, k, T)
  BY <1>5, <1>6 DEF Watches
<1>10. s.windowErrors \in Nat
  BY DEF TargetState
<1>11. CASE WindowExpired(counted, c, ts)
  <2>1. judged.firstErrorTime = ts /\ judged.currentStreak = 1
    BY <1>1, <1>11 DEF Judge, RestartWindow, TargetState
  <2>2. PeriodOver(counted, c, ts) /\ ~ConditionMet(counted, c)
    BY <1>11 DEF WindowExpired
  <2>3. k + 1 < N
    <3>1. /\ counted.maxStreakInWin \in Nat /\ counted.windowErrors \in Nat
          /\ counted.currentStreak <= counted.maxStreakInWin
          /\ counted.maxStreakInWin <= counted.windowErrors
      BY <1>1 DEF TargetState, ConsistentState
    <3>2. ~(counted.maxStreakInWin >= N) \/ ~(counted.windowErrors >= N)
      BY <1>5, <2>2 DEF ConditionMet
    <3>3. PICK m \in Nat, w \in Nat : m = counted.maxStreakInWin /\ w = counted.windowErrors
      BY <3>1
    <3>4. counted.currentStreak = k + 1
      BY <1>2, <1>5, Zenon
    <3>5. /\ k + 1 <= m /\ m <= w
          /\ ~(m >= N) \/ ~(w >= N)
      BY <3>1, <3>2, <3>3, <3>4, Zenon
    <3>6. k \in Nat /\ N \in Int
      BY <1>5, Zenon
    <3> QED
      BY <3>5, <3>6, Below, Zenon
  <2>4. ASSUME NEW i \in 1 .. n, OutageSince(g, i)
        PROVE  g[n + 1].ts <= g[i].ts + MaxLag + T + MaxGap
    <3>1. s.windowErrors > 0
      BY <1>8, <1>10, <2>4
    <3>2. PICK f \in DOMAIN h : h[f].ts = s.firstErrorTime /\ DelayedWindow(h, f, k, T)
      BY <1>9, <3>1
    <3>3. g[n + 1].ts - h[f].ts >= T
      BY <1>2, <1>5, <2>2, <3>1, <3>2 DEF PeriodOver
    <3> QED
      BY <1>5, <2>3, <2>4, <3>2, <3>3, NextBeginsInTime, Zenon
  <2>5. DelayedWindow(g, n + 1, 1, T)
    <3>1. T \in Nat \ {0}
      BY <1>5, Counts, Zenon
    <3> QED
      BY <2>4, <3>1, WindowBegins
  <2> QED
    BY <1>5, <1>7, <2>1, <2>5
<1>12. CASE ~WindowExpired(counted, c, ts)
  <2>1. judged = counted /\ ~PeriodOver(counted, c, ts)
    <3>1. ~Raises(counted, c, ts)
      BY <1>1, JudgeGood DEF judged
    <3>2. ~PeriodOver(counted, c, ts)
      BY <1>1, <1>5, <1>6, <1>12, <3>1 DEF Raises, ShouldAlarm, WindowExpired
    <3> QED
      BY <1>12, <3>1, <3>2 DEF Judge
  <2> HIDE DEF judged
  <2>2. CASE s.windowErrors = 0
    <3>1. DelayedWindow(g, n + 1, k + 1, T)
      <4>1. k + 1 \in Nat \ {0} /\ T \in Nat \ {0}
        BY <1>5, Counts, Zenon
      <4> QED
        BY <1>8, <2>2, <4>1, WindowBegins
    <3> QED
      BY <1>2, <1>5, <1>7, <2>1, <2>2, <3>1
  <2>3. CASE s.windowErrors > 0
    <3>1. PICK f \in DOMAIN h : h[f].ts = s.firstErrorTime /\ DelayedWindow(h, f, k, T)
      BY <1>9, <2>3
    <3>2. h[f].ts \in Nat /\ counted.firstErrorTime = h[f].ts
      BY <1>2, <2>3, <3>1, Stamped
    <3>3. g[n + 1].ts - h[f].ts < T
      BY <1>5, <2>1, <3>2 DEF PeriodOver
    <3>4. DelayedWindow(g, f, k + 1, T)
      BY <1>5, <3>1, <3>3, WindowGoesOn, Zenon
    <3> QED
      BY <1>2, <1>5, <1>7, <2>1, <3>2, <3>4
  <2> QED
    BY <1>10, <2>2, <2>3
<1> QED
  BY <1>11, <1>12

-----------------------------------------------------------------------------
LEMMA NothingPaced == ASSUME NEW clock PROVE Paced(<<>>, clock)
BY DEF Paced

LEMMA ClockAdvances ==
  ASSUME NEW h \in Seq(Entry), NEW a \in Nat, NEW b \in Nat, a <= b, Paced(h, a)
  PROVE  Paced(h, b)
<1>1. ASSUME NEW j \in DOMAIN h PROVE h[j].ts <= b
  <2>1. h[j].ts \in Nat /\ h[j].ts <= a
    BY Stamped DEF Paced
  <2> QED
    BY <2>1
<1> QED
  BY <1>1 DEF Paced

(* What ProcessResult stores, as far as the window is concerned. *)
LEMMA StoredBy ==
  ASSUME HInv, NEW t \in Target, NEW p \in Probe, NEW ts \in Stamps, HProcessResult(t, p, ts)
  PROVE  \E r : /\ states' = WithState(t, r)
                /\ \/ IsCritical(cfg[t], p) /\ Judged(StateOf(t), cfg[t], ts, r)
                   \/ ~IsCritical(cfg[t], p) /\ SameWindow(StateOf(t), r)
                   \/ r.windowErrors = 0
<1>1. StateOf(t) \in TargetState
  BY StateOfGood DEF HInv
<1>2. CASE IsCritical(cfg[t], p)
  <2>1. HandleCritical(t, ts)
    BY <1>2 DEF HProcessResult, ProcessResult
  <2>2. \E r : states' = WithState(t, r) /\ Judged(StateOf(t), cfg[t], ts, r)
    BY <2>1, Zenon DEF HandleCritical, Judged
  <2> QED
    BY <1>2, <2>2, Zenon
<1>3. CASE ~IsCritical(cfg[t], p)
  <2> DEFINE s == StateOf(t)
             z == [s EXCEPT !.currentStreak = 0]
  <2>1. HandleSuccessOrWarning(t, IsWarning(cfg[t], p))
    BY <1>3 DEF HProcessResult, ProcessResult
  <2>2. \/ states' = WithState(t, [z EXCEPT !.consecutiveSuccess = 0])
        \/ states' = WithState(t, z)
        \/ states' = WithState(t, [z EXCEPT !.consecutiveSuccess = z.consecutiveSuccess + 1])
        \/ states' = WithState(t, Recovered(z))
    BY <2>1, Zenon DEF HandleSuccessOrWarning
  <2> HIDE DEF s
  <2>3. z \in TargetState /\ SameWindow(s, z)
    BY <1>1 DEF TargetState, SameWindow, s
  <2> HIDE DEF z
  <2>4. \A k : SameWindow(s, [z EXCEPT !.consecutiveSuccess = k])
    BY <2>3 DEF TargetState, SameWindow
  <2>5. Recovered(z).windowErrors = 0
    BY <2>3 DEF Recovered, TargetState
  <2> QED
    BY <1>3, <2>2, <2>3, <2>4, <2>5, Zenon DEF s
<1> QED
  BY <1>2, <1>3

LEMMA SResultInv ==
  ASSUME SInv, NEW t \in Target, NEW p \in Probe, NEW ts \in Stamps, HProcessResult(t, p, ts), HInv'
  PROVE  SInv'
<1> DEFINE s == StateOf(t)
           c == cfg[t]
           h == hist[t]
           e == [sev |-> SeverityOf(t, p), ts |-> ts]
           g == Append(h, e)
<1>1. /\ Good(s, c) /\ c \in ConfigType /\ s \in TargetState /\ s.isAlarmed = Alarmed(states, t)
      /\ Describes(h, s, c) /\ h \in Seq(Entry) /\ HInv /\ IInv /\ now \in Nat
      /\ Paced(h, now) /\ Watches(h, s, c)
  BY StateOfGood DEF SInv, HInv, Fits, IInv, TypeOK
<1>2. ts \in Nat \ {0} /\ UNCHANGED <<cfg, now>>
  BY DEF HProcessResult, ProcessResult, Stamps, SInv, HInv, IInv, TypeOK
<1>3. e \in Entry /\ e.sev = SeverityOf(t, p) /\ e.ts = ts
  BY <1>2, SeverityKnown DEF Entry
<1>4. hist' = [hist EXCEPT ![t] = IF Recovers(t) THEN <<>> ELSE g]
  BY DEF HProcessResult
<1> HIDE DEF e
<1>5. g \in Seq(Entry)
  BY <1>1, <1>3, Appended
<1>6. PICK n \in Nat : Longer(h, g, n) /\ g[n + 1] = e
  BY <1>1, <1>3, Appended
<1>7. PICK r :
        /\ states' = WithState(t, r)
        /\ \/ IsCritical(c, p) /\ Judged(s, c, ts, r)
           \/ ~IsCritical(c, p) /\ SameWindow(s, r)
           \/ r.windowErrors = 0
  BY <1>1, StoredBy, Zenon
<1>8. /\ states'[t] = r /\ \A x \in Target : StateOf(x)' = IF x = t THEN r ELSE StateOf(x)
  BY <1>1, <1>7, StoredState
<1>9. hist \in [Target -> Seq(Entry)]
  BY <1>1 DEF HInv
<1>10. /\ hist'[t] = IF Recovers(t) THEN <<>> ELSE g
       /\ \A x \in Target \ {t} : hist'[x] = hist[x]
  BY <1>4, <1>9
<1> HIDE DEF s, c, h, g
<1>11. Paced(g, now)
  BY <1>1, <1>3, <1>5, <1>6, PacedLonger
<1>12. Paced(hist'[t], now)
  BY <1>10, <1>11, NothingPaced
<1>13. Watches(hist'[t], r, c)
  <2>1. CASE r.windowErrors = 0
    BY <2>1 DEF Watches
  <2>2. CASE ~IsCritical(c, p) /\ SameWindow(s, r)
    <3>1. hist'[t] = g
      BY <1>1, <1>8, <1>10, <2>2 DEF Recovers, SameWindow
    <3>2. g[n + 1].sev # "critical"
      BY <1>3, <1>6, <2>2, SeverityKnown DEF c
    <3> QED
      BY <1>1, <1>5, <1>6, <2>2, <3>1, <3>2, WatchesAfterSuccess DEF SameWindow
  <2>3. CASE Judged(s, c, ts, r)
    <3> DEFINE counted == CountFailure(s, ts)
               judged == Judge(counted, c, ts)
    <3>1. /\ counted \in TargetState /\ ConsistentState(counted, c)
          /\ counted.windowErrors > 0 /\ counted.consecutiveSuccess = 0
          /\ counted.isAlarmed = s.isAlarmed
      BY <1>1, <1>2, CountFailureGood DEF Good
    <3> HIDE DEF counted
    <3>2. Good(judged, c) /\ (s.isAlarmed => judged.isAlarmed)
      BY <1>1, <1>2, <3>1, JudgeGood
    <3>3. r = judged \/ r = [judged EXCEPT !.lastReminderTime = ts]
      BY <2>3, Zenon DEF Judged, counted
    <3> HIDE DEF judged
    <3>4. s.isAlarmed => r.isAlarmed
      <4>1. r.isAlarmed = judged.isAlarmed
        <5>1. judged \in TargetState
          BY <3>2 DEF Good
        <5> QED
          BY <3>3, <5>1 DEF TargetState
      <4> QED
        BY <3>2, <4>1
    <3>5. hist'[t] = g
      BY <1>1, <1>8, <1>10, <3>4 DEF Recovers
    <3>6. g[n + 1].ts = ts
      BY <1>3, <1>6
    <3>7. Watches(g, r, c)
      <4>1. ConsistentState(s, c)
        BY <1>1 DEF Good
      <4> QED
        BY <1>1, <1>2, <1>5, <1>6, <1>11, <2>3, <3>6, <4>1, WatchesAfterFailure, Zenon
    <3> QED
      BY <3>5, <3>7
  <2> QED
    BY <1>7, <2>1, <2>2, <2>3
<1>14. \A x \in Target : Paced(hist'[x], now) /\ Watches(hist'[x], StateOf(x)', cfg[x])
  BY <1>8, <1>10, <1>12, <1>13 DEF SInv, c
<1> QED
  BY <1>2, <1>14 DEF SInv

LEMMA SInit == HInit => SInv
<1> SUFFICES ASSUME HInit PROVE SInv
  OBVIOUS
<1>1. HInv
  BY HInitInv
<1>2. ASSUME NEW t \in Target
      PROVE  Paced(hist[t], now) /\ Watches(hist[t], StateOf(t), cfg[t])
  <2>1. hist[t] = <<>>
    BY DEF HInit
  <2>2. StateOf(t).windowErrors = 0
    BY DEF HInit, Init, StateOf, Fresh
  <2> QED
    BY <2>1, <2>2, NothingPaced DEF Watches
<1> QED
  BY <1>1, <1>2 DEF SInv

LEMMA SResetInv ==
  ASSUME SInv, NEW t \in Target, NEW d \in Config, HResetTarget(t, d), HInv'
  PROVE  SInv'
<1>1. /\ states' = [x \in DOMAIN states \ {t} |-> states[x]]
      /\ cfg' = [cfg EXCEPT ![t] = d] /\ hist' = [hist EXCEPT ![t] = <<>>]
      /\ now' = now
  BY DEF HResetTarget, ResetTarget
<1>2. \A x \in Target : StateOf(x)' = IF x = t THEN Fresh ELSE StateOf(x)
  BY <1>1 DEF StateOf
<1>3. /\ \A x \in Target : cfg'[x] = IF x = t THEN d ELSE cfg[x]
      /\ \A x \in Target : hist'[x] = IF x = t THEN <<>> ELSE hist[x]
  BY <1>1 DEF SInv, HInv, IInv, TypeOK
<1>4. Paced(<<>>, now) /\ Watches(<<>>, Fresh, d)
  BY NothingPaced DEF Watches, Fresh
<1>5. \A x \in Target : Paced(hist'[x], now) /\ Watches(hist'[x], StateOf(x)', cfg'[x])
  BY <1>2, <1>3, <1>4 DEF SInv
<1> QED
  BY <1>1, <1>5 DEF SInv

LEMMA SStays ==
  ASSUME SInv, UNCHANGED <<states, cfg, hist>>, now' = now \/ now' = now + 1, HInv'
  PROVE  SInv'
<1>1. \A x \in Target : StateOf(x)' = StateOf(x)
  BY DEF StateOf
<1>2. now \in Nat /\ now' \in Nat /\ now <= now'
  BY DEF SInv, HInv, IInv, TypeOK
<1>3. \A x \in Target : hist[x] \in Seq(Entry) /\ Paced(hist[x], now)
  BY DEF SInv, HInv
<1>4. \A x \in Target : Paced(hist[x], now')
  BY <1>2, <1>3, ClockAdvances
<1> QED
  BY <1>1, <1>4 DEF SInv

LEMMA SNextInv ==
  ASSUME SInv, [HNext]_hvars
  PROVE  SInv'
<1>1. HInv'
  BY HNextInv DEF SInv
<1>2. CASE \E t \in Target, p \in Probe, ts \in Stamps : HProcessResult(t, p, ts)
  BY <1>1, <1>2, SResultInv, Zenon
<1>3. CASE \E t \in Target, c \in Config : HResetTarget(t, c)
  BY <1>1, <1>3, SResetInv, Zenon
<1>4. CASE HTick \/ UNCHANGED hvars
  BY <1>1, <1>4, SStays DEF HTick, Tick, hvars, vars
<1> QED
  BY <1>2, <1>3, <1>4 DEF HNext

LEMMA TooLong ==
  ASSUME NEW a \in Nat, NEW b \in Nat, NEW d \in Nat,
         NEW T \in Nat, NEW x \in Nat, NEW y \in Nat,
         a - b < T, b <= d + y + T + x
  PROVE  ~(a - d >= 2 * (T + x) + y)
OBVIOUS

(* An outage of two periods, two gaps and the lag, with checks frequent    *)
(* enough for N of them to fit in a period, is never without its alarm.    *)
THEOREM SustainedOutagesAlarm == HSpec => []SustainedOutageAlarms
<1>1. SInv => SustainedOutageAlarms
  <2> SUFFICES ASSUME SInv, NEW t \in Target,
                      cfg[t].T > 0, (cfg[t].N - 1) * MaxGap <= cfg[t].T,
                      NEW i \in 1 .. Len(hist[t]), OutageSince(hist[t], i),
                      ~Alarmed(states, t)
               PROVE  ~(hist[t][Len(hist[t])].ts - hist[t][i].ts
                          >= 2 * (cfg[t].T + MaxGap) + MaxLag)
    BY Zenon DEF SustainedOutageAlarms
  <2> DEFINE h == hist[t]
             c == cfg[t]
             s == StateOf(t)
  <2>1. /\ c \in ConfigType /\ s \in TargetState /\ s.isAlarmed = Alarmed(states, t)
        /\ Describes(h, s, c) /\ h \in Seq(Entry)
        /\ Paced(h, now) /\ Watches(h, s, c)
    BY StateOfGood DEF SInv, HInv, Fits
  <2>2. Fitting(c)
    BY DEF Fitting, Gaps
  <2>3. OutageSince(h, i) /\ i \in 1 .. Len(h) /\ ~s.isAlarmed
    BY <2>1
  <2> HIDE DEF h, c, s
  <2>4. DOMAIN h = 1 .. Len(h) /\ Len(h) \in Nat
    BY <2>1
  <2>5. s.windowErrors > 0
    <3>1. Failed(h, i)
      BY <2>3, <2>4 DEF OutageSince
    <3>2. s.windowErrors # 0
      BY <2>1, <2>3, <2>4, <3>1 DEF Describes
    <3>3. s.windowErrors \in Nat
      BY <2>1 DEF TargetState
    <3> QED
      BY <3>2, <3>3
  <2>6. PICK f \in DOMAIN h : DelayedWindow(h, f, s.currentStreak, c.T)
    BY <2>1, <2>2, <2>3, <2>5, Zenon DEF Watches
  <2>7. /\ h[Len(h)].ts - h[f].ts < c.T
        /\ h[f].ts <= h[i].ts + MaxLag + c.T + MaxGap
    BY <2>3, <2>4, <2>6, Zenon DEF DelayedWindow
  <2>8. PICK a \in Nat, b \in Nat, d \in Nat, T \in Nat :
          a = h[Len(h)].ts /\ b = h[f].ts /\ d = h[i].ts /\ T = c.T
    <3>1. Len(h) \in DOMAIN h /\ i \in DOMAIN h
      BY <2>3, <2>4
    <3>2. h[Len(h)].ts \in Nat /\ h[f].ts \in Nat /\ h[i].ts \in Nat
      BY <2>1, <3>1, Stamped
    <3>3. c.T \in Int /\ c.T > 0
      BY <2>1, <2>2 DEF ConfigType, Fitting
    <3>4. c.T \in Nat
      BY <3>3
    <3> QED
      BY <3>2, <3>4
  <2>9. MaxLag \in Nat /\ MaxGap \in Nat
    BY ConstantsAssumption, HistoryAssumption
  <2>10. a - b < T /\ b <= d + MaxLag + T + MaxGap
    BY <2>7, <2>8, Zenon
  <2>11. ~(a - d >= 2 * (T + MaxGap) + MaxLag)
    BY <2>9, <2>10, TooLong, Zenon
  <2> QED
    BY <2>8, <2>11, Zenon DEF h, c
<1>2. SInv /\ [HNext]_hvars => SInv'
  BY SNextInv
<1> QED
  BY <1>1, <1>2, SInit, PTL DEF HSpec
=============================================================================
