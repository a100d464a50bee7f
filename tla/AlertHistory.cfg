CONSTANTS
  Target = {"a"}
  Root = Root
  Config <- MCConfig
  Topology = {}
  Latency = {1, 2, 3}
  Minute = 1
  MaxTime = 4
  MaxLag = 1
  MaxErrors = 6
  MaxHist = 5
  MinGap <- MCNoMinGap
  MaxGap = 1
SPECIFICATION HSpec
INVARIANTS TypeOK WindowConsistent NoMissedAlarm AlarmMatchesHistory NoOverdueRecovery
PROPERTY RecoveryEarned
