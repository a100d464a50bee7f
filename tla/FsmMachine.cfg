CONSTANTS
  Config <- MCConfig
  MaxLatency = 1
  Latency = {1, 2}
  MaxTime = 5
  MaxHist = 5
SPECIFICATION Spec
INVARIANTS NoOverdueAlarm CountersOfPhase
PROPERTY AlarmJustified
CHECK_DEADLOCK FALSE
