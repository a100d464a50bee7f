CONSTANTS
  Target = {"a"}
  Root = Root
  Config <- MCOutageConfig
  Topology = {}
  Latency = {1}
  Minute = 1
  MaxTime = 12
  MaxLag = 0
  MaxErrors = 12
  MaxHist = 12
  MinGap = 1
  MaxGap = 1
SPECIFICATION HSpec
INVARIANT SustainedOutageAlarms
