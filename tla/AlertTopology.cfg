CONSTANTS
  n1 = n1
  n2 = n2
  n3 = n3
  Target = {n1, n2, n3}
  Root = Root
  Config <- MCConfig
  Topology <- MCTopology
  Latency = {1}
  Minute = 1
  MaxTime = 2
  MaxLag = 0
  MaxErrors = 2
SPECIFICATION Spec
INVARIANT OperatorView
PROPERTY ImplementsBoard
