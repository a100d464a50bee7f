CONSTANTS
  a = a
  b = b
  v1 = v1
  v2 = v2
  off = off
  w1 = w1
  Target = {a, b}
  Version = {v1, v2, off}
  Active = {v1, v2}
  Listable <- MCListable
  Worker = {w1}
  QueueCap = 1
  MaxLoops = 2
  MaxEdits = 1
SPECIFICATION FairSpec
INVARIANTS TypeOK OneLoopPerTarget TopologyAgrees
PROPERTIES ConvergesToControlPlane ShutdownStops
CHECK_DEADLOCK FALSE
